------------------------ MODULE ConnectionState_proofs ------------------------
(***************************************************************************)
(* For any set of names and tokens, any lifetime and any clock bound:      *)
(* the registry's types, the exactness of its leases under the concurrent  *)
(* sweep, and that it implements LeaseRegistry.                            *)
(***************************************************************************)
EXTENDS ConnectionState, TLAPS

(* The entry of a posted name is either what was posted, with the expiry   *)
(* that follows from it, or already swept, which only happens after it     *)
(* expired.                                                                *)
EntriesMatch ==
    /\ DOMAIN Connections \subseteq DOMAIN posted
    /\ \A u \in DOMAIN Connections :
          /\ Connections[u].tokens = posted[u].tokens
          /\ Connections[u].expiresIn = posted[u].at + Lifetime
    /\ \A u \in DOMAIN posted :
          u \notin DOMAIN Connections => now >= posted[u].at + Lifetime

(* Names are fresh when posted, and the cleaner's snapshot holds only      *)
(* names that were handed out: no entry can be added under a name that is  *)
(* waiting to be deleted.                                                  *)
FreshNames == /\ DOMAIN posted \subseteq issued
              /\ cleaner.usernames \subseteq issued

IInv == TypeOK /\ EntriesMatch /\ FreshNames /\ SweepOnlyExpired

-----------------------------------------------------------------------------
(* The inductive invariant holds initially.                                *)
LEMMA InitIInv == Init => IInv
  <1> SUFFICES ASSUME Init PROVE IInv
    OBVIOUS
  <1>1. DOMAIN Connections = {} /\ DOMAIN posted = {}
    BY DEF Init
  <1>2. TypeOK
    <2>1. Connections \in [{} -> Connection] /\ posted \in [{} -> Posting]
      BY DEF Init
    <2>2. 0 \in 0 .. MaxTime
      BY TimeAssumption
    <2> QED BY <1>1, <2>1, <2>2 DEF Init, TypeOK, Waiting
  <1>3. EntriesMatch /\ FreshNames /\ SweepOnlyExpired
    BY <1>1 DEF Init, EntriesMatch, FreshNames, SweepOnlyExpired, Waiting
  <1> QED BY <1>2, <1>3 DEF IInv

-----------------------------------------------------------------------------
(* Posting: the only step that adds an entry, and it adds it under a name  *)
(* that nobody holds, not even the cleaner.                                *)
LEMMA CreateStep ==
    ASSUME IInv, NEW u \in Username, NEW t \in TokenPair, CreateNewConnection(u, t)
    PROVE  IInv'
  <1> DEFINE e == [tokens |-> t, expiresIn |-> now + Lifetime]
             p == [tokens |-> t, at |-> now]
  <1> USE TimeAssumption
  <1>1. /\ DOMAIN Connections' = DOMAIN Connections \cup {u}
        /\ Connections'[u] = e
        /\ \A v \in DOMAIN Connections : v # u => Connections'[v] = Connections[v]
    BY DEF CreateNewConnection, AddConnection
  <1>2. /\ DOMAIN posted' = DOMAIN posted \cup {u}
        /\ posted'[u] = p
        /\ \A v \in DOMAIN posted : v # u => posted'[v] = posted[v]
    BY DEF CreateNewConnection
  <1>3. u \notin DOMAIN posted /\ u \notin DOMAIN Connections /\ u \notin cleaner.usernames
    BY DEF IInv, EntriesMatch, FreshNames, CreateNewConnection
  <1>4. now' = now /\ cleaner' = cleaner /\ tick' = tick /\ issued' = issued \cup {u}
    BY DEF CreateNewConnection
  <1>5. e \in Connection /\ p \in Posting
    BY DEF IInv, TypeOK, Connection, Posting
  <1>6. TypeOK'
    <2>1. Connections' \in [DOMAIN Connections' -> Connection]
      BY <1>1, <1>5 DEF CreateNewConnection, AddConnection, IInv, TypeOK
    <2>2. posted' \in [DOMAIN posted' -> Posting]
      BY <1>2, <1>5 DEF CreateNewConnection, IInv, TypeOK
    <2> QED BY <2>1, <2>2, <1>1, <1>2, <1>4 DEF IInv, TypeOK
  <1>7. EntriesMatch'
    BY <1>1, <1>2, <1>3, <1>4 DEF IInv, EntriesMatch, TypeOK
  <1>8. FreshNames'
    BY <1>2, <1>4 DEF IInv, FreshNames
  <1>9. SweepOnlyExpired'
    BY <1>1, <1>3, <1>4 DEF IInv, SweepOnlyExpired, IsAlive
  <1> QED BY <1>6, <1>7, <1>8, <1>9 DEF IInv

(* Time only makes live entries expire; it revives none.                   *)
LEMMA TickStep == IInv /\ Tick => IInv'
  <1> SUFFICES ASSUME IInv, Tick PROVE IInv'
    OBVIOUS
  <1> USE TimeAssumption
  <1>1. now' = now + 1 /\ now' \in 0 .. MaxTime /\ now \in Int
    BY DEF Tick, IInv, TypeOK
  <1>2. UNCHANGED <<Connections, issued, posted, tick, cleaner>>
    BY DEF Tick
  <1>3. TypeOK'
    BY <1>1, <1>2 DEF IInv, TypeOK
  <1>4. EntriesMatch'
    BY <1>1, <1>2 DEF IInv, EntriesMatch, TypeOK, Posting
  <1>5. FreshNames'
    BY <1>2 DEF IInv, FreshNames
  <1>6. SweepOnlyExpired'
    BY <1>1, <1>2 DEF IInv, SweepOnlyExpired, IsAlive, TypeOK, Connection
  <1> QED BY <1>3, <1>4, <1>5, <1>6 DEF IInv

(* The snapshot holds expired names, all of them handed out.               *)
LEMMA ListStep == IInv /\ ListExpired => IInv'
  <1> SUFFICES ASSUME IInv, ListExpired PROVE IInv'
    OBVIOUS
  <1>1. /\ cleaner' = [pc |-> "deleting", usernames |-> ExpiredUsernames]
        /\ UNCHANGED <<Connections, now, issued, posted, tick>>
    BY DEF ListExpired
  <1>2. ExpiredUsernames \subseteq DOMAIN Connections
    BY DEF ExpiredUsernames
  <1>3. TypeOK'
    BY <1>1, <1>2 DEF IInv, TypeOK
  <1>4. EntriesMatch'
    BY <1>1 DEF IInv, EntriesMatch
  <1>5. FreshNames'
    BY <1>1, <1>2 DEF IInv, FreshNames, EntriesMatch
  <1>6. SweepOnlyExpired'
    BY <1>1 DEF SweepOnlyExpired, ExpiredUsernames, IsAlive
  <1> QED BY <1>3, <1>4, <1>5, <1>6 DEF IInv

(* Deleting by name removes an entry that has expired, never a newer one.  *)
LEMMA DeleteStep ==
    ASSUME IInv, NEW u \in Username, DeleteNext(u)
    PROVE  IInv'
  <1> USE TimeAssumption
  <1>1. /\ DOMAIN Connections' = DOMAIN Connections \ {u}
        /\ \A v \in DOMAIN Connections' : Connections'[v] = Connections[v]
    BY DEF DeleteNext, DeleteConnection
  <1>2. /\ cleaner' = [cleaner EXCEPT !.usernames = @ \ {u}]
        /\ u \in cleaner.usernames
        /\ UNCHANGED <<now, issued, posted, tick>>
    BY DEF DeleteNext
  <1>3. /\ cleaner'.usernames = cleaner.usernames \ {u}
        /\ cleaner'.pc = cleaner.pc
    BY <1>2 DEF IInv, TypeOK
  <1>4. u \in DOMAIN Connections => now >= posted[u].at + Lifetime
    <2> SUFFICES ASSUME u \in DOMAIN Connections PROVE now >= posted[u].at + Lifetime
      OBVIOUS
    <2>1. ~ (now < Connections[u].expiresIn)
      BY <1>2 DEF IInv, SweepOnlyExpired, IsAlive
    <2>2. Connections[u].expiresIn = posted[u].at + Lifetime /\ u \in DOMAIN posted
      BY DEF IInv, EntriesMatch
    <2>3. now \in Int /\ posted[u].at \in Int
      BY <2>2 DEF IInv, TypeOK, Posting
    <2> QED BY <2>1, <2>2, <2>3
  <1>5. TypeOK'
    <2>1. Connections' \in [DOMAIN Connections' -> Connection]
      BY <1>1 DEF DeleteNext, DeleteConnection, IInv, TypeOK
    <2> QED BY <2>1, <1>1, <1>2, <1>3 DEF IInv, TypeOK
  <1>6. EntriesMatch'
    BY <1>1, <1>2, <1>4 DEF IInv, EntriesMatch
  <1>7. FreshNames'
    BY <1>2, <1>3 DEF IInv, FreshNames
  <1>8. SweepOnlyExpired'
    BY <1>1, <1>2, <1>3 DEF IInv, SweepOnlyExpired, IsAlive
  <1> QED BY <1>5, <1>6, <1>7, <1>8 DEF IInv

(* The remaining steps touch neither the map nor the clock, or empty both  *)
(* the map and its history.                                                *)
LEMMA OtherStep ==
    ASSUME IInv, TickerFires \/ StartSweep \/ EndSweep \/ Restart \/ UNCHANGED vars
    PROVE  IInv'
  <1>1. CASE TickerFires \/ StartSweep \/ EndSweep \/ UNCHANGED vars
    <2>1. /\ UNCHANGED <<Connections, now, issued, posted>>
          /\ \/ cleaner' = cleaner
             \/ cleaner' = [pc |-> "waiting", usernames |-> {}]
             \/ cleaner' = [pc |-> "listing", usernames |-> {}]
      BY <1>1 DEF TickerFires, StartSweep, EndSweep, vars, Waiting
    <2>2. /\ cleaner' \in [pc : {"waiting", "listing", "deleting"}, usernames : SUBSET Username]
          /\ tick' \in BOOLEAN
      <3>1. tick' \in BOOLEAN
        BY <1>1 DEF TickerFires, StartSweep, EndSweep, vars, IInv, TypeOK
      <3>2. CASE cleaner' = cleaner
        BY <3>1, <3>2 DEF IInv, TypeOK
      <3>3. CASE cleaner' = [pc |-> "waiting", usernames |-> {}]
        BY <3>1, <3>3
      <3>4. CASE cleaner' = [pc |-> "listing", usernames |-> {}]
        BY <3>1, <3>4
      <3> QED BY <2>1, <3>2, <3>3, <3>4
    <2>3. cleaner'.usernames \subseteq cleaner.usernames
      BY <2>1
    <2>4. TypeOK'
      BY <2>1, <2>2 DEF IInv, TypeOK
    <2>5. EntriesMatch'
      BY <2>1 DEF IInv, EntriesMatch
    <2>6. FreshNames' /\ SweepOnlyExpired'
      BY <2>1, <2>3 DEF IInv, FreshNames, SweepOnlyExpired, IsAlive
    <2> QED BY <2>4, <2>5, <2>6 DEF IInv
  <1>2. CASE Restart
    <2>1. /\ DOMAIN Connections' = {} /\ DOMAIN posted' = {}
          /\ cleaner' = Waiting /\ tick' = FALSE /\ UNCHANGED <<now, issued>>
          /\ Connections' = [u \in {} |-> NoTokens] /\ posted' = [u \in {} |-> NoTokens]
      BY <1>2 DEF Restart
    <2> QED BY <2>1 DEF IInv, TypeOK, EntriesMatch, FreshNames, SweepOnlyExpired, Waiting
  <1> QED BY <1>1, <1>2

(* The inductive step.                                                     *)
LEMMA NextIInv == IInv /\ [Next]_vars => IInv'
  <1> SUFFICES ASSUME IInv, [Next]_vars PROVE IInv'
    OBVIOUS
  <1>1. ASSUME NEW u \in Username, NEW t \in TokenPair, CreateNewConnection(u, t) PROVE IInv'
    BY <1>1, CreateStep
  <1>2. CASE Tick
    BY <1>2, TickStep
  <1>3. CASE ListExpired
    BY <1>3, ListStep
  <1>4. ASSUME NEW u \in Username, DeleteNext(u) PROVE IInv'
    BY <1>4, DeleteStep
  <1>5. CASE TickerFires \/ StartSweep \/ EndSweep \/ Restart \/ UNCHANGED vars
    BY <1>5, OtherStep
  <1> QED BY <1>1, <1>2, <1>3, <1>4, <1>5 DEF Next, Cleaner

(* IInv holds in every reachable state.                                    *)
LEMMA Invariance == Spec => []IInv
  BY InitIInv, NextIInv, PTL DEF Spec

-----------------------------------------------------------------------------
(* Every variable keeps its type, for any Username, TokenPair, Lifetime.   *)
THEOREM TypeCorrect == Spec => []TypeOK
  <1>1. IInv => TypeOK
    BY DEF IInv
  <1> QED BY <1>1, Invariance, PTL

(* The sweep never holds a name whose entry is alive (api/server.go 19-23).*)
THEOREM SweepIsSafe == Spec => []SweepOnlyExpired
  <1>1. IInv => SweepOnlyExpired
    BY DEF IInv
  <1> QED BY <1>1, Invariance, PTL

(* A lookup's answer is what was posted, for exactly the lifetime.         *)
THEOREM LeasesAreExact == Spec => []AvailableForItsLifetime
  <1>1. IInv => AvailableForItsLifetime
    <2> SUFFICES ASSUME IInv, NEW u \in Username
                 PROVE  GetTokens(u) = IF u \in DOMAIN posted /\ now < posted[u].at + Lifetime
                                       THEN posted[u].tokens ELSE NoTokens
      BY DEF AvailableForItsLifetime
    <2> USE TimeAssumption
    <2>1. CASE u \in DOMAIN Connections
      <3>1. /\ u \in DOMAIN posted
            /\ Connections[u].tokens = posted[u].tokens
            /\ Connections[u].expiresIn = posted[u].at + Lifetime
        BY <2>1 DEF IInv, EntriesMatch
      <3> QED BY <2>1, <3>1 DEF GetTokens, IsAlive
    <2>2. CASE u \notin DOMAIN Connections
      <3>1. u \in DOMAIN posted => ~ (now < posted[u].at + Lifetime)
        BY <2>2 DEF IInv, EntriesMatch, TypeOK, Posting
      <3> QED BY <2>2, <3>1 DEF GetTokens
    <2> QED BY <2>1, <2>2
  <1> QED BY <1>1, Invariance, PTL

-----------------------------------------------------------------------------
(* The registry implements LeaseRegistry: posting grants a fresh name;     *)
(* time withdraws every name that expires with the tick; a restart         *)
(* withdraws all of them; the sweep's steps change no lookup's answer.     *)
View == [u \in Username |-> IF u \in issued THEN GetTokens(u) ELSE Unused]

LEMMA NothingUnused == ASSUME TypeOK, NEW u \in Username PROVE GetTokens(u) # Unused
  BY TokenAssumption DEF TypeOK, GetTokens, Connection

LEMMA InitRefines == Init => Lease!Init
  BY DEF Init, Lease!Init, GetTokens

LEMMA StepRefines == IInv /\ [Next]_vars => [Lease!Next]_View
  <1> SUFFICES ASSUME IInv, [Next]_vars PROVE Lease!Next \/ View' = View
    BY DEF Lease!Next, View
  <1> USE TimeAssumption, TokenAssumption
  <1>1. ASSUME NEW u \in Username, NEW t \in TokenPair, CreateNewConnection(u, t)
        PROVE  Lease!Grant(u)
    <2>1. /\ u \notin issued /\ issued' = issued \cup {u} /\ now' = now
          /\ DOMAIN Connections' = DOMAIN Connections \cup {u}
          /\ Connections'[u].tokens = t
          /\ \A v \in DOMAIN Connections : v # u => Connections'[v] = Connections[v]
      BY <1>1 DEF CreateNewConnection, AddConnection
    <2>2. \A v \in Username : v # u => GetTokens(v)' = GetTokens(v)
      BY <2>1 DEF GetTokens, IsAlive
    <2>3. GetTokens(u)' \in TokenPair
      BY <2>1 DEF GetTokens
    <2>4. View[u] = Unused /\ View' = [View EXCEPT ![u] = GetTokens(u)']
      BY <2>1, <2>2 DEF View
    <2> QED BY <2>3, <2>4 DEF Lease!Grant, View
  <1>2. CASE Tick
    <2>1. UNCHANGED <<Connections, issued>> /\ now' = now + 1 /\ now \in Int
      BY <1>2 DEF Tick, IInv, TypeOK
    <2>2. PICK S \in SUBSET Username :
             S = {u \in issued : u \in DOMAIN Connections /\ Connections[u].expiresIn = now + 1}
      BY DEF IInv, TypeOK
    <2>3. ASSUME NEW u \in Username
          PROVE  GetTokens(u)' = IF u \in DOMAIN Connections /\ Connections[u].expiresIn = now + 1
                                 THEN NoTokens ELSE GetTokens(u)
      <3>1. u \in DOMAIN Connections => Connections[u].expiresIn \in Int
        BY DEF IInv, TypeOK, Connection
      <3> QED BY <2>1, <3>1 DEF GetTokens, IsAlive
    <2>4. View' = [u \in Username |-> IF u \in S THEN NoTokens ELSE View[u]]
      BY <2>1, <2>2, <2>3 DEF View
    <2>5. \A u \in S : View[u] # Unused
      BY <2>2, NothingUnused DEF View, IInv
    <2>6. Lease!Withdraw(S)
      BY <2>4, <2>5 DEF Lease!Withdraw, View
    <2> QED BY <2>6, Zenon DEF Lease!Next
  <1>3. ASSUME NEW u \in Username, DeleteNext(u)
        PROVE  View' = View
    <2>1. /\ DOMAIN Connections' = DOMAIN Connections \ {u}
          /\ \A v \in DOMAIN Connections' : Connections'[v] = Connections[v]
          /\ UNCHANGED <<now, issued>> /\ u \in cleaner.usernames
      BY <1>3 DEF DeleteNext, DeleteConnection
    <2>2. GetTokens(u) = NoTokens
      BY <2>1 DEF GetTokens, IInv, SweepOnlyExpired
    <2>3. \A v \in Username : GetTokens(v)' = GetTokens(v)
      BY <2>1, <2>2 DEF GetTokens, IsAlive
    <2> QED BY <2>1, <2>3 DEF View
  <1>4. CASE Restart
    <2>1. DOMAIN Connections' = {} /\ issued' = issued
      BY <1>4 DEF Restart
    <2>2. \A u \in Username : GetTokens(u)' = NoTokens
      BY <2>1 DEF GetTokens
    <2>3. PICK S \in SUBSET Username : S = issued
      BY DEF IInv, TypeOK
    <2>4. View' = [u \in Username |-> IF u \in S THEN NoTokens ELSE View[u]]
      BY <2>1, <2>2, <2>3 DEF View
    <2>5. \A u \in S : View[u] # Unused
      BY <2>3, NothingUnused DEF View, IInv
    <2>6. Lease!Withdraw(S)
      BY <2>4, <2>5 DEF Lease!Withdraw, View
    <2> QED BY <2>6, Zenon DEF Lease!Next
  <1>5. CASE TickerFires \/ StartSweep \/ ListExpired \/ EndSweep \/ UNCHANGED vars
    <2>1. UNCHANGED <<Connections, now, issued>>
      BY <1>5 DEF TickerFires, StartSweep, ListExpired, EndSweep, vars
    <2> QED BY <2>1 DEF View, GetTokens, IsAlive
  <1>6. (\E u \in Username, t \in TokenPair : CreateNewConnection(u, t)) => Lease!Next
    BY <1>1, Zenon DEF Lease!Next
  <1> QED BY <1>2, <1>3, <1>4, <1>5, <1>6, Zenon DEF Next, Cleaner

(* Every behaviour of the registry is one of the abstract lease.           *)
THEOREM ImplementsLease == Spec => LeaseSpec
  <1>1. Init => Lease!Init
    BY InitRefines
  <1>2. IInv /\ [Next]_vars => [Lease!Next]_View
    BY StepRefines
  <1> QED BY <1>1, <1>2, Invariance, PTL DEF Spec, LeaseSpec, Lease!Spec, View
=============================================================================
