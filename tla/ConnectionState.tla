--------------------------- MODULE ConnectionState ---------------------------
(***************************************************************************)
(* The registry of generated usernames (internal/state.go), the API        *)
(* handler that fills it (POST /connection, api/routes.go), the lookup     *)
(* every database session does when it authenticates, and the cleaner      *)
(* goroutine that sweeps it (api/server.go).                               *)
(*                                                                         *)
(* Each method of State holds the mutex for its whole body, so it is one   *)
(* step here.  The cleaner is not atomic: it copies the expired names and  *)
(* then deletes them one by one, BY NAME, releasing the lock in between.   *)
(***************************************************************************)
EXTENDS Integers

CONSTANTS Username,   \* the names uuid.New can generate
          TokenPair,  \* what a client can post: (access token, refresh token)
          NoTokens,   \* ("", ""): an empty body posts it, a failed lookup returns it
          Unused,     \* stands in the refinement mapping for a name not handed out
          Lifetime,   \* conf.ApiUsernameLifetime, in seconds; zero is legal
          MaxTime     \* bound: the clock of the model stops here

ASSUME TokenAssumption == NoTokens \in TokenPair /\ Unused \notin TokenPair
ASSUME TimeAssumption  == Lifetime \in Int /\ MaxTime \in Nat

VARIABLES
    Connections,  \* State.Connections: a partial function from Username
    now,          \* time.Now().Unix()
    issued,       \* every name uuid.New ever returned
    posted,       \* history of this process: who posted what, and when
    tick,         \* time.Ticker's channel, of capacity one
    cleaner       \* the cleaner goroutine: where it is, and its snapshot

vars == <<Connections, now, issued, posted, tick, cleaner>>

Connection == [tokens : TokenPair, expiresIn : Int]
Posting    == [tokens : TokenPair, at : 0 .. MaxTime]
Waiting    == [pc |-> "waiting", usernames |-> {}]

TypeOK == /\ Connections \in [DOMAIN Connections -> Connection]
          /\ DOMAIN Connections \subseteq Username
          /\ now \in 0 .. MaxTime
          /\ issued \subseteq Username
          /\ posted \in [DOMAIN posted -> Posting]
          /\ DOMAIN posted \subseteq Username
          /\ tick \in BOOLEAN
          /\ cleaner \in [pc : {"waiting", "listing", "deleting"}, usernames : SUBSET Username]

Init == /\ Connections = [u \in {} |-> NoTokens]
        /\ posted = [u \in {} |-> NoTokens]
        /\ now = 0
        /\ issued = {}
        /\ tick = FALSE
        /\ cleaner = Waiting

-----------------------------------------------------------------------------
(* The methods of State.                                                   *)

(* Mutant: the last second counted as alive.                                *)
IsAlive_Inclusive(c) == now <= c.expiresIn

IsAlive(c) == now < c.expiresIn

GetTokens(u) ==
    IF u \in DOMAIN Connections /\ IsAlive(Connections[u])
    THEN Connections[u].tokens
    ELSE NoTokens

AddConnection(u, t) ==
    Connections' = [v \in DOMAIN Connections \cup {u} |->
                      IF v = u THEN [tokens |-> t, expiresIn |-> now + Lifetime]
                               ELSE Connections[v]]

(* Mutant: the entries are collected instead of their names.               *)
ExpiredUsernames_Entries ==
    {Connections[u] : u \in {v \in DOMAIN Connections : ~ IsAlive(Connections[v])}}

ExpiredUsernames == {u \in DOMAIN Connections : ~ IsAlive(Connections[u])}

DeleteConnection(u) ==
    Connections' = [v \in DOMAIN Connections \ {u} |-> Connections[v]]

-----------------------------------------------------------------------------
(* Mutant: a name that may have been handed out before.                    *)
CreateNewConnection_Reused(u, t) ==
    /\ issued' = issued \cup {u}
    /\ AddConnection(u, t)
    /\ posted' = [v \in DOMAIN posted \cup {u} |->
                    IF v = u THEN [tokens |-> t, at |-> now] ELSE posted[v]]
    /\ UNCHANGED <<now, tick, cleaner>>

(* POST /connection: a fresh name, the posted tokens stored under it.  The *)
(* handler does not look at the tokens, so any pair may be stored.         *)
CreateNewConnection(u, t) ==
    /\ u \notin issued
    /\ issued' = issued \cup {u}
    /\ AddConnection(u, t)
    /\ posted' = [v \in DOMAIN posted \cup {u} |->
                    IF v = u THEN [tokens |-> t, at |-> now] ELSE posted[v]]
    /\ UNCHANGED <<now, tick, cleaner>>

(* A second passes on the wall clock.                                      *)
Tick == /\ now < MaxTime
        /\ now' = now + 1
        /\ UNCHANGED <<Connections, issued, posted, tick, cleaner>>

(* The ticker fires.  Its channel holds one value and a further one is     *)
(* dropped, so a slow sweep is followed by at most one pending one.        *)
TickerFires == /\ ~ tick
               /\ tick' = TRUE
               /\ UNCHANGED <<Connections, now, issued, posted, cleaner>>

(* <-t.C                                                                   *)
StartSweep == /\ cleaner.pc = "waiting"
              /\ tick
              /\ tick' = FALSE
              /\ cleaner' = [pc |-> "listing", usernames |-> {}]
              /\ UNCHANGED <<Connections, now, issued, posted>>

(* Mutant: every name is listed, as if all had expired.                    *)
ListExpired_All == /\ cleaner.pc = "listing"
                   /\ cleaner' = [pc |-> "deleting", usernames |-> DOMAIN Connections]
                   /\ UNCHANGED <<Connections, now, issued, posted, tick>>

(* usernames := GetExpiredUsernames()                                      *)
ListExpired == /\ cleaner.pc = "listing"
               /\ cleaner' = [pc |-> "deleting", usernames |-> ExpiredUsernames]
               /\ UNCHANGED <<Connections, now, issued, posted, tick>>

(* One turn of the loop over the snapshot.  The order of a Go map's keys   *)
(* is arbitrary, so is the order of the deletions.                         *)
DeleteNext(u) == /\ cleaner.pc = "deleting"
                 /\ u \in cleaner.usernames
                 /\ DeleteConnection(u)
                 /\ cleaner' = [cleaner EXCEPT !.usernames = @ \ {u}]
                 /\ UNCHANGED <<now, issued, posted, tick>>

(* Mutant: the goroutine returns after its first sweep.                    *)
EndSweep_Returns == /\ cleaner.pc = "deleting"
                    /\ cleaner.usernames = {}
                    /\ cleaner' = [cleaner EXCEPT !.pc = "returned"]
                    /\ UNCHANGED <<Connections, now, issued, posted, tick>>

EndSweep == /\ cleaner.pc = "deleting"
            /\ cleaner.usernames = {}
            /\ cleaner' = Waiting
            /\ UNCHANGED <<Connections, now, issued, posted, tick>>

(* The process stops and is started again: the registry only ever lived in *)
(* memory.                                                                 *)
Restart == /\ Connections' = [u \in {} |-> NoTokens]
           /\ posted' = [u \in {} |-> NoTokens]
           /\ tick' = FALSE
           /\ cleaner' = Waiting
           /\ UNCHANGED <<now, issued>>

Cleaner == StartSweep \/ ListExpired \/ (\E u \in Username : DeleteNext(u)) \/ EndSweep

Next == \/ \E u \in Username, t \in TokenPair : CreateNewConnection(u, t)
        \/ Tick
        \/ TickerFires
        \/ Cleaner
        \/ Restart

(* The clock advances, the ticker ticks and the cleaner goroutine, which   *)
(* blocks on nothing but the ticker and a mutex nobody keeps, is scheduled.*)
Fairness == WF_vars(Tick) /\ WF_vars(TickerFires) /\ WF_vars(Cleaner)

Spec     == Init /\ [][Next]_vars
FairSpec == Spec /\ Fairness

-----------------------------------------------------------------------------
(* Within one life of the process a posted name resolves to exactly the    *)
(* tokens posted for it, from the POST until its lifetime is over and not  *)
(* a second longer, whatever the sweep that runs beside the API is doing.  *)
(* The hazard is the sweep: it decides from a snapshot and deletes later,  *)
(* by name, without looking again (api/server.go 19-23).                   *)
AvailableForItsLifetime ==
    \A u \in Username :
        GetTokens(u) = IF u \in DOMAIN posted /\ now < posted[u].at + Lifetime
                       THEN posted[u].tokens
                       ELSE NoTokens

(* What makes the sweep harmless: a name of its snapshot is still expired, *)
(* if it is there at all, when its turn to be deleted comes.               *)
SweepOnlyExpired ==
    \A u \in cleaner.usernames : u \in DOMAIN Connections => ~ IsAlive(Connections[u])

(* The registry implements the abstract lease: a lookup's answer for u is  *)
(* the lease of u (state.go 34-45).                                        *)
Lease == INSTANCE LeaseRegistry
           WITH lease <- [u \in Username |-> IF u \in issued THEN GetTokens(u) ELSE Unused]
LeaseSpec == Lease!Spec

(* No entry outlives its expiry for ever: the sweep reaches each of them,  *)
(* however many are posted meanwhile.  Entries that expire after the bound *)
(* of the model's clock are not asked for.                                 *)
EventuallyForgotten ==
    \A u \in Username :
        (u \in DOMAIN Connections /\ Connections[u].expiresIn <= MaxTime)
            ~> u \notin DOMAIN Connections
=============================================================================
