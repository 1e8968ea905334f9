---------------------------- MODULE Service_proofs ----------------------------
(***************************************************************************)
(* The invariants of Service, for any names, tokens, databases, lists of   *)
(* credentials, connections and requests, any options and any number of    *)
(* restarts.                                                               *)
(***************************************************************************)
EXTENDS Service, Recursion

-----------------------------------------------------------------------------
(* What a list of the operator's options says.                             *)

Maps     == UNION {[D -> Credential] : D \in SUBSET Database}
Mappings == [ok : BOOLEAN, map : Maps]
Unread   == [ok |-> TRUE, map |-> <<>>]

(* The entries among the first n that name database d.                     *)
EntriesRead(list, d, n) == {i \in 1 .. n : list[i].kind = "pair" /\ list[i].database = d}

(* The first n entries of a list were read into m: each database of m is   *)
(* named by one of them, with its value, and no other is named.            *)
Read(list, n, m) ==
    m.ok => \A d : IF d \in DOMAIN m.map
                   THEN \E i \in 1 .. n : EntriesRead(list, d, n) = {i} /\ list[i].value = m.map[d]
                   ELSE EntriesRead(list, d, n) = {}

LEMMA UnreadType == Unread \in Mappings
  <1>1. <<>> \in [{} -> Credential] /\ {} \in SUBSET Database
    OBVIOUS
  <1> QED
    BY <1>1 DEF Unread, Mappings, Maps

LEMMA ParseEntryType ==
    ASSUME NEW m \in Mappings, NEW e \in Entry
    PROVE  ParseEntry(m, e) \in Mappings
  <1>1. PICK D \in SUBSET Database : m.map \in [D -> Credential]
    BY DEF Mappings, Maps
  <1>2. CASE ~ m.ok \/ e.kind = "empty"
    BY <1>2 DEF ParseEntry
  <1>3. CASE m.ok /\ e.kind = "bad"
    BY <1>3 DEF ParseEntry, Mappings
  <1>4. CASE m.ok /\ e.kind = "pair"
    <2>1. e.database \in Database /\ e.value \in Credential
      BY <1>4 DEF Entry
    <2> DEFINE f == [d \in {e.database} \cup DOMAIN m.map |->
                        IF d = e.database THEN e.value ELSE m.map[d]]
    <2>2. f \in [{e.database} \cup D -> Credential] /\ {e.database} \cup D \in SUBSET Database
      BY <1>1, <2>1
    <2>3. f \in Maps
      BY <2>2 DEF Maps
    <2>4. ParseEntry(m, e) = IF e.database \in DOMAIN m.map THEN [m EXCEPT !.ok = FALSE]
                             ELSE [m EXCEPT !.map = f]
      BY <1>4 DEF ParseEntry
    <2> HIDE DEF f
    <2> QED
      BY <2>3, <2>4 DEF Mappings
  <1> QED
    BY <1>2, <1>3, <1>4 DEF Entry

LEMMA ParseEntryNext ==
    ASSUME NEW list \in Seq(Entry), NEW n \in 1 .. Len(list), NEW m \in Mappings,
           Read(list, n - 1, m)
    PROVE  Read(list, n, ParseEntry(m, list[n]))
  <1> DEFINE e == list[n]
             r == ParseEntry(m, e)
  <1>1. e \in Entry /\ 1 .. n = (1 .. n - 1) \cup {n} /\ n \notin 1 .. n - 1
    OBVIOUS
  <1>2. \A d : EntriesRead(list, d, n) = EntriesRead(list, d, n - 1) \cup
                  (IF e.kind = "pair" /\ e.database = d THEN {n} ELSE {})
    BY <1>1 DEF EntriesRead
  <1>3. CASE ~ m.ok \/ e.kind = "bad"
    <2>1. ~ r.ok
      BY <1>3 DEF ParseEntry, Mappings
    <2> QED
      BY <2>1 DEF Read
  <1>4. CASE m.ok /\ e.kind = "empty"
    <2>1. r = m
      BY <1>4 DEF ParseEntry
    <2>2. \A d : EntriesRead(list, d, n) = EntriesRead(list, d, n - 1)
      BY <1>2, <1>4
    <2> QED
      BY <1>1, <2>1, <2>2 DEF Read
  <1>5. CASE m.ok /\ e.kind = "pair"
    <2>1. CASE e.database \in DOMAIN m.map
      <3>1. ~ r.ok
        BY <1>5, <2>1 DEF ParseEntry, Mappings
      <3> QED
        BY <3>1 DEF Read
    <2>2. CASE e.database \notin DOMAIN m.map
      <3>1. /\ DOMAIN r.map = {e.database} \cup DOMAIN m.map
            /\ \A d \in DOMAIN r.map : r.map[d] = IF d = e.database THEN e.value ELSE m.map[d]
        BY <1>5, <2>2 DEF ParseEntry, Mappings
      <3>2. ASSUME NEW d
            PROVE  IF d \in DOMAIN r.map
                   THEN \E i \in 1 .. n : EntriesRead(list, d, n) = {i} /\ list[i].value = r.map[d]
                   ELSE EntriesRead(list, d, n) = {}
        <4>1. CASE d = e.database
          <5>1. EntriesRead(list, d, n - 1) = {}
            BY <1>5, <2>2, <4>1 DEF Read
          <5>2. EntriesRead(list, d, n) = {n} /\ n \in 1 .. n
            BY <1>1, <1>2, <1>5, <4>1, <5>1
          <5> QED
            BY <3>1, <4>1, <5>2
        <4>2. CASE d # e.database
          <5>1. EntriesRead(list, d, n) = EntriesRead(list, d, n - 1)
            BY <1>2, <4>2
          <5>2. d \in DOMAIN r.map <=> d \in DOMAIN m.map
            BY <3>1, <4>2
          <5>3. d \in DOMAIN m.map => r.map[d] = m.map[d]
            BY <3>1, <4>2
          <5> QED
            BY <1>1, <1>5, <5>1, <5>2, <5>3 DEF Read
        <4> QED
          BY <4>1, <4>2
      <3> QED
        BY <3>2 DEF Read
    <2> QED
      BY <2>1, <2>2
  <1> QED
    BY <1>1, <1>3, <1>4, <1>5 DEF Entry, Mappings

(* Whatever the list, what is read of it to the end is what it says.       *)
LEMMA ParseMappingReads ==
    ASSUME NEW list \in Seq(Entry)
    PROVE  /\ ParseMapping(list) \in Mappings
           /\ Read(list, Len(list), ParseMapping(list))
  <1> DEFINE N == Len(list)
             Is(f) == f = [n \in 0 .. N |-> IF n = 0 THEN Unread ELSE ParseEntry(f[n - 1], list[n])]
             after == CHOOSE f : Is(f)
  <1>1. \E f : Is(f)
    <2> DEFINE step == [n \in 1 .. N |-> [m \in Mappings |-> ParseEntry(m, list[n])]]
    <2>1. step \in StepFunctions(N, Mappings) /\ N \in Nat
      BY ParseEntryType DEF StepFunctions
    <2>2. PICK f : f \in Runs(N, Mappings, Unread, step)
      <3> HIDE DEF step, N
      <3> QED
        BY <2>1, UnreadType, RunExists
    <2>3. ASSUME NEW n \in 1 .. N
          PROVE  f[n] = ParseEntry(f[n - 1], list[n])
      <3>1. n - 1 \in 0 .. N /\ f[n - 1] \in Mappings
        BY <2>2 DEF Runs
      <3> QED
        BY <2>2, <3>1 DEF Runs
    <2>4. Is(f)
      BY <2>2, <2>3 DEF Runs
    <2> QED
      BY <2>4
  <1>2. Is(after)
    BY <1>1
  <1>3. ParseMapping(list) = after[N]
    BY DEF ParseMapping, Unread
  <1> HIDE DEF after
  <1>4. N \in Nat /\ after[0] = Unread
    BY <1>2
  <1>5. ASSUME NEW n \in 0 .. N - 1
        PROVE  n + 1 \in 1 .. N /\ after[n + 1] = ParseEntry(after[n], list[n + 1])
    <2>1. n + 1 \in 1 .. N /\ (n + 1) - 1 = n
      OBVIOUS
    <2> QED
      BY <1>2, <2>1
  <1> DEFINE S == {n \in 0 .. N : after[n] \in Mappings /\ Read(list, n, after[n])}
  <1>6. 0 \in S
    <2>1. DOMAIN Unread.map = {}
      BY DEF Unread
    <2>2. Read(list, 0, Unread)
      BY <2>1 DEF Read, EntriesRead
    <2> QED
      BY <1>4, <2>2, UnreadType
  <1>7. ASSUME NEW n \in 0 .. N - 1, n \in S
        PROVE  n + 1 \in S
    <2>1. list[n + 1] \in Entry /\ (n + 1) - 1 = n /\ n + 1 \in 0 .. N
      BY <1>5
    <2>2. after[n + 1] \in Mappings
      BY <1>5, <1>7, <2>1, ParseEntryType
    <2>3. Read(list, n + 1, after[n + 1])
      BY <1>5, <1>7, <2>1, ParseEntryNext
    <2> QED
      BY <2>1, <2>2, <2>3
  <1>8. N \in S
    <2> HIDE DEF S, N
    <2>1. 0 .. N \subseteq S
      BY <1>4, <1>6, <1>7, IntervalInduction
    <2> QED
      BY <1>4, <2>1
  <1> QED
    BY <1>3, <1>8

(* The same in the words of CredentialsOfTheDatabase.                      *)
LEMMA MappingSays ==
    ASSUME NEW list \in Seq(Entry), ParseMapping(list).ok, NEW d
    PROVE  LET m == ParseMapping(list).map
           IN  /\ m \in Maps
               /\ d \in DOMAIN m => \E i \in Entries(list, d) :
                                        Entries(list, d) = {i} /\ list[i].value = m[d]
               /\ d \notin DOMAIN m => Entries(list, d) = {}
  <1>1. Entries(list, d) = EntriesRead(list, d, Len(list))
    BY DEF Entries, EntriesRead
  <1> QED
    BY <1>1, ParseMappingReads DEF Read, Mappings

(* The database's clients are those of the first list, with the secrets of *)
(* the second.                                                             *)
LEMMA ClientsSay ==
    ASSUME NEW o \in Options, Accepted(o), NEW d
    PROVE  LET f == DatabaseClients(o)
           IN  /\ DOMAIN f \subseteq Database /\ \A e \in DOMAIN f : f[e] \in Client
               /\ d \in DOMAIN f =>
                     /\ \E i \in Entries(o.ids, d) :
                           Entries(o.ids, d) = {i} /\ o.ids[i].value = f[d].id
                     /\ IF Entries(o.secrets, d) = {} THEN f[d].secret = NoSecret
                        ELSE \E i \in Entries(o.secrets, d) :
                                Entries(o.secrets, d) = {i} /\ o.secrets[i].value = f[d].secret
               /\ d \notin DOMAIN f => Entries(o.ids, d) = {}
  <1> DEFINE ids     == ParseMapping(o.ids).map
             secrets == ParseMapping(o.secrets).map
             f       == DatabaseClients(o)
  <1>1. /\ o.ids \in Seq(Entry) /\ ParseMapping(o.ids).ok
        /\ o.secrets \in Seq(Entry) /\ ParseMapping(o.secrets).ok
    BY OptionsAssumption DEF Accepted, MappingsFit
  <1>2. ids \in Maps /\ secrets \in Maps
    BY <1>1, MappingSays
  <1>3. f = [e \in DOMAIN ids |->
                [id |-> ids[e], secret |-> IF e \in DOMAIN secrets THEN secrets[e] ELSE NoSecret]]
    BY DEF DatabaseClients
  <1>4. DOMAIN f \subseteq Database /\ \A e \in DOMAIN f : f[e] \in Client
    BY <1>2, <1>3, NoSecretAssumption DEF Maps, Client
  <1>5. /\ d \in DOMAIN ids => \E i \in Entries(o.ids, d) :
                                  Entries(o.ids, d) = {i} /\ o.ids[i].value = ids[d]
        /\ d \notin DOMAIN ids => Entries(o.ids, d) = {}
    BY <1>1, MappingSays
  <1>6. /\ d \in DOMAIN secrets => \E i \in Entries(o.secrets, d) :
                                      Entries(o.secrets, d) = {i} /\ o.secrets[i].value = secrets[d]
        /\ d \notin DOMAIN secrets => Entries(o.secrets, d) = {}
    BY <1>1, MappingSays
  <1> HIDE DEF ids, secrets, f
  <1> QED
    BY SMTT(60), <1>3, <1>4, <1>5, <1>6 DEF f

-----------------------------------------------------------------------------
(* The inductive invariant.                                                *)

Codes    == {200, 400, 401, 404, 424, 500}
Statuses == {<<>>} \cup {<<code>> : code \in Codes}

Goroutine == [pc : Steps, name : Username \cup {None}, database : Database \cup {None},
              tokens : (TokenPair \ {NoTokens}) \cup {None}, client : Client \cup {None},
              status : Statuses]

(* What a goroutine's record says, given the registry, the clients and the *)
(* process: whoever holds tokens or a client holds those that were posted  *)
(* for its name, which was handed out, and the client of its database, in  *)
(* a living process; and an answer comes after everything else.            *)
Faithful(x) ==
    /\ x \in Goroutine
    /\ x.pc = "new" => x = Fresh
    /\ x.tokens # None \/ x.client # None =>
          /\ process = "up" /\ x.name \in Username /\ lease[x.name] # Unused
          /\ x.tokens = posted[x.name] /\ x.client = ClientFor(x.database)
    /\ x.pc \in {"queued", "started", "verify", "open"} => process = "up"
    /\ x.pc \in {"verify", "open"} => x.client # None
    /\ x.pc \in {"queued", "started", "verify"} => x.status = <<>>
    /\ x.status = <<200>> => x.client # None /\ HandlerMade /\ options.agent = "opa"

(* Inductive: a lookup answers with what was posted or with nothing, and a *)
(* name that was not handed out is in nobody's hands, so that handing it   *)
(* out changes what nobody holds.                                          *)
Answers == \A u \in Username : lease[u] \in {posted[u], NoTokens, Unused}

(* The clients are those of the options while the process is up, and a     *)
(* process that was not let up has none.                                   *)
Configured == IF process = "up" THEN Accepted(options) /\ clients = DatabaseClients(options)
              ELSE clients = <<>>

Shape == /\ options \in Options /\ process \in {"down", "up", "rejected"}
         /\ lives \in 0 .. MaxLives
         /\ Registry!TypeOK /\ DOMAIN posted = Username
         /\ DOMAIN conn = Conn /\ DOMAIN request = Request

IInv == /\ Shape /\ Answers /\ Configured
        /\ \A c \in Conn : Faithful(conn[c])
        /\ \A q \in Request : Faithful(request[q])

(* Of a state a record depends on nothing but these five.                  *)
LEMMA FaithfulStays ==
    ASSUME NEW x, Faithful(x), UNCHANGED <<options, process, clients, lease, posted>>
    PROVE  Faithful(x)'
BY DEF Faithful, ClientFor, HandlerMade, AgentMade, SQLHandlerMade

-----------------------------------------------------------------------------
(* Records a step may leave behind.                                        *)

LEMMA OverIsFaithful ==
    ASSUME NEW pc \in Steps \ {"new", "verify", "open"},
           pc \in {"queued", "started"} => process = "up"
    PROVE  Faithful(Over(pc))
  <1>1. Over(pc) \in Goroutine
    BY DEF Over, Goroutine, Statuses
  <1> QED
    BY <1>1 DEF Faithful, Over

LEMMA ClientIsAClient ==
    ASSUME IInv, process = "up", NEW d
    PROVE  ClientFor(d) \in Client \cup {None}
  <1>1. options \in Options /\ Accepted(options) /\ clients = DatabaseClients(options)
    BY DEF IInv, Shape, Configured
  <1> QED
    BY <1>1, ClientsSay, OptionsAssumption DEF ClientFor

LEMMA LookupsAnswer ==
    ASSUME IInv, NEW u \in Username, Found(u)
    PROVE  lease[u] = posted[u] /\ lease[u] \in TokenPair \ {NoTokens} /\ lease[u] # Unused
BY DEF IInv, Shape, Answers, Found, Registry!TypeOK

LEMMA VerifyingIsFaithful ==
    ASSUME IInv, NEW u \in Username, NEW d \in Database \cup {None}, Found(u),
           ClientFor(d) # None, process = "up"
    PROVE  Faithful(Verifying(u, d, ClientFor(d)))
  <1>1. Verifying(u, d, ClientFor(d)) \in Goroutine
    BY ClientIsAClient, LookupsAnswer DEF Verifying, Goroutine, Statuses, Steps
  <1> QED
    BY <1>1, LookupsAnswer DEF Faithful, Verifying

LEMMA ClientlessIsFaithful ==
    ASSUME IInv, NEW u \in Username, NEW d \in Database \cup {None}, Found(u),
           ClientFor(d) = None, process = "up"
    PROVE  Faithful(NoClient(u, d))
  <1>1. NoClient(u, d) \in Goroutine
    BY LookupsAnswer DEF NoClient, Goroutine, Statuses, Codes, Steps
  <1>2. NoClient(u, d).status # <<200>>
    BY DEF NoClient
  <1> QED
    BY <1>1, <1>2, LookupsAnswer DEF Faithful, NoClient

(* Of a record of which nothing but the step of its goroutine changes.     *)
LEMMA MovesOn ==
    ASSUME NEW x, Faithful(x), NEW pc \in Steps \ {"new"},
           pc \in {"queued", "started", "verify", "open"} => process = "up",
           pc \in {"verify", "open"} => x.client # None,
           pc \in {"queued", "started", "verify"} => x.status = <<>>
    PROVE  Faithful([x EXCEPT !.pc = pc])
  <1>1. [x EXCEPT !.pc = pc] \in Goroutine
    BY DEF Faithful, Goroutine
  <1> QED
    BY <1>1 DEF Faithful, Goroutine

LEMMA AnswerIsFaithful ==
    ASSUME NEW x, Faithful(x), x.pc \in {"started", "verify"}, NEW code \in Codes,
           code = 200 => x.client # None /\ HandlerMade /\ options.agent = "opa"
    PROVE  Faithful([x EXCEPT !.pc = "done", !.status = Append(@, code)])
  <1> DEFINE r == [x EXCEPT !.pc = "done", !.status = <<code>>]
  <1>1. x \in Goroutine /\ x.status = <<>>
    BY DEF Faithful
  <1>2. [x EXCEPT !.pc = "done", !.status = Append(@, code)] = r
    BY <1>1
  <1>3. r \in Goroutine
    BY ZenonT(60), <1>1 DEF Goroutine, Steps, Statuses
  <1>4. /\ r.pc = "done" /\ r.status = <<code>> /\ r.client = x.client /\ r.tokens = x.tokens
        /\ r.name = x.name /\ r.database = x.database
    BY <1>1 DEF Goroutine
  <1>5. r.status = <<200>> => code = 200
    BY <1>4
  <1> HIDE DEF r
  <1>6. Faithful(r)
    BY <1>3, <1>4, <1>5 DEF Faithful
  <1> QED
    BY <1>2, <1>6

(* One record changes; nothing that others are judged by does.             *)
LEMMA ConnChanges ==
    ASSUME IInv, NEW c \in Conn, NEW x, Faithful(x), SetConn(c, x)
    PROVE  IInv'
  <1>1. UNCHANGED <<options, process, clients, lease, posted>>
    BY DEF SetConn
  <1>2. \A y : Faithful(y) => Faithful(y)'
    BY <1>1, FaithfulStays
  <1>3. /\ DOMAIN conn' = Conn /\ \A o \in Conn : conn'[o] = x \/ conn'[o] = conn[o]
        /\ request' = request /\ lives' = lives
    BY DEF IInv, Shape, SetConn
  <1>4. Shape' /\ Answers' /\ Configured'
    BY <1>1, <1>3 DEF IInv, Shape, Answers, Configured, Registry!TypeOK
  <1> QED
    BY <1>2, <1>3, <1>4 DEF IInv

LEMMA RequestChanges ==
    ASSUME IInv, NEW q \in Request, NEW x, Faithful(x), SetRequest(q, x)
    PROVE  IInv'
  <1>1. UNCHANGED <<options, process, clients, lease, posted>>
    BY DEF SetRequest
  <1>2. \A y : Faithful(y) => Faithful(y)'
    BY <1>1, FaithfulStays
  <1>3. /\ DOMAIN request' = Request /\ \A o \in Request : request'[o] = x \/ request'[o] = request[o]
        /\ conn' = conn /\ lives' = lives
    BY DEF IInv, Shape, SetRequest
  <1>4. Shape' /\ Answers' /\ Configured'
    BY <1>1, <1>3 DEF IInv, Shape, Answers, Configured, Registry!TypeOK
  <1> QED
    BY <1>2, <1>3, <1>4 DEF IInv

-----------------------------------------------------------------------------
LEMMA Initially == ASSUME Init PROVE IInv
  <1>1. Fresh \in Goroutine
    BY DEF Fresh, Over, Goroutine, Steps, Statuses
  <1>2. Faithful(Fresh)
    BY <1>1 DEF Faithful, Fresh, Over
  <1>3. Shape
    BY OptionsAssumption DEF Init, Shape, Registry!Init, Registry!TypeOK
  <1>4. Answers /\ Configured
    BY DEF Init, Answers, Configured, Registry!Init
  <1> QED
    BY <1>2, <1>3, <1>4 DEF IInv, Init

(* A panic closes what was begun and withdraws what was handed out.        *)
LEMMA DeathKeeps == ASSUME IInv, Dies PROVE IInv'
  <1>1. ASSUME NEW x, Faithful(x)
        PROVE  Faithful(Close(x))'
    <2>1. Over("closed") \in Goroutine /\ Fresh \in Goroutine
      BY DEF Over, Fresh, Goroutine, Steps, Handled, Statuses
    <2>2. ASSUME NEW y \in {Over("closed"), Fresh} PROVE Faithful(y)'
      <3>1. /\ y \in Goroutine /\ y.tokens = None /\ y.client = None /\ y.status = <<>>
            /\ y.pc \in {"closed", "new"} /\ (y.pc = "new" => y = Fresh)
        BY <2>1 DEF Over, Fresh
      <3>2. <<>> # <<200>>
        OBVIOUS
      <3> QED
        BY <3>1, <3>2 DEF Faithful
    <2>3. Close(x) = Over("closed") \/ Close(x) = Fresh
      BY <1>1 DEF Close, Faithful
    <2> QED
      BY <2>2, <2>3
  <1>2. Answers' /\ Registry!TypeOK'
    BY TokensAssumption DEF IInv, Shape, Answers, Dies, Registry!Withdraw, Registry!TypeOK
  <1>3. Shape'
    BY <1>2 DEF IInv, Shape, Dies
  <1>4. Configured'
    BY DEF Configured, Dies
  <1> QED
    BY <1>1, <1>2, <1>3, <1>4 DEF IInv, Dies

LEMMA StartKeeps == ASSUME IInv, Start PROVE IInv'
  <1>1. process = "down" /\ clients = <<>> /\ UNCHANGED <<options, lease, posted, conn, request>>
    BY DEF Start, IInv, Configured
  <1>2. \A x : Faithful(x) => Faithful(x)'
    BY <1>1 DEF Faithful, HandlerMade, AgentMade, SQLHandlerMade
  <1>3. lives' \in 0 .. MaxLives
    BY OptionsAssumption DEF Start, IInv, Shape
  <1>4. Shape' /\ Answers'
    BY <1>1, <1>3 DEF IInv, Shape, Answers, Start, Registry!TypeOK
  <1>5. Configured'
    BY <1>1 DEF Start, Configured
  <1> QED
    BY <1>1, <1>2, <1>4, <1>5 DEF IInv

(* A name is handed out, or withdrawn: whoever holds a name's tokens holds *)
(* a name that was handed out before.                                      *)
LEMMA RegistryKeeps ==
    ASSUME IInv, NEW u \in Username, PostConnection(u) \/ Expire(u)
    PROVE  IInv'
  <1>1. /\ UNCHANGED <<options, process, lives, clients, conn, request>>
        /\ DOMAIN posted' = Username
    BY DEF IInv, Shape, PostConnection, Expire
  <1>2. /\ Answers' /\ Registry!TypeOK'
        /\ \A v \in Username : lease[v] # Unused =>
              lease'[v] # Unused /\ posted'[v] = posted[v]
    <2>1. CASE PostConnection(u)
      BY <2>1, TokensAssumption
      DEF IInv, Shape, Answers, PostConnection, Registry!Grant, Registry!TypeOK
    <2>2. CASE Expire(u)
      BY <2>2, TokensAssumption
      DEF IInv, Shape, Answers, Expire, Registry!Withdraw, Registry!TypeOK
    <2> QED
      BY <2>1, <2>2
  <1>3. \A x : Faithful(x) => Faithful(x)'
    BY <1>1, <1>2 DEF Faithful, ClientFor, HandlerMade, AgentMade, SQLHandlerMade
  <1>4. Shape' /\ Configured'
    BY <1>1, <1>2 DEF IInv, Shape, Configured
  <1> QED
    BY <1>1, <1>2, <1>3, <1>4 DEF IInv

LEMMA ConnectionKeeps ==
    ASSUME IInv, NEW c \in Conn,
           Connect(c) \/ Accept(c) \/ Verify(c) \/ Leave(c) \/ LooksUp(c)
    PROVE  IInv'
  <1> DEFINE Moved(pc) == [conn[c] EXCEPT !.pc = pc]
  <1> USE DEF Steps, Handled
  <1>1. Faithful(conn[c])
    BY DEF IInv
  <1>2. CASE Connect(c)
    BY <1>2, OverIsFaithful, ConnChanges DEF Connect
  <1>3. CASE Accept(c)
    <2>1. process = "up" /\ conn[c].status = <<>>
      BY <1>1, <1>3 DEF Accept, Faithful
    <2>2. Faithful(Moved("started")) /\ Faithful(Over("lost"))
      BY <1>1, <2>1, MovesOn, OverIsFaithful
    <2> QED
      BY <1>3, <2>2, ConnChanges DEF Accept
  <1>4. CASE Verify(c)
    <2>1. process = "up" /\ conn[c].client # None
      BY <1>1, <1>4 DEF Verify, Faithful
    <2>2. Faithful(Moved("open")) /\ Faithful(Over("refused"))
      BY <1>1, <2>1, MovesOn, OverIsFaithful
    <2> QED
      BY <1>4, <2>2, ConnChanges DEF Verify
  <1>5. CASE Leave(c)
    BY <1>5, OverIsFaithful, ConnChanges DEF Leave
  <1>6. CASE LooksUp(c)
    <2>1. PICK u \in Username, d \in Database : LookUp(c, u, d) \/ NotLookedUp(c, u, d)
      BY <1>6 DEF LooksUp
    <2>2. CASE LookUp(c, u, d)
      <3>1. process = "up"
        BY <1>1, <2>2 DEF LookUp, Faithful
      <3>2. Faithful(Verifying(u, d, ClientFor(d)))
        BY <2>2, <3>1, VerifyingIsFaithful DEF LookUp
      <3> QED
        BY <2>2, <3>2, ConnChanges DEF LookUp
    <2>3. CASE NotLookedUp(c, u, d)
      BY <2>3, OverIsFaithful, ConnChanges DEF NotLookedUp
    <2> QED
      BY <2>1, <2>2, <2>3
  <1> QED
    BY <1>2, <1>3, <1>4, <1>5, <1>6

(* The endpoint chooses a client the way a session does.                   *)
LEMMA SameChoice == ASSUME NEW d PROVE ChooseClient(d) = ClientFor(d)
BY DEF ChooseClient, ClientFor

LEMMA RequestKeeps ==
    ASSUME IInv, NEW q \in Request,
           Ask(q) \/ Consults(q) \/ NotVerified(q) \/ Apply(q)
    PROVE  IInv'
  <1>1. Faithful(request[q])
    BY DEF IInv
  <1>2. ASSUME NEW code \in Codes, Answer(q, code), request[q].pc \in {"started", "verify"},
               code = 200 => request[q].client # None /\ HandlerMade /\ options.agent = "opa"
        PROVE  IInv'
    <2>1. Faithful([request[q] EXCEPT !.pc = "done", !.status = Append(@, code)])
      BY <1>1, <1>2, AnswerIsFaithful
    <2> QED
      BY <1>2, <2>1, RequestChanges DEF Answer
  <1>3. CASE Ask(q)
    BY <1>3, OverIsFaithful, RequestChanges DEF Ask, Steps
  <1>4. CASE Unanswerable(q) \/ NotVerified(q)
    BY <1>2, <1>4 DEF Unanswerable, NotVerified, Codes
  <1>5. CASE Apply(q)
    <2>1. request[q].client # None
      BY <1>1, <1>5 DEF Apply, Faithful
    <2>2. AgentMade /\ SQLHandlerMade => HandlerMade /\ options.agent = "opa"
      BY DEF AgentMade, SQLHandlerMade, HandlerMade
    <2> QED
      BY <1>2, <1>5, <2>1, <2>2 DEF Apply, Codes
  <1>6. CASE \E u \in Username, d \in Database \cup {None} : Consult(q, u, d)
    <2>1. PICK u \in Username, d \in Database \cup {None} : Consult(q, u, d)
      BY <1>6
    <2>2. process = "up" /\ Found(u)
      BY <1>1, <2>1 DEF Consult, Faithful
    <2>3. SetRequest(q, IF ClientFor(d) # None THEN Verifying(u, d, ClientFor(d))
                        ELSE NoClient(u, d))
      BY <2>1, SameChoice DEF Consult
    <2>4. CASE ClientFor(d) # None
      BY <2>2, <2>3, <2>4, VerifyingIsFaithful, RequestChanges
    <2>5. CASE ClientFor(d) = None
      BY <2>2, <2>3, <2>5, ClientlessIsFaithful, RequestChanges
    <2> QED
      BY <2>4, <2>5
  <1> QED
    BY <1>3, <1>4, <1>5, <1>6 DEF Consults

LEMMA Inductive == ASSUME IInv, [Next]_vars PROVE IInv'
  <1>1. CASE UNCHANGED vars
    <2>1. \A x : Faithful(x) => Faithful(x)'
      BY <1>1, FaithfulStays DEF vars
    <2>2. Shape' /\ Answers' /\ Configured'
      BY <1>1 DEF vars, IInv, Shape, Answers, Configured, Registry!TypeOK
    <2> QED
      BY <1>1, <2>1, <2>2 DEF vars, IInv
  <1>2. CASE CleanerPanics \/ CannotListen \/ SessionPanics
    BY <1>2, DeathKeeps DEF CleanerPanics, CannotListen, SessionPanics
  <1>3. CASE Next
    BY <1>2, <1>3, StartKeeps, RegistryKeeps, ConnectionKeeps, RequestKeeps DEF Next
  <1> QED
    BY <1>1, <1>3

THEOREM Invariance == Spec => []IInv
  BY Initially, Inductive, PTL DEF Spec

-----------------------------------------------------------------------------
(* TypeOK.                                                                 *)
THEOREM TypeCorrect == Spec => []TypeOK
  <1>1. ASSUME IInv PROVE TypeOK
    <2>1. DOMAIN clients \subseteq Database /\ \A d \in DOMAIN clients : clients[d] \in Client
      <3>1. CASE process = "up"
        <4>1. options \in Options /\ Accepted(options) /\ clients = DatabaseClients(options)
          BY <1>1, <3>1 DEF IInv, Shape, Configured
        <4> QED
          BY <4>1, ClientsSay
      <3>2. CASE process # "up"
        <4>1. clients = <<>> /\ DOMAIN <<>> = {}
          BY <1>1, <3>2 DEF IInv, Configured
        <4> QED
          BY <4>1
      <3> QED
        BY <3>1, <3>2
    <2> QED
      BY <1>1, <2>1 DEF IInv, Shape, Faithful, Goroutine, TypeOK
  <1> QED
    BY Invariance, <1>1, PTL

(* OwnIdentity: while names are posted and expire, connections come and go *)
(* beside one another, and the process dies and starts again, whoever is   *)
(* served by tokens is served by those posted for the name it gave (state  *)
(* .go 34-45, postgres.go 289-330, routes.go 81-96).                       *)
THEOREM NobodyIsMistaken == Spec => []OwnIdentity
  <1>1. IInv => OwnIdentity
    BY DEF IInv, Faithful, OwnIdentity, Goroutines
  <1> QED
    BY Invariance, <1>1, PTL

(* CredentialsOfTheDatabase: for lists of any length, in any order, with   *)
(* anything between the commas, whoever talks to the provider does so with *)
(* the one ID and the one secret that the lists give for its database      *)
(* (config.go 85-125, postgres.go 317-330, routes.go 89-96).               *)
THEOREM CredentialsAreTheDatabases == Spec => []CredentialsOfTheDatabase
  <1>1. ASSUME IInv PROVE CredentialsOfTheDatabase
    <2>1. SUFFICES ASSUME NEW x \in Goroutines, x.client # None
                   PROVE  LET d       == x.database
                              ids     == Entries(options.ids, d)
                              secrets == Entries(options.secrets, d)
                          IN  \/ /\ \E i \in ids : ids = {i} /\ options.ids[i].value = x.client.id
                                 /\ IF secrets = {} THEN x.client.secret = NoSecret
                                    ELSE \E i \in secrets :
                                            /\ secrets = {i}
                                            /\ options.secrets[i].value = x.client.secret
                              \/ ids = {} /\ options.fallback /\ x.client = Base
      BY DEF CredentialsOfTheDatabase
    <2>2. process = "up" /\ x.client = ClientFor(x.database)
      BY <1>1, <2>1 DEF IInv, Goroutines, Faithful
    <2>3. options \in Options /\ Accepted(options) /\ clients = DatabaseClients(options)
      BY <1>1, <2>2 DEF IInv, Shape, Configured
    <2>4. CASE x.database \in DOMAIN clients
      <3> DEFINE d       == x.database
                 ids     == Entries(options.ids, d)
                 secrets == Entries(options.secrets, d)
      <3>1. x.client = clients[d]
        BY <2>2, <2>4 DEF ClientFor
      <3>2. /\ \E i \in ids : ids = {i} /\ options.ids[i].value = clients[d].id
            /\ IF secrets = {} THEN clients[d].secret = NoSecret
               ELSE \E i \in secrets : secrets = {i} /\ options.secrets[i].value = clients[d].secret
        BY <2>3, <2>4, ClientsSay
      <3> HIDE DEF ids, secrets
      <3>3. /\ \E i \in ids : ids = {i} /\ options.ids[i].value = x.client.id
            /\ IF secrets = {} THEN x.client.secret = NoSecret
               ELSE \E i \in secrets : secrets = {i} /\ options.secrets[i].value = x.client.secret
        BY <3>1, <3>2
      <3> QED
        BY <3>3 DEF ids, secrets
    <2>5. CASE x.database \notin DOMAIN clients
      <3>1. Entries(options.ids, x.database) = {}
        BY <2>3, <2>5, ClientsSay
      <3>2. options.fallback /\ x.client = Base
        BY <2>1, <2>2, <2>5 DEF ClientFor
      <3> QED
        BY <3>1, <3>2
    <2> QED
      BY <2>4, <2>5
  <1> QED
    BY Invariance, <1>1, PTL

(* RequestAgreesWithSession: both look up one registry and one table of    *)
(* clients, and neither lets go of what it found (README 143).             *)
THEOREM RequestsSpeakForSessions == Spec => []RequestAgreesWithSession
  <1>1. IInv => RequestAgreesWithSession
    BY DEF IInv, Faithful, RequestAgreesWithSession
  <1> QED
    BY Invariance, <1>1, PTL

(* OneAnswer: whatever fails along the way, one status is written, and it  *)
(* is 200 only at the end of it (routes.go 46-150).                        *)
THEOREM RequestsAreAnsweredOnce == Spec => []OneAnswer
  <1>1. ASSUME IInv PROVE OneAnswer
    <2>1. ASSUME NEW s \in Statuses PROVE Len(s) <= 1
      <3>1. CASE s = <<>>
        BY <3>1
      <3>2. CASE \E code \in Codes : s = <<code>>
        BY <3>2
      <3> QED
        BY <3>1, <3>2 DEF Statuses
    <2> QED
      BY <1>1, <2>1 DEF IInv, Faithful, Goroutine, OneAnswer
  <1> QED
    BY Invariance, <1>1, PTL
=============================================================================
