-------------------------- MODULE SQLHandler_proofs --------------------------
(***************************************************************************)
(* What a walk of the SQL handler decides, for statements of any length    *)
(* over any tables, and what a session of any number of statements then    *)
(* lets through while policies change and the agent comes and goes.        *)
(***************************************************************************)
EXTENDS SQLHandler, Recursion

(* The state of a walk between two of its steps.                           *)
Walks == {w \in [with : SUBSET Name, asked : SUBSET Name, filtered : SUBSET Name, failed : BOOLEAN] :
            w.filtered \subseteq w.asked}

LEMMA PlainNames ==
    ASSUME NEW s \in Seq(Node), NEW i \in DOMAIN s, s[i].op = "select"
    PROVE  s[i].from \in Seq(FromItem) /\ Plain(s[i]) \subseteq Name
  <1>1. s[i] \in Node
    OBVIOUS
  <1>2. s[i].from \in Seq(FromItem)
    BY <1>1 DEF Node, Operations
  <1>3. \A item \in ToSet(s[i].from) : item.kind = "table" => item.name \in Name
    BY <1>2 DEF ToSet, FromItem
  <1> QED
    BY <1>2, <1>3 DEF Plain

LEMMA TablesAreNames == ASSUME NEW s \in Seq(Node) PROVE TablesOf(s) \subseteq Name
  BY PlainNames DEF TablesOf

-----------------------------------------------------------------------------
(* The tables of one FROM.                                                 *)

(* The tables among the first n items that are asked about.                *)
AskedOf(w, from, n) == {from[i].name : i \in {k \in 1 .. n : from[k].kind = "table"}} \ w.with

(* A walk from w over the first n items ended at r.                        *)
Asked(down, w, from, n, r) ==
    LET T == AskedOf(w, from, n) IN
    /\ r.with = w.with
    /\ r.failed <=> w.failed \/ \E t \in T : Refused(down, t)
    /\ ~ r.failed => r.asked = w.asked \cup T /\ r.filtered = w.filtered \cup Filtered(T)

LEMMA AskAboutType ==
    ASSUME NEW down \in SUBSET Name, NEW w \in Walks, NEW item \in FromItem
    PROVE  AskAbout(down, w, item) \in Walks
  <1>1. CASE item.kind # "table"
    BY <1>1 DEF AskAbout
  <1>2. CASE item.kind = "table"
    <2>1. item.name \in Name
      BY <1>2 DEF FromItem
    <2>2. Refused(down, item.name) \in BOOLEAN /\ Filtered({item.name} \ down) \subseteq {item.name}
      BY DEF Refused, Filtered
    <2> QED
      BY <2>1, <2>2 DEF AskAbout, Walks
  <1> QED
    BY <1>1, <1>2

LEMMA AskAboutNext ==
    ASSUME NEW down \in SUBSET Name, NEW w \in Walks, NEW from \in Seq(FromItem),
           NEW n \in 1 .. Len(from), NEW x \in Walks, Asked(down, w, from, n - 1, x)
    PROVE  Asked(down, w, from, n, AskAbout(down, x, from[n]))
  <1> DEFINE t == from[n].name
             r == AskAbout(down, x, from[n])
             T == AskedOf(w, from, n - 1)
  <1>1. AskedOf(w, from, n) = T \cup (IF from[n].kind = "table" THEN {t} \ w.with ELSE {})
    <2>1. 1 .. n = (1 .. n - 1) \cup {n}
      OBVIOUS
    <2> QED
      BY <2>1 DEF AskedOf
  <1>2. CASE x.failed \/ from[n].kind # "table" \/ t \in x.with
    <2>1. r = x
      BY <1>2 DEF AskAbout
    <2> QED
      BY <1>1, <1>2, <2>1 DEF Asked
  <1>3. CASE ~ x.failed /\ from[n].kind = "table" /\ t \notin x.with
    <2>1. /\ r.with = x.with
          /\ r.failed <=> Refused(down, t)
          /\ r.asked = x.asked \cup {t}
          /\ ~ r.failed => r.filtered = x.filtered \cup Filtered({t})
      <3>1. Refused(down, t) \in BOOLEAN /\ (~ Refused(down, t) => {t} \ down = {t})
        BY DEF Refused
      <3> QED
        BY <1>3, <3>1 DEF AskAbout, Walks
    <2>2. AskedOf(w, from, n) = T \cup {t}
      BY <1>1, <1>3 DEF Asked
    <2> QED
      BY <1>3, <2>1, <2>2 DEF Asked, Filtered
  <1> QED
    BY <1>2, <1>3

LEMMA AskAboutAllDecides ==
    ASSUME NEW down \in SUBSET Name, NEW w \in Walks, NEW from \in Seq(FromItem)
    PROVE  LET r == AskAboutAll(down, w, from)
           IN  r \in Walks /\ Asked(down, w, from, Len(from), r)
  <1> DEFINE N == Len(from)
             Is(f) == f = [i \in 0 .. N |-> IF i = 0 THEN w ELSE AskAbout(down, f[i - 1], from[i])]
             after == CHOOSE f : Is(f)
  <1>1. \E f : Is(f)
    <2> DEFINE step == [i \in 1 .. N |-> [x \in Walks |-> AskAbout(down, x, from[i])]]
    <2>1. step \in StepFunctions(N, Walks) /\ N \in Nat
      BY AskAboutType DEF StepFunctions
    <2>2. PICK f : f \in Runs(N, Walks, w, step)
      <3> HIDE DEF step, N
      <3> QED
        BY <2>1, RunExists
    <2>3. ASSUME NEW i \in 1 .. N
          PROVE  f[i] = AskAbout(down, f[i - 1], from[i])
      <3>1. i - 1 \in 0 .. N /\ f[i - 1] \in Walks
        BY <2>2 DEF Runs
      <3> QED
        BY <2>2, <3>1 DEF Runs
    <2>4. Is(f)
      BY <2>2, <2>3 DEF Runs
    <2> QED
      BY <2>4
  <1>2. Is(after)
    BY <1>1
  <1>3. AskAboutAll(down, w, from) = after[N]
    BY DEF AskAboutAll
  <1> HIDE DEF after
  <1>4. N \in Nat /\ after[0] = w
    BY <1>2
  <1>5. ASSUME NEW i \in 0 .. N - 1
        PROVE  i + 1 \in 1 .. N /\ after[i + 1] = AskAbout(down, after[i], from[i + 1])
    <2>1. i + 1 \in 1 .. N /\ (i + 1) - 1 = i
      OBVIOUS
    <2> QED
      BY <1>2, <2>1
  <1> DEFINE S == {i \in 0 .. N : after[i] \in Walks /\ Asked(down, w, from, i, after[i])}
  <1>6. 0 \in S
    BY <1>4 DEF Asked, AskedOf, Filtered
  <1>7. ASSUME NEW i \in 0 .. N - 1, i \in S
        PROVE  i + 1 \in S
    <2>1. from[i + 1] \in FromItem /\ (i + 1) - 1 = i /\ i + 1 \in 0 .. N
      BY <1>5
    <2>2. after[i + 1] \in Walks
      BY <1>5, <1>7, <2>1, AskAboutType
    <2>3. Asked(down, w, from, i + 1, after[i + 1])
      BY <1>5, <1>7, <2>1, AskAboutNext
    <2> QED
      BY <2>1, <2>2, <2>3
  <1>8. N \in S
    <2> HIDE DEF S, N
    <2>1. 0 .. N \subseteq S
      BY <1>4, <1>6, <1>7, IntervalInduction
    <2> QED
      BY <1>4, <2>1
  <1> QED
    BY <1>3, <1>8

-----------------------------------------------------------------------------
(* The nodes of one statement.                                             *)

(* The tables asked about by the first n nodes, of a walk that starts with *)
(* the names of WITH: names no WITH had introduced where they stood.       *)
AskedBy(s, with, n) ==
    UNION {Plain(s[i]) \ (with \cup OwnNames(s, i)) : i \in {k \in 1 .. n : s[k].op = "select"}}

Forbidden(s, n) == \E i \in 1 .. n : s[i].op \in Operations /\ ~ allowed[s[i].op]

(* A walk over the first n nodes ended at r.                               *)
Walked(down, s, with, n, r) ==
    LET T == AskedBy(s, with, n) IN
    /\ r.failed <=> (\E t \in T : Refused(down, t)) \/ Forbidden(s, n)
    /\ ~ r.failed => /\ r.with = with \cup OwnNames(s, n + 1)
                     /\ r.asked = T /\ r.filtered = Filtered(T)

(* A node's fields, and its part in the three sets above.                  *)
LEMMA NodeKinds ==
    ASSUME NEW s \in Seq(Node), NEW n \in 1 .. Len(s)
    PROVE  /\ s[n].op \in {"with", "select", "other"} \cup Operations
           /\ s[n].op = "with" => s[n].names \in SUBSET Name
           /\ s[n].op = "select" => s[n].from \in Seq(FromItem)
  <1>1. s[n] \in Node
    OBVIOUS
  <1> QED
    BY <1>1 DEF Node, Operations

NodeAdded(s, with, n) ==
    LET T == AskedBy(s, with, n - 1) IN
    /\ s[n].op = "with" => OwnNames(s, n + 1) = OwnNames(s, n) \cup s[n].names
    /\ s[n].op # "with" => OwnNames(s, n + 1) = OwnNames(s, n)
    /\ s[n].op = "select" =>
          AskedBy(s, with, n) = T \cup (Plain(s[n]) \ (with \cup OwnNames(s, n)))
    /\ s[n].op # "select" => AskedBy(s, with, n) = T
    /\ s[n].op \in Operations => (Forbidden(s, n) <=> Forbidden(s, n - 1) \/ ~ allowed[s[n].op])
    /\ s[n].op \notin Operations => (Forbidden(s, n) <=> Forbidden(s, n - 1))

LEMMA NodeAdds ==
    ASSUME NEW s \in Seq(Node), NEW with, NEW n \in 1 .. Len(s)
    PROVE  NodeAdded(s, with, n)
  <1>1. 1 .. (n + 1) - 1 = (1 .. n - 1) \cup {n} /\ 1 .. n = (1 .. n - 1) \cup {n}
    OBVIOUS
  <1>2. {k \in 1 .. (n + 1) - 1 : s[k].op = "with"} =
           {k \in 1 .. n - 1 : s[k].op = "with"} \cup (IF s[n].op = "with" THEN {n} ELSE {})
    BY <1>1
  <1>3. {k \in 1 .. n : s[k].op = "select"} =
           {k \in 1 .. n - 1 : s[k].op = "select"} \cup (IF s[n].op = "select" THEN {n} ELSE {})
    BY <1>1
  <1>4. OwnNames(s, n + 1) = OwnNames(s, n) \cup (IF s[n].op = "with" THEN s[n].names ELSE {})
    BY <1>2 DEF OwnNames
  <1>5. AskedBy(s, with, n) = AskedBy(s, with, n - 1) \cup
           (IF s[n].op = "select" THEN Plain(s[n]) \ (with \cup OwnNames(s, n)) ELSE {})
    BY <1>3 DEF AskedBy
  <1>6. Forbidden(s, n) <=> \/ Forbidden(s, n - 1)
                            \/ s[n].op \in Operations /\ ~ allowed[s[n].op]
    BY <1>1 DEF Forbidden
  <1> QED
    BY <1>4, <1>5, <1>6 DEF NodeAdded

LEMMA HandleTablesType ==
    ASSUME NEW down \in SUBSET Name, NEW w \in Walks, NEW s \in Seq(Node), NEW n \in 1 .. Len(s),
           allowed \in [Operations -> BOOLEAN]
    PROVE  HandleTables(down, w, s[n]) \in Walks
  <1>1. CASE s[n].op = "select"
    BY <1>1, NodeKinds, AskAboutAllDecides DEF HandleTables
  <1>2. CASE s[n].op = "with"
    BY <1>2, NodeKinds DEF HandleTables, Walks
  <1>3. CASE s[n].op \in Operations
    <2>1. s[n].op \notin {"with", "select", "other"} /\ allowed[s[n].op] \in BOOLEAN
      BY <1>3 DEF Operations
    <2>2. HandleTables(down, w, s[n]) = IF w.failed THEN w ELSE [w EXCEPT !.failed = ~ allowed[s[n].op]]
      BY <2>1 DEF HandleTables
    <2> QED
      BY <2>1, <2>2 DEF Walks
  <1>4. CASE s[n].op = "other"
    BY <1>4 DEF HandleTables
  <1> QED
    BY <1>1, <1>2, <1>3, <1>4, NodeKinds

LEMMA HandleTablesNext ==
    ASSUME NEW down \in SUBSET Name, NEW s \in Seq(Node), NEW with \in SUBSET Name,
           NEW n \in 1 .. Len(s), NEW w \in Walks, Walked(down, s, with, n - 1, w),
           allowed \in [Operations -> BOOLEAN]
    PROVE  Walked(down, s, with, n, HandleTables(down, w, s[n]))
  <1> DEFINE r == HandleTables(down, w, s[n])
             T == AskedBy(s, with, n - 1)
  <1> HIDE DEF T, r
  <1>0. NodeAdded(s, with, n)
    BY NodeAdds
  <1>1. (n - 1) + 1 = n
    OBVIOUS
  <1>2. /\ w.failed <=> (\E t \in T : Refused(down, t)) \/ Forbidden(s, n - 1)
        /\ ~ w.failed => /\ w.with = with \cup OwnNames(s, n)
                         /\ w.asked = T /\ w.filtered = Filtered(T)
    BY <1>1 DEF Walked, T
  <1>3. CASE w.failed
    <2>1. r = w
      BY <1>3 DEF HandleTables, r
    <2> QED
      BY <1>2, <1>3, <2>1, <1>0 DEF NodeAdded, T, Walked, r
  <1>4. CASE ~ w.failed /\ s[n].op = "with"
    <2>1. r = [w EXCEPT !.with = @ \cup s[n].names]
      BY <1>4 DEF HandleTables, r
    <2>2. /\ OwnNames(s, n + 1) = OwnNames(s, n) \cup s[n].names
          /\ AskedBy(s, with, n) = T /\ (Forbidden(s, n) <=> Forbidden(s, n - 1))
      BY <1>4, <1>0 DEF NodeAdded, T, Operations
    <2>3. /\ r.failed = w.failed /\ r.asked = w.asked /\ r.filtered = w.filtered
          /\ r.with = w.with \cup s[n].names
      BY <2>1 DEF Walks
    <2> QED
      BY <1>2, <1>4, <2>2, <2>3 DEF Walked, r
  <1>7. CASE ~ w.failed /\ s[n].op = "other"
    <2>1. r = w
      BY <1>7 DEF HandleTables, r
    <2>2. /\ OwnNames(s, n + 1) = OwnNames(s, n)
          /\ AskedBy(s, with, n) = T /\ (Forbidden(s, n) <=> Forbidden(s, n - 1))
      BY <1>7, <1>0 DEF NodeAdded, T, Operations
    <2> QED
      BY <1>2, <1>7, <2>1, <2>2 DEF Walked, r
  <1>5. CASE ~ w.failed /\ s[n].op = "select"
    <2> DEFINE A == AskedOf(w, s[n].from, Len(s[n].from))
    <2>1. r = AskAboutAll(down, w, s[n].from) /\ s[n].from \in Seq(FromItem)
      BY <1>5, NodeKinds DEF HandleTables, r
    <2>2. Asked(down, w, s[n].from, Len(s[n].from), r)
      BY <2>1, AskAboutAllDecides
    <2>3. A = Plain(s[n]) \ (with \cup OwnNames(s, n))
      BY <1>2, <1>5, <2>1 DEF AskedOf, Plain, ToSet
    <2>4. /\ OwnNames(s, n + 1) = OwnNames(s, n)
          /\ AskedBy(s, with, n) = T \cup A /\ (Forbidden(s, n) <=> Forbidden(s, n - 1))
      BY <1>5, <2>3, <1>0 DEF NodeAdded, T, Operations
    <2>5. Filtered(T \cup A) = Filtered(T) \cup Filtered(A)
      BY DEF Filtered
    <2> HIDE DEF A
    <2>6. /\ r.with = w.with
          /\ r.failed <=> \E t \in A : Refused(down, t)
          /\ ~ r.failed => r.asked = w.asked \cup A /\ r.filtered = w.filtered \cup Filtered(A)
      BY <1>5, <2>2 DEF Asked, A
    <2> QED
      BY <1>2, <1>5, <2>4, <2>5, <2>6 DEF Walked, r
  <1>6. CASE ~ w.failed /\ s[n].op \in Operations
    <2>1. s[n].op \notin {"with", "select", "other"} /\ allowed[s[n].op] \in BOOLEAN
      BY <1>6 DEF Operations
    <2>2. r = [w EXCEPT !.failed = ~ allowed[s[n].op]]
      BY <1>6, <2>1 DEF HandleTables, r
    <2>3. /\ r.failed = ~ allowed[s[n].op] /\ r.asked = w.asked /\ r.filtered = w.filtered
          /\ r.with = w.with
      BY <2>1, <2>2 DEF Walks
    <2>4. /\ OwnNames(s, n + 1) = OwnNames(s, n)
          /\ AskedBy(s, with, n) = T
          /\ Forbidden(s, n) <=> Forbidden(s, n - 1) \/ ~ allowed[s[n].op]
      BY <1>6, <2>1, <1>0 DEF NodeAdded, T
    <2> QED
      BY <1>2, <1>6, <2>1, <2>3, <2>4 DEF Walked, r
  <1> QED
    BY <1>3, <1>4, <1>5, <1>6, <1>7, NodeKinds

(* A whole walk, whatever the session knew of WITH before.                 *)
LEMMA WalkDecides ==
    ASSUME NEW down \in SUBSET Name, NEW s \in Seq(Node), NEW with \in SUBSET Name,
           allowed \in [Operations -> BOOLEAN]
    PROVE  Walk(down, s, with) \in Walks /\ Walked(down, s, with, Len(s), Walk(down, s, with))
  <1> DEFINE N == Len(s)
             start == [with |-> with, asked |-> {}, filtered |-> {}, failed |-> FALSE]
             Is(f) == f = [n \in 0 .. N |-> IF n = 0 THEN start ELSE HandleTables(down, f[n - 1], s[n])]
             after == CHOOSE f : Is(f)
  <1>1. \E f : Is(f)
    <2> DEFINE step == [n \in 1 .. N |-> [x \in Walks |-> HandleTables(down, x, s[n])]]
    <2>1. step \in StepFunctions(N, Walks) /\ N \in Nat
      <3>1. ASSUME NEW n \in 1 .. N, NEW x \in Walks
            PROVE  HandleTables(down, x, s[n]) \in Walks
        BY HandleTablesType
      <3> QED
        BY <3>1 DEF StepFunctions
    <2>2. start \in Walks
      BY DEF Walks
    <2> HIDE DEF start
    <2>3. PICK f : f \in Runs(N, Walks, start, step)
      <3> HIDE DEF step, N
      <3> QED
        BY <2>1, <2>2, RunExists
    <2>4. ASSUME NEW n \in 1 .. N
          PROVE  f[n] = HandleTables(down, f[n - 1], s[n])
      <3>1. n - 1 \in 0 .. N /\ f[n - 1] \in Walks
        BY <2>3 DEF Runs
      <3> QED
        BY <2>3, <3>1 DEF Runs
    <2>5. Is(f)
      BY <2>3, <2>4 DEF Runs
    <2> QED
      BY <2>5
  <1>2. Is(after)
    BY <1>1
  <1>3. Walk(down, s, with) = after[N]
    BY DEF Walk
  <1> HIDE DEF after, start
  <1>4. N \in Nat /\ after[0] = start
    BY <1>2
  <1>5. ASSUME NEW n \in 0 .. N - 1
        PROVE  n + 1 \in 1 .. N /\ after[n + 1] = HandleTables(down, after[n], s[n + 1])
    <2>1. n + 1 \in 1 .. N /\ (n + 1) - 1 = n
      OBVIOUS
    <2> QED
      BY <1>2, <2>1
  <1> DEFINE S == {n \in 0 .. N : after[n] \in Walks /\ Walked(down, s, with, n, after[n])}
  <1>6. 0 \in S
    <2>1. AskedBy(s, with, 0) = {} /\ ~ Forbidden(s, 0) /\ OwnNames(s, 0 + 1) = {}
      BY DEF AskedBy, Forbidden, OwnNames
    <2>2. start \in Walks /\ Filtered({}) = {}
      BY DEF Walks, Filtered, start
    <2>3. /\ start.with = with /\ start.asked = {} /\ start.filtered = {} /\ start.failed = FALSE
      BY DEF start
    <2>4. Walked(down, s, with, 0, start)
      BY <2>1, <2>2, <2>3 DEF Walked
    <2>5. 0 \in 0 .. N
      BY <1>4
    <2> QED
      BY <1>4, <2>2, <2>4, <2>5
  <1>7. ASSUME NEW n \in 0 .. N - 1, n \in S
        PROVE  n + 1 \in S
    <2>1. (n + 1) - 1 = n /\ n + 1 \in 0 .. N
      BY <1>5
    <2>2. after[n + 1] \in Walks
      BY <1>5, <1>7, <2>1, HandleTablesType
    <2>3. Walked(down, s, with, n + 1, after[n + 1])
      BY <1>5, <1>7, <2>1, HandleTablesNext
    <2> QED
      BY <2>1, <2>2, <2>3
  <1>8. N \in S
    <2> HIDE DEF S, N
    <2>1. 0 .. N \subseteq S
      BY <1>4, <1>6, <1>7, IntervalInduction
    <2> QED
      BY <1>4, <2>1
  <1> QED
    BY <1>3, <1>8

-----------------------------------------------------------------------------
(* The session.                                                            *)

(* The handler allows the DDL that the agent granted when it was asked,    *)
(* and before it was asked there was no statement.                         *)
Learned == /\ phase = "connecting" => last = Nothing
           /\ phase = "serving" => \A o \in Operations : allowed[o] <=> o \in permitted

IInv == TypeOK /\ Learned /\ AcceptedIsVetted

LEMMA Initially == ASSUME Init PROVE IInv
  <1>1. /\ ~ Nothing.accepted /\ Nothing.filtered \subseteq Nothing.asked
        /\ Nothing \in [statement : Statement \cup {<<>>}, known : SUBSET Name,
                        down : SUBSET Name, accepted : BOOLEAN,
                        asked : SUBSET Name, filtered : SUBSET Name]
    BY DEF Nothing
  <1>2. TypeOK
    <2>1. handled \in 0 .. MaxStatements
      BY StatementAssumption DEF Init
    <2>2. permitted \in SUBSET Operations /\ withTables \in SUBSET Name
      BY DEF Init
    <2>3. allowed \in [Operations -> BOOLEAN]
      BY DEF Init
    <2>4. last = Nothing /\ handleFailed \in BOOLEAN /\ policy \in Policies
      BY DEF Init
    <2>5. phase \in {"connecting", "serving", "closed"}
      BY DEF Init
    <2> QED
      BY ONLY <1>1, <2>1, <2>2, <2>3, <2>4, <2>5 DEF TypeOK
  <1>3. Learned /\ AcceptedIsVetted
    BY <1>1 DEF Init, Learned, AcceptedIsVetted
  <1> QED
    BY <1>2, <1>3 DEF IInv

(* Three answers in order, or fewer and no session.                        *)
LEMMA SetDDLKeeps == ASSUME IInv, SetDDL PROVE IInv'
  <1> USE DEF IInv
  <1>1. PICK n \in 0 .. 3, granted \in SUBSET Operations :
           /\ permitted' = granted
           /\ allowed' = SetAllowed(n, granted)
           /\ phase' = IF n = 3 THEN "serving" ELSE "closed"
    BY DEF SetDDL
  <1>2. \A o \in Operations : \E i \in 1 .. 3 : InOrder[i] = o
    <2>1. 1 \in 1 .. 3 /\ 2 \in 1 .. 3 /\ 3 \in 1 .. 3
      OBVIOUS
    <2>2. InOrder[1] = "create" /\ InOrder[2] = "update" /\ InOrder[3] = "delete"
      BY DEF InOrder
    <2> QED
      BY <2>1, <2>2 DEF Operations
  <1>3. SetAllowed(n, granted) \in [Operations -> BOOLEAN]
    BY DEF SetAllowed
  <1>4. n = 3 => \A o \in Operations : SetAllowed(n, granted)[o] <=> o \in granted
    BY <1>2 DEF SetAllowed
  <1>5. /\ phase = "connecting" /\ last = Nothing /\ last' = Nothing
        /\ UNCHANGED <<policy, withTables, handleFailed, handled>>
    BY DEF SetDDL, Learned
  <1>6. TypeOK'
    BY <1>1, <1>3, <1>5 DEF TypeOK
  <1>7. Learned'
    BY <1>1, <1>4, <1>5 DEF Learned
  <1>8. AcceptedIsVetted'
    BY <1>5 DEF AcceptedIsVetted, Nothing
  <1> QED
    BY <1>6, <1>7, <1>8

(* The walk of a statement that may be handled.                            *)
LEMMA HandleWalks ==
    ASSUME IInv, NEW s \in Statement, NEW down \in SUBSET Name, NEW with \in SUBSET Name
    PROVE  LET w == Walk(down, s, with)
           IN  s \in Seq(Node) /\ w \in Walks /\ Walked(down, s, with, Len(s), w)
  <1>1. s \in Seq(Node) /\ allowed \in [Operations -> BOOLEAN]
    BY StatementAssumption DEF IInv, TypeOK
  <1> QED
    BY <1>1, WalkDecides

(* A walk asks about exactly the statement's tables, but for those that    *)
(* share their name with a WITH it starts with.                            *)
LEMMA AsksAboutItsTables ==
    ASSUME NEW s \in Seq(Node), NEW with
    PROVE  AskedBy(s, with, Len(s)) = TablesOf(s) \ with
  <1>1. DOMAIN s = 1 .. Len(s)
    OBVIOUS
  <1> QED
    BY <1>1 DEF AskedBy, TablesOf

LEMMA HandleKeeps ==
    ASSUME IInv, NEW s \in Statement, NEW down \in SUBSET TablesOf(s), Handle(s, down)
    PROVE  IInv'
  <1> DEFINE w == Walk(down, s, withTables)
             N == Len(s)
             T == TablesOf(s) \ withTables
  <1>0. s \in Seq(Node) /\ down \in SUBSET Name
    BY StatementAssumption, TablesAreNames
  <1>1. s \in Seq(Node) /\ w \in Walks /\ Walked(down, s, withTables, N, w)
    BY <1>0, HandleWalks DEF IInv, TypeOK
  <1>2. /\ phase = "serving" /\ handled < MaxStatements /\ handled' = handled + 1
        /\ withTables' = w.with
        /\ handleFailed' = (handleFailed \/ w.failed)
        /\ last' = [statement |-> s, known |-> withTables, down |-> down,
                    accepted |-> ~ handleFailed', asked |-> w.asked, filtered |-> w.filtered]
        /\ UNCHANGED <<phase, policy, permitted, allowed>>
    BY DEF Handle
  <1> HIDE DEF w
  <1>3. /\ w.failed <=> (\E t \in T : Refused(down, t)) \/ Forbidden(s, N)
        /\ ~ w.failed => w.asked = T /\ w.filtered = Filtered(T)
    BY <1>1, AsksAboutItsTables DEF Walked
  <1>4. /\ w.with \in SUBSET Name /\ w.asked \in SUBSET Name /\ w.filtered \in SUBSET Name
        /\ w.filtered \subseteq w.asked /\ w.failed \in BOOLEAN
    BY <1>1 DEF Walks
  <1>5. TypeOK'
    <2>1. handleFailed' \in BOOLEAN
      BY <1>2, <1>4 DEF IInv, TypeOK
    <2>2. withTables \in SUBSET Name /\ down \in SUBSET Name
      BY <1>0 DEF IInv, TypeOK
    <2>3. /\ last' \in [statement : Statement \cup {<<>>}, known : SUBSET Name,
                        down : SUBSET Name, accepted : BOOLEAN,
                        asked : SUBSET Name, filtered : SUBSET Name]
          /\ last'.filtered \subseteq last'.asked
      BY <1>2, <1>4, <2>1, <2>2
    <2>4. handled' \in 0 .. MaxStatements
      BY <1>2, StatementAssumption DEF IInv, TypeOK
    <2> QED
      BY <1>2, <1>4, <2>1, <2>3, <2>4 DEF IInv, TypeOK
  <1>6. Learned'
    BY <1>2 DEF IInv, Learned
  <1>7. ASSUME last'.accepted
        PROVE  AcceptedIsVetted'
    <2>1. /\ ~ w.failed /\ last'.statement = s /\ last'.known = withTables /\ last'.down = down
          /\ last'.asked = T /\ last'.filtered = Filtered(T)
          /\ \A t \in T : ~ Refused(down, t)
          /\ ~ Forbidden(s, N)
      BY <1>2, <1>3, <1>7
    <2>2. \A t \in T : t \notin down /\ policy'[t] # "deny"
      BY <1>2, <2>1 DEF Refused
    <2>3. Filtered(T) = {t \in T : policy'[t] = "where"}
      BY <1>2 DEF Filtered
    <2>4. ASSUME NEW o \in Operations, Nodes(s, o) # {}
          PROVE  o \in permitted'
      <3>1. PICK i \in 1 .. N : s[i].op = o
        BY <1>1, <2>4 DEF Nodes
      <3>2. allowed[o]
        BY <2>1, <3>1 DEF Forbidden
      <3> QED
        BY <1>2, <3>2 DEF IInv, Learned
    <2> QED
      BY <2>1, <2>2, <2>3, <2>4 DEF AcceptedIsVetted, Permits, Refused, Filtered
  <1> QED
    BY <1>5, <1>6, <1>7 DEF IInv, AcceptedIsVetted

LEMMA Inductive == ASSUME IInv, [Next]_vars PROVE IInv'
  <1>1. CASE SetDDL
    BY <1>1, SetDDLKeeps
  <1>2. CASE \E s \in Statement : \E down \in SUBSET TablesOf(s) : Handle(s, down)
    BY <1>2, HandleKeeps
  <1>3. ASSUME Unparsable \/ PolicyChanges
        PROVE  IInv'
    <2>1. /\ last' = Nothing /\ policy' \in Policies /\ handled' \in 0 .. MaxStatements
          /\ UNCHANGED <<phase, permitted, allowed, withTables, handleFailed>>
      BY <1>3, StatementAssumption DEF Unparsable, PolicyChanges, IInv, TypeOK
    <2>2. TypeOK'
      BY <2>1 DEF IInv, TypeOK, Nothing
    <2>3. Learned' /\ AcceptedIsVetted'
      BY <2>1 DEF IInv, Learned, AcceptedIsVetted, Nothing
    <2> QED
      BY <2>2, <2>3 DEF IInv
  <1>4. CASE UNCHANGED vars
    BY <1>4 DEF vars, IInv, TypeOK, Learned, AcceptedIsVetted, Permits, Refused, Filtered
  <1> QED
    BY <1>1, <1>2, <1>3, <1>4 DEF Next

THEOREM Invariance == Spec => []IInv
  BY Initially, Inductive, PTL DEF Spec

(* TypeOK: the handler keeps its shape, and nothing is filtered that was   *)
(* not asked about.                                                        *)
THEOREM TypeCorrect == Spec => []TypeOK
  <1>1. IInv => TypeOK
    BY DEF IInv
  <1> QED
    BY Invariance, <1>1, PTL

(* AcceptedIsVetted: for statements of any length, any policies and their  *)
(* changes and an agent that fails at any question, an accepted statement  *)
(* was vetted for exactly the tables that its FROMs name plainly and no    *)
(* known WITH names (postgres_sql_handler.go 37-142).                      *)
THEOREM VettingHolds == Spec => []AcceptedIsVetted
  <1>1. IInv => AcceptedIsVetted
    BY DEF IInv
  <1> QED
    BY Invariance, <1>1, PTL

-----------------------------------------------------------------------------
(* A handler that no earlier statement disturbs.                           *)
LEMMA HandleDecides ==
    ASSUME IInv, NEW s \in Statement, Handle(s, {}), ~ handleFailed,
           withTables \cap TablesOf(s) = {}
    PROVE  /\ last'.accepted <=> Allows(s)
           /\ last'.accepted => last'.filtered = Filtered(TablesOf(s))
  <1> DEFINE w == Walk({}, s, withTables)
             N == Len(s)
             T == TablesOf(s)
  <1>1. s \in Seq(Node) /\ w \in Walks /\ Walked({}, s, withTables, N, w)
    BY HandleWalks DEF IInv, TypeOK
  <1>2. /\ phase = "serving"
        /\ last'.accepted <=> ~ w.failed
        /\ last'.filtered = w.filtered
    BY DEF Handle
  <1> HIDE DEF w
  <1>3. AskedBy(s, withTables, N) = T
    <2>1. T \ withTables = T
      OBVIOUS
    <2> QED
      BY <1>1, <2>1, AsksAboutItsTables
  <1>4. /\ w.failed <=> (\E t \in T : policy[t] = "deny") \/ Forbidden(s, N)
        /\ ~ w.failed => w.filtered = Filtered(T)
    BY <1>1, <1>3 DEF Walked, Refused
  <1>5. ~ Forbidden(s, N) <=> \A o \in Operations : Nodes(s, o) # {} => o \in permitted
    <2>1. \A o \in Operations : Nodes(s, o) # {} <=> \E i \in 1 .. N : s[i].op = o
      BY <1>1 DEF Nodes
    <2>2. \A o \in Operations : allowed[o] <=> o \in permitted
      BY <1>2 DEF IInv, Learned
    <2> QED
      BY <2>1, <2>2 DEF Forbidden
  <1> QED
    BY <1>2, <1>4, <1>5 DEF Allows, Permits

(* DryRunAgrees: whatever a session handled before, it decides on the next *)
(* statement as a fresh handler of /permissionapply does (routes.go        *)
(* 116-150) with the same DDL permissions does: as the policy of the       *)
(* moment says, with its conditions.                                       *)
THEOREM SessionAgreesWithDryRun == Spec => DryRunAgrees
  <1>1. IInv /\ [Next]_vars =>
           [\A s \in Statement :
               Handle(s, {}) /\ ~ handleFailed /\ withTables \cap TablesOf(s) = {} =>
                  /\ last'.accepted <=> Allows(s)
                  /\ last'.accepted => last'.filtered = Filtered(TablesOf(s))]_vars
    BY HandleDecides
  <1> QED
    BY Invariance, <1>1, PTL DEF Spec, DryRunAgrees
=============================================================================
