------------------------------ MODULE SQLHandler ------------------------------
(***************************************************************************)
(* The SQL handler of one session (internal/postgres_sql_handler.go) with  *)
(* the permission agent behind it (the OPA client of internal/opa.go): it  *)
(* is created with the connection, learns once which DDL is permitted, and *)
(* then rewrites or refuses each statement.  The API's /permissionapply    *)
(* runs the same code on a handler made for the one statement.             *)
(*                                                                         *)
(* A statement is the sequence of its nodes in the order the AST walker    *)
(* (the parser's library) visits them.  Each question to the agent is a    *)
(* call of its own and may fail by itself; the policy does not change      *)
(* between two questions about one statement.  A handler without an agent  *)
(* (38-40) is never asked: the factory refuses to make one (handler.go 27),*)
(* and a session without a handler does not call it.                       *)
(*                                                                         *)
(* What the conditions say, and that the tables inside them are visited in *)
(* their turn, is in OPAFilter.  JOIN filters (120-137) are left out: no   *)
(* agent of the repository returns any.                                    *)
(***************************************************************************)
EXTENDS Naturals, Sequences, SequencesExt

CONSTANTS Name,          \* names of tables and of common table expressions
          Statement,     \* the statements considered: sequences of nodes
          Policies,      \* what the agent's policy may say: functions on Name
          MaxStatements  \* bound: statements of a session

Operations == {"create", "update", "delete"}
Answers    == {"allow", "where", "deny"}

(* What a FROM is made of, its joins taken apart from left to right:       *)
(* tables, and whatever getTableNamesAndAliases 168-186 finds no name in,  *)
(* such as a join in parentheses.  A subquery in a FROM is such an item    *)
(* too, and a node of its own.                                             *)
FromItem == [kind : {"table"}, name : Name] \cup [kind : {"other"}]

(* The last are the nodes the visitor has no case for (TRUNCATE, EXPLAIN). *)
(* The tables in them, and in such items, the code learns nothing of.      *)
Node == [op : {"with"}, names : SUBSET Name]
        \cup [op : {"select"}, from : Seq(FromItem)]
        \cup [op : Operations \cup {"other"}]

Plain(node)  == {item.name : item \in {i \in ToSet(node.from) : i.kind = "table"}}

(* The names a WITH introduces before node i, and the tables of s that are *)
(* named plainly: names that no WITH of the statement itself has           *)
(* introduced where they stand.                                            *)
OwnNames(s, i) == UNION {s[j].names : j \in {k \in 1 .. i - 1 : s[k].op = "with"}}
TablesOf(s)    == UNION {Plain(s[i]) \ OwnNames(s, i) :
                            i \in {k \in DOMAIN s : s[k].op = "select"}}

ASSUME StatementAssumption ==
    /\ Statement \subseteq Seq(Node)
    /\ Policies \subseteq [Name -> Answers]
    /\ MaxStatements \in Nat

VARIABLES
    phase,         \* "connecting" until SetDDL is over
    policy,        \* what the agent currently answers for each table
    permitted,     \* what the agent answered for each DDL operation, when asked
    allowed,       \* OPASQL.allowedCreate, allowedUpdate, allowedDelete
    withTables,    \* names ever seen in a WITH
    handleFailed,  \* a statement was refused
    last,          \* the last statement and what became of it
    handled        \* how many statements were handled

vars == <<phase, policy, permitted, allowed, withTables, handleFailed, last, handled>>

(* A statement, the names of WITH known before it, and the tables whose    *)
(* question fails; whether it was accepted, and the tables that were asked *)
(* about and that were filtered.                                           *)
Nothing == [statement |-> <<>>, known |-> {}, down |-> {},
            accepted |-> FALSE, asked |-> {}, filtered |-> {}]

TypeOK == /\ phase \in {"connecting", "serving", "closed"}
          /\ policy \in Policies
          /\ permitted \in SUBSET Operations /\ allowed \in [Operations -> BOOLEAN]
          /\ withTables \in SUBSET Name /\ handleFailed \in BOOLEAN
          /\ last \in [statement : Statement \cup {<<>>}, known : SUBSET Name,
                       down : SUBSET Name, accepted : BOOLEAN,
                       asked : SUBSET Name, filtered : SUBSET Name]
          /\ last.filtered \subseteq last.asked
          /\ handled \in 0 .. MaxStatements

(* A session that logged in by itself (postgres.go 286-308) is served with *)
(* a handler that never heard of SetDDL.                                   *)
Init == /\ phase \in {"connecting", "serving"}
        /\ policy \in Policies
        /\ permitted = {}
        /\ allowed = [o \in Operations |-> FALSE]
        /\ withTables = {} /\ handleFailed = FALSE
        /\ last = Nothing /\ handled = 0

-----------------------------------------------------------------------------
(* SetDDL 144-161 and opa.go 279-318: three questions in this order; the   *)
(* first that fails ends the connection.                                   *)
InOrder == <<"create", "update", "delete">>

(* Mutant: every answer is stored in allowedCreate.                        *)
SetAllowed_Create(n, granted) == [o \in Operations |-> o = "create" /\ o \in granted /\ n > 0]

SetAllowed(n, granted) ==
    [o \in Operations |-> (\E i \in 1 .. n : InOrder[i] = o) /\ o \in granted]

SetDDL ==
    /\ phase = "connecting"
    /\ \E n \in 0 .. 3, granted \in SUBSET Operations :
          /\ permitted' = granted
          /\ allowed' = SetAllowed(n, granted)
          /\ phase' = IF n = 3 THEN "serving" ELSE "closed"
    /\ UNCHANGED <<policy, withTables, handleFailed, last, handled>>

-----------------------------------------------------------------------------
(* HandleTables 57-142, over the nodes of a statement.  The walk is over   *)
(* with the first refusal: whatever the walker may still visit, nothing is *)
(* accepted any more.                                                      *)
Refused(down, t) == t \in down \/ policy[t] = "deny"
Filtered(T)      == {t \in T : policy[t] = "where"}

(* Mutants: conditions are plugged in for names of a WITH too; a question  *)
(* that fails counts as a yes.                                             *)
AskAbout_Shadowed(down, w, item) ==
    IF w.failed \/ item.kind # "table" THEN w
    ELSE [w EXCEPT !.asked = IF item.name \in w.with THEN @ ELSE @ \cup {item.name},
                   !.failed = item.name \notin w.with /\ Refused(down, item.name),
                   !.filtered = @ \cup Filtered({item.name} \ down)]

AskAbout_FailOpen(down, w, item) ==
    IF w.failed \/ item.kind # "table" \/ item.name \in w.with THEN w
    ELSE [w EXCEPT !.asked = @ \cup {item.name},
                   !.failed = Refused(down, item.name) /\ item.name \notin down,
                   !.filtered = @ \cup Filtered({item.name} \ down)]

(* 83-118: the tables of a FROM, one question each.  The agent's answer is *)
(* no, yes, or a condition, which becomes part of the WHERE; a question    *)
(* that fails counts as a no.  Items without a name are passed over (185). *)
AskAbout(down, w, item) ==
    IF w.failed \/ item.kind # "table" \/ item.name \in w.with THEN w
    ELSE [w EXCEPT !.asked = @ \cup {item.name},
                   !.failed = Refused(down, item.name),
                   !.filtered = @ \cup Filtered({item.name} \ down)]

AskAboutAll(down, w, from) ==
    LET after[i \in 0 .. Len(from)] ==
            IF i = 0 THEN w ELSE AskAbout(down, after[i - 1], from[i])
    IN  after[Len(from)]

HandleTables(down, w, node) ==
    IF w.failed THEN w
    ELSE CASE node.op = "with"   -> [w EXCEPT !.with = @ \cup node.names]
           [] node.op = "select" -> AskAboutAll(down, w, node.from)
           [] node.op = "other"  -> w
           [] OTHER              -> [w EXCEPT !.failed = ~ allowed[node.op]]

Walk(down, statement, with) ==
    LET start == [with |-> with, asked |-> {}, filtered |-> {}, failed |-> FALSE]
        after[n \in 0 .. Len(statement)] ==
            IF n = 0 THEN start ELSE HandleTables(down, after[n - 1], statement[n])
    IN  after[Len(statement)]

(* Handle 37-55.  withTables and handleFailed are fields of the session's  *)
(* handler: nothing resets them between statements.                        *)
Handle(statement, down) ==
    /\ phase = "serving" /\ handled < MaxStatements
    /\ LET w == Walk(down, statement, withTables) IN
       /\ withTables' = w.with
       /\ handleFailed' = (handleFailed \/ w.failed)
       /\ last' = [statement |-> statement, known |-> withTables, down |-> down,
                   accepted |-> ~ handleFailed', asked |-> w.asked, filtered |-> w.filtered]
    /\ handled' = handled + 1
    /\ UNCHANGED <<phase, policy, permitted, allowed>>

(* A statement the parser does not know is refused, and forgotten (44-47). *)
Unparsable ==
    /\ phase = "serving" /\ handled < MaxStatements
    /\ last' = Nothing
    /\ handled' = handled + 1
    /\ UNCHANGED <<phase, policy, permitted, allowed, withTables, handleFailed>>

(* The agent's policies are edited while the session goes on.              *)
PolicyChanges == /\ \E p \in Policies : policy' = p
                 /\ last' = Nothing
                 /\ UNCHANGED <<phase, permitted, allowed, withTables, handleFailed, handled>>

Next == \/ SetDDL \/ Unparsable \/ PolicyChanges
        \/ \E s \in Statement : \E down \in SUBSET TablesOf(s) : Handle(s, down)

Spec == Init /\ [][Next]_vars

-----------------------------------------------------------------------------
(* The rule, statement by statement (README 129, 141), for the tables that *)
(* are named plainly.                                                      *)
Nodes(s, op) == {s[i] : i \in {j \in DOMAIN s : s[j].op = op}}

Permits(s) == \A o \in Operations : Nodes(s, o) # {} => o \in permitted
Allows(s)  == Permits(s) /\ \A t \in TablesOf(s) : policy[t] # "deny"

(* What /permissionapply shows is what the session does (README 143): with *)
(* the agent there, a session that has refused nothing yet and has not     *)
(* named a CTE after one of the statement's tables decides on SELECTs as   *)
(* the policy of the moment says, and on DDL as it said at the connection, *)
(* and plugs in the conditions of exactly the tables that have one -       *)
(* whatever was handled before, and however the policy changed.            *)
DryRunAgrees ==
    [][\A s \in Statement :
          Handle(s, {}) /\ ~ handleFailed /\ withTables \cap TablesOf(s) = {} =>
             /\ last'.accepted <=> Allows(s)
             /\ last'.accepted => last'.filtered = Filtered(TablesOf(s))]_vars

(* What an accepted statement was vetted for, exactly (59-118): each table *)
(* a FROM names plainly, but for names of WITHs of earlier statements and, *)
(* from where they stand, of its own, had an answer, which was not no, and *)
(* those and only those with a condition have it in the rewritten          *)
(* statement; and every DDL in it was permitted.  It promises nothing for  *)
(* the rest: for those names see EveryTableAsked, and for tables in other  *)
(* items of a FROM (185) and in other nodes (59-140) nobody is asked.      *)
AcceptedIsVetted ==
    last.accepted =>
        LET tables == TablesOf(last.statement) \ last.known IN
        /\ last.asked = tables
        /\ \A t \in tables : ~ Refused(last.down, t)
        /\ last.filtered = Filtered(tables)
        /\ Permits(last.statement)

(* README 129: the handler "finds all the referenced tables in the         *)
(* statement and for each table calls the OPA compile API": also tables    *)
(* that share their name with a CTE of an earlier statement.               *)
EveryTableAsked == last.accepted => TablesOf(last.statement) \subseteq last.asked

(* README 129: "If the OPA API says yes, the SQL statement is unchanged    *)
(* and forwarded to the database as is".                                   *)
AllowedIsForwarded ==
    last.statement # <<>> /\ last.down = {} /\ Allows(last.statement) => last.accepted
=============================================================================
