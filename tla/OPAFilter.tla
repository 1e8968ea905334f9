------------------------------ MODULE OPAFilter ------------------------------
(***************************************************************************)
(* One SELECT on its way through the SQL handler, table by table, with the *)
(* conditions the agent attaches to it (postgres_sql_handler.go 83-118,    *)
(* 168-186; opa.go 382-407).                                               *)
(*                                                                         *)
(* The visitor is called for a SELECT before the walker descends into it,  *)
(* so what it plugs into the WHERE is walked too: the tables of an EXISTS  *)
(* are asked about in their turn (the tests give their agent a table it is *)
(* to stay silent about for that reason, postgres_sql_handler_test.go 203).*)
(*                                                                         *)
(* The SELECTs of the growing statement are numbered as they appear; a     *)
(* WHERE is an AND of filters, a filter an OR of queries, and a query its  *)
(* conditions or, in a sequence of its own, the number of the EXISTS that  *)
(* holds them.  There are no NULLs and no outer joins, and answers do not  *)
(* change during a statement.                                              *)
(***************************************************************************)
EXTENDS OPACompile, FiniteSets, FiniteSetsExt, SequencesExt

CONSTANTS Table,       \* the tables the agent may be asked about
          Statement,   \* the statements: a FROM and a WHERE
          Answers,     \* what the agent may say of each table
          MaxSelects   \* bound: SELECTs in a statement

IsSequence(x) == x \in Seq(ToSet(x))

(* What a FROM calls a table. *)
Exposed(table) == IF table.alias = "" THEN table.table ELSE table.alias
Exposes(from)  == {Exposed(table) : table \in ToSet(from)}

(* A reference to a table is to one of these (opa.go 172-196).             *)
IsTerm(term) == term.type = "ref" =>
    /\ IsSequence(term.value)
    /\ /\ Len(term.value) >= 3
       /\ CompileItem(term.value[1]).kind = "unknown"
       /\ CompileItem(term.value[2]).value = "tables"
       => term.value[3].type \in Simple /\ term.value[3].value \in Table

IsAnswer(answer) ==
    /\ IsSequence(answer)
    /\ \A query \in ToSet(answer) :
          /\ IsSequence(query)
          /\ \A e \in ToSet(query) : IsSequence(e.terms) /\ \A t \in ToSet(e.terms) : IsTerm(t)

(* A statement whose conditions name the tables of its FROM.               *)
IsStatement(s) ==
    /\ IsSequence(s.from) /\ IsSequence(s.where)
    /\ \A table \in ToSet(s.from) : table.table \in Table
    /\ \A filter \in ToSet(s.where) :
          /\ IsSequence(filter)
          /\ \A q \in ToSet(filter) :
                q.exists = <<>> /\ \A c \in q.conditions : Names(c) \subseteq Exposes(s.from)

ASSUME FilterAssumption ==
    /\ MaxSelects \in Nat \ {0} /\ "" \notin Table
    /\ \A a \in Answers : DOMAIN a = Table /\ \A t \in Table : IsAnswer(a[t])
    /\ \A s \in Statement : IsStatement(s)

VARIABLES
    statement,  \* what the client sent
    answers,    \* the agent's answer for each table
    selects,    \* the SELECTs of the statement so far
    todo,       \* numbers of the SELECTs the walker has yet to visit
    next,       \* the table of the first of them to be asked about
    result      \* what came of the statement

vars == <<statement, answers, selects, todo, next, result>>

Ended == {"rewritten", "refused", "misread", "unavailable"}

TypeOK ==
    /\ statement \in Statement /\ answers \in Answers
    /\ result \in Ended \cup {"walking"}
    /\ \A n \in ToSet(todo) : n \in DOMAIN selects
    /\ \A n \in DOMAIN selects : \A i \in DOMAIN selects[n].from :
          selects[n].from[i].table \in Table

Init == /\ statement \in Statement
        /\ answers \in Answers
        /\ selects = <<statement>>
        /\ todo = <<1>> /\ next = 1
        /\ result = "walking"

Visiting == selects[Head(todo)]
Asking   == result = "walking" /\ todo # <<>> /\ next <= Len(Visiting.from)

End(as) == /\ result' = as
           /\ UNCHANGED <<statement, answers, selects, todo, next>>

-----------------------------------------------------------------------------
(* SelectFilters 382-407: a refusal is an error, and so is an answer that  *)
(* cannot be compiled; the handler adds those its parser does not take     *)
(* (104-110), a column without a name or of a table without one.           *)
AgentFails == Asking /\ End("unavailable")

Parses(filter) ==
    \A q \in DOMAIN filter : \A c \in filter[q].conditions :
        \A o \in {c.left, c.right} : o.kind = "column" => o.name # <<>> /\ o.table # ""

Garbles(filter) ==
    \E q \in DOMAIN filter : \E c \in filter[q].conditions : Garbled \in {c.left, c.right}

Understood(table) ==
    LET answer == answers[table.table]
    IN  /\ Compiles(answer, table.table, table.alias)
        /\ \E compiled \in {Compile(answer, table.table, table.alias)} :
              Parses(compiled) /\ ~ Garbles(compiled)

Refuse == LET table == Visiting.from[next] IN
    /\ Asking
    /\ ~ IsAllowed(answers[table.table])
    /\ IsDisallowed(answers[table.table]) \/ ~ Understood(table)
    /\ End("refused")

(* A string with a quote in it may also be taken for something else, and   *)
(* the statement goes on with a condition that is not the agent's: the     *)
(* model does not follow it.                                               *)
Misread == LET table == Visiting.from[next] IN
    /\ Asking
    /\ ~ IsAllowed(answers[table.table]) /\ ~ IsDisallowed(answers[table.table])
    /\ Compiles(answers[table.table], table.table, table.alias)
    /\ \E compiled \in {Compile(answers[table.table], table.table, table.alias)} : Garbles(compiled)
    /\ End("misread")

Allow == /\ Asking
         /\ IsAllowed(answers[Visiting.from[next].table])
         /\ next' = next + 1
         /\ UNCHANGED <<statement, answers, selects, todo, result>>

-----------------------------------------------------------------------------
(* 102-118: the filter is AND-ed to the WHERE there is; each query with    *)
(* tables of its own becomes an EXISTS (opa.go 63-67), a new SELECT.  The  *)
(* order of its tables is not kept: it decides nothing.                    *)
Unaliased(t) == [table |-> t, alias |-> ""]

Exists(query) == [from  |-> SetToSeq({Unaliased(t) : t \in query.extras}),
                  where |-> <<(<<[conditions |-> query.conditions, exists |-> <<>>]>>)>>]

(* The queries that get an EXISTS, in the order of its number.             *)
WithExtras(compiled) == SetToSeq({q \in DOMAIN compiled : compiled[q].extras # {}})

Number(compiled, q) ==
    Len(selects) + CHOOSE i \in DOMAIN WithExtras(compiled) : WithExtras(compiled)[i] = q

FilterOf(compiled) ==
    [q \in DOMAIN compiled |->
        IF compiled[q].extras = {}
        THEN [conditions |-> compiled[q].conditions, exists |-> <<>>]
        ELSE [conditions |-> {}, exists |-> <<Number(compiled, q)>>]]

(* Mutant: the filter replaces the WHERE.                                  *)
Plug_Replaces(select, filter) == [from |-> select.from, where |-> <<filter>>]

Plug(select, filter) == [from |-> select.from, where |-> <<filter>> \o select.where]

Narrow ==
    /\ Asking
    /\ LET table  == Visiting.from[next]
           answer == answers[table.table]
       IN  /\ ~ IsAllowed(answer) /\ ~ IsDisallowed(answer) /\ Understood(table)
           /\ \E compiled \in {Compile(answer, table.table, table.alias)} :
                 LET queries == WithExtras(compiled) IN
                 /\ Len(selects) + Len(queries) <= MaxSelects
                 /\ selects' = [selects EXCEPT ![Head(todo)] = Plug(@, FilterOf(compiled))]
                                  \o [i \in DOMAIN queries |-> Exists(compiled[queries[i]])]
    /\ next' = next + 1
    /\ UNCHANGED <<statement, answers, todo, result>>

(* The walker descends: the SELECTs in the WHERE, from left to right.      *)
Inside(select) ==
    FlattenSeq([f \in DOMAIN select.where |->
        FlattenSeq([q \in DOMAIN select.where[f] |-> select.where[f][q].exists])])

Descend == /\ result = "walking" /\ todo # <<>> /\ next > Len(Visiting.from)
           /\ todo' = Inside(Visiting) \o Tail(todo)
           /\ next' = 1
           /\ UNCHANGED <<statement, answers, selects, result>>

WalkIsOver == result = "walking" /\ todo = <<>> /\ End("rewritten")

Walk == Refuse \/ Misread \/ Allow \/ Narrow \/ Descend \/ WalkIsOver
Next == AgentFails \/ Walk

(* The agent answers every question, if it does not fail.                  *)
Spec     == Init /\ [][Next]_vars
FairSpec == Spec /\ WF_vars(Walk)
=============================================================================
