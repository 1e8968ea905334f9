------------------------------ MODULE OPAMeaning ------------------------------
(***************************************************************************)
(* What the statements of OPAFilter mean: the rows a database finds for    *)
(* the rewritten one, against the rows the policies permit (README         *)
(* 129-133).                                                               *)
(***************************************************************************)
EXTENDS OPAFilter

CONSTANTS Column,   \* the columns of every table
          Database  \* contents of the tables: a set of rows for each

-----------------------------------------------------------------------------
(* The meaning of the rewritten statement, as a database finds it: names   *)
(* are looked up in the innermost FROM that has them.                      *)
Compare(op, x, y) ==
    CASE op = "="  -> x = y  [] op = "!=" -> x # y
      [] op = "<"  -> x < y  [] op = "<=" -> x <= y
      [] op = ">"  -> x > y  [] op = ">=" -> x >= y

Operand(o, scope) == IF o.kind = "column" THEN scope[o.table][o.name[1]] ELSE o.value

True(c, scope) ==
    c.negated # Compare(c.op, Operand(c.left, scope), Operand(c.right, scope))

(* All choices of a row for each table of a FROM, inside an outer scope.   *)
RowChoices(from, db) ==
    {f \in [Exposes(from) -> UNION {db[t.table] : t \in ToSet(from)}] :
        \A t \in ToSet(from) : f[Exposed(t)] \in db[t.table]}

(* An inner name hides an outer one.                                       *)
Over(f, outer) ==
    [x \in (DOMAIN f) \cup (DOMAIN outer) |-> IF x \in DOMAIN f THEN f[x] ELSE outer[x]]

Scopes(from, outer, db) == {Over(f, outer) : f \in RowChoices(from, db)}

(* Those that a SELECT selects, given what the EXISTS in it select.        *)
Satisfies(scope, where, exists) ==
    \A filter \in ToSet(where) : \E query \in ToSet(filter) :
        IF query.exists = <<>> THEN \A c \in query.conditions : True(c, scope)
        ELSE exists[[select |-> query.exists[1], outer |-> scope]] # {}

Outer(db) == UNION {[names -> UNION {db[t] : t \in Table}] :
                       names \in SUBSET UNION {Exposes(selects[n].from) : n \in DOMAIN selects}}

Selected(db) ==
    LET S[at \in [select : DOMAIN selects, outer : Outer(db)]] ==
          {scope \in Scopes(selects[at.select].from, at.outer, db) :
              Satisfies(scope, selects[at.select].where, S)}
    IN  S[[select |-> 1, outer |-> <<>>]]

(* The meaning of the policies: a row is permitted if some query holds of  *)
(* it, with permitted rows of the other tables the query mentions.  The    *)
(* operands of an expression are its terms other than the operator, in     *)
(* their order.                                                            *)
Ref(term)      == term.value
IsOperator(term) == \/ term.type = "var" /\ term.value \in DOMAIN Symbol
                    \/ term.type = "ref" /\ Len(Ref(term)) = 1
                       /\ Ref(term)[1].type = "var" /\ Ref(term)[1].value \in DOMAIN Symbol
IsColumn(term) == /\ term.type = "ref" /\ Len(Ref(term)) = 4
                  /\ Ref(term)[1] = [type |-> "var", value |-> "data"]
                  /\ \A i \in 2 .. 4 : Ref(term)[i].type = "string"
                  /\ Ref(term)[2].value = "tables"
                  /\ Ref(term)[3].value \in Table /\ Ref(term)[4].value \in Column
IsValue(term)  == term.type \in Simple /\ ~ InQuotes(term)

(* An expression the code can be expected to translate.  A string with a   *)
(* quote in it is no value here: the code does not escape it (opa.go 131). *)
WellFormed(e) ==
    /\ Len(e.terms) = 3
    /\ \E i \in 1 .. 3 : /\ IsOperator(e.terms[i])
                         /\ \A j \in 1 .. 3 \ {i} : IsColumn(e.terms[j]) \/ IsValue(e.terms[j])
    /\ \E i \in 1 .. 3 : IsColumn(e.terms[i])

Middle(e)   == CHOOSE i \in 1 .. 3 : IsOperator(e.terms[i])
Operator(e) == LET t == e.terms[Middle(e)]
               IN  Symbol[IF t.type = "ref" THEN Ref(t)[1].value ELSE t.value]
Left(e)     == e.terms[IF Middle(e) = 1 THEN 2 ELSE 1]
Right(e)    == e.terms[IF Middle(e) = 3 THEN 2 ELSE 3]

Expressions(answer) == UNION {ToSet(answer[q]) : q \in DOMAIN answer}
Mentioned(query)    == {Ref(t)[3].value : t \in
                          {u \in UNION {ToSet(e.terms) : e \in ToSet(query)} : IsColumn(u)}}
Mentions(t) == (UNION {Mentioned(q) : q \in ToSet(answers[t])}) \ {t}

(* The tables that policies lead to. *)
Closed(S)     == \A t \in S : Mentions(t) \subseteq S
Closure(from) == {t \in Table : \A S \in SUBSET Table : from \subseteq S /\ Closed(S) => t \in S}
Reached       == Closure({t.table : t \in ToSet(statement.from)})

Denotes(term, rows) ==
    IF IsColumn(term) THEN rows[Ref(term)[3].value][Ref(term)[4].value] ELSE term.value

Means(e, rows) ==
    e.negated # Compare(Operator(e), Denotes(Left(e), rows), Denotes(Right(e), rows))

Lets(t, row, permitted) ==
    \E q \in ToSet(answers[t]) :
        \E others \in [Mentioned(q) \ {t} -> UNION {permitted[x] : x \in Mentioned(q) \ {t}}] :
            /\ \A x \in DOMAIN others : others[x] \in permitted[x]
            /\ \A e \in ToSet(q) : Means(e, Over(others, [x \in {t} |-> row]))

(* Policies are followed from table to table as far as there may be        *)
(* SELECTs in a statement.                                                 *)
Permitted(db) ==
    LET P[depth \in 0 .. MaxSelects] ==
          [t \in Table |-> {row \in db[t] : depth > 0 /\ Lets(t, row, P[depth - 1])}]
    IN  P[MaxSelects]

-----------------------------------------------------------------------------
(* Answers whose order comparisons are those of a column with a value; and *)
(* statements in which no alias is the name of another table.              *)
Oriented(e) == \/ Operator(e) \in {"=", "!="}
               \/ IsColumn(Left(e)) /\ IsValue(Right(e))
NoCapture   == \A i \in DOMAIN statement.from : statement.from[i].alias \notin Table

Meaningful == \A t \in Reached : \A e \in Expressions(answers[t]) : WellFormed(e)
AllOriented == \A t \in Reached : \A e \in Expressions(answers[t]) : Oriented(e)

(* What the statement selects is what its own WHERE selects of the rows    *)
(* that are permitted of each table of its FROM.                           *)
SelectsThePermitted ==
    \A db \in Database :
        Selected(db) =
            {scope \in Scopes(statement.from, <<>>, db) :
                /\ Satisfies(scope, statement.where, <<>>)
                /\ \A t \in ToSet(statement.from) : scope[Exposed(t)] \in Permitted(db)[t.table]}

(* The rewritten statement returns exactly the rows the policies permit,   *)
(* whatever is in the tables: conditions of several tables of a FROM, a    *)
(* table joined with itself, an EXISTS that repeats a table of the FROM,   *)
(* and an EXISTS inside an EXISTS do not mix their names up.  Conditions   *)
(* are comparisons with columns and values other than strings with a quote *)
(* in them.                                                                *)
VisibleIsPermitted ==
    result = "rewritten" /\ NoCapture /\ Meaningful /\ AllOriented => SelectsThePermitted

(* README 129: the agent's conditions "get converted into WHERE and JOIN   *)
(* SQL statements and plugged into the original statement", whatever they  *)
(* compare.                                                                *)
ConditionsAreConverted ==
    result = "rewritten" /\ NoCapture /\ Meaningful => SelectsThePermitted

(* Every table a plugged-in condition names is in the FROM of its SELECT   *)
(* or of the one its SELECT was plugged into: the database finds no        *)
(* unknown name.                                                           *)
Around(n) == {m \in DOMAIN selects : n \in ToSet(Inside(selects[m]))}

NamesAreBound ==
    \A n \in DOMAIN selects :
        LET names == UNION {Exposes(selects[m].from) : m \in Around(n) \cup {n}}
        IN  \A filter \in ToSet(selects[n].where) : \A query \in ToSet(filter) :
                \A c \in query.conditions : Names(c) \subseteq names

(* With the agent there, a statement is refused, or taken for another,     *)
(* only if a table it reaches is denied, or has a condition that does not  *)
(* compare a column with a column or a value other than a string with a    *)
(* quote in it.                                                            *)
RefusedForAReason ==
    result \in {"refused", "misread"} =>
        \E t \in Reached : \/ IsDisallowed(answers[t])
                           \/ \E e \in Expressions(answers[t]) : ~ WellFormed(e)

(* The walk comes to an end if no table's policy leads back to the table   *)
(* and no string has a quote in it.                                        *)
Acyclic  == \A t \in Reached : t \notin Closure(Mentions(t))
Readable == \A t \in Reached : \A e \in Expressions(answers[t]) :
                \A term \in ToSet(e.terms) : ~ InQuotes(term)
WalkEnds == Acyclic /\ Readable => <>(result \in Ended)
=============================================================================
