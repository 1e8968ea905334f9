------------------------------ MODULE OPACompile ------------------------------
(***************************************************************************)
(* How an answer of OPA's compile API becomes a condition of SQL           *)
(* (internal/opa.go 42-243 and 421-453): pure operators.                   *)
(*                                                                         *)
(* An answer is a sequence of queries, a query a sequence of expressions,  *)
(* an expression three terms and a flag that negates it.  The text the     *)
(* code builds is kept as the structure a parser finds in it: an OR of     *)
(* queries, each the AND of its conditions, inside an EXISTS over the      *)
(* tables that are not the one asked about.  Numbers and booleans are the  *)
(* values they denote, and so are strings without a quote; names of tables *)
(* and columns are plain lower-case identifiers, which a parser reads as   *)
(* they stand.  A term of a ref is a value or a var, never another ref.    *)
(***************************************************************************)
EXTENDS Naturals, Sequences

CONSTANT Quoting  \* the strings that hold the character they are put between

(* CompiledTerm 231-238.  Its text is the value of a value, and the name   *)
(* of the rest: that of a column is its table and the path behind it, of   *)
(* which 192 makes one dotted name.                                        *)
Value(v)         == [kind |-> "value", table |-> "", name |-> <<>>, value |-> v]
Named(kind, t, n) == [kind |-> kind, table |-> t, name |-> n, value |-> 0]

Failed == Named("error", "", <<>>)

(* 130-131: a string is put between two quotes as it is.  If it holds one  *)
(* itself, what a parser reads there, if anything, is not the string.      *)
InQuotes(term) == term.type = "string" /\ term.value \in Quoting
Garbled        == Named("value", "", <<"garbled">>)

(* 202-226 *)
Symbol == [eq |-> "=", equal |-> "=", neq |-> "!=", lt |-> "<", lte |-> "<=",
           gt |-> ">", gte |-> ">="]

CompileVar(name) ==
    CASE name \in DOMAIN Symbol -> Named("operator", "", <<Symbol[name]>>)
      [] name = "data"          -> Named("unknown", "", <<name>>)
      [] OTHER                  -> Failed

Simple == {"boolean", "number", "string"}

CompileItem(term) ==
    CASE term.type \in Simple -> Value(term.value)
      [] term.type = "var"    -> CompileVar(term.value)
      [] OTHER                -> Failed

(* 132-197: an operator alone, or data.tables.<table>.<column>; the table  *)
(* asked about goes by the alias the statement gives it.                   *)
ByAlias(table, tableName, alias) ==
    IF table = tableName /\ alias # "" THEN alias ELSE table

Refer(parts, tableName, alias) ==
    IF \E i \in DOMAIN parts : parts[i].kind = "error" THEN Failed
    ELSE IF Len(parts) = 1 /\ parts[1].kind = "operator" THEN parts[1]
    ELSE IF Len(parts) >= 3 /\ parts[1].kind = "unknown" /\ parts[2].value = "tables"
         THEN Named("column", ByAlias(parts[3].value, tableName, alias),
                    [i \in 1 .. Len(parts) - 3 |-> parts[i + 3].value])
    ELSE Failed

CompileRef(ref, tableName, alias) ==
    Refer([i \in DOMAIN ref |-> CompileItem(ref[i])], tableName, alias)

(* The strings in a ref are names, and are put between nothing (159).      *)
CompileTerm(term, tableName, alias) ==
    CASE term.type = "ref" -> CompileRef(term.value, tableName, alias)
      [] InQuotes(term)    -> Garbled
      [] OTHER             -> CompileItem(term)

-----------------------------------------------------------------------------
(* setIndicesForCompiledTerms 421-453: the place of a term, 0 to 2, is a   *)
(* matter of its kind.  A value goes to the right; of two columns the      *)
(* first goes to the right.                                                *)

(* Mutant: every column goes to the right when there is no value.          *)
Index_NoSecond(ts, i) ==
    CASE ts[i].kind = "operator" -> 1
      [] ts[i].kind = "value"    -> 2
      [] ts[i].kind = "column"   -> IF \E j \in DOMAIN ts : ts[j].kind = "value" THEN 0 ELSE 2
      [] OTHER                   -> 0

Index(ts, i) ==
    LET first == /\ \A j \in DOMAIN ts : ts[j].kind # "value"
                 /\ \A j \in 1 .. i - 1 : ts[j].kind # "column"
    IN  CASE ts[i].kind = "operator"           -> 1
          [] ts[i].kind = "value"              -> 2
          [] ts[i].kind = "column" /\ first    -> 2
          [] OTHER                             -> 0

(* CompileResponseQuery.Compile 83-119.                                    *)
CompileTerms(expression, tableName, alias) ==
    [i \in DOMAIN expression.terms |-> CompileTerm(expression.terms[i], tableName, alias)]

Fits(ts) == /\ Len(ts) = 3
            /\ \A i \in DOMAIN ts : ts[i].kind # "error"
            /\ \A i, j \in DOMAIN ts : i # j => Index(ts, i) # Index(ts, j)

At(ts, place) == ts[CHOOSE i \in DOMAIN ts : Index(ts, i) = place]

(* Mutant: the flag is forgotten.                                          *)
Condition_Positive(expression, tableName, alias) ==
    LET ts == CompileTerms(expression, tableName, alias)
    IN  [left |-> At(ts, 0), op |-> At(ts, 1).name[1], right |-> At(ts, 2), negated |-> FALSE]

Condition(expression, tableName, alias) ==
    LET ts == CompileTerms(expression, tableName, alias)
    IN  [left |-> At(ts, 0), op |-> At(ts, 1).name[1], right |-> At(ts, 2),
         negated |-> expression.negated]

(* 105-110: the tables that are not the one asked about.                   *)

(* Mutants: one of the two names is not recognised as the table's own.     *)
ExtraTables_Alias(expression, tableName, alias) ==
    LET ts == CompileTerms(expression, tableName, alias)
    IN  {ts[i].table : i \in {j \in DOMAIN ts : ts[j].kind = "column"}} \ {tableName}

ExtraTables_Own(expression, tableName, alias) ==
    LET ts == CompileTerms(expression, tableName, alias)
    IN  {ts[i].table : i \in {j \in DOMAIN ts : ts[j].kind = "column"}} \ {alias}

ExtraTables(expression, tableName, alias) ==
    LET ts == CompileTerms(expression, tableName, alias)
    IN  {ts[i].table : i \in {j \in DOMAIN ts : ts[j].kind = "column"}}
           \ {tableName, alias}

-----------------------------------------------------------------------------
(* CompileResponse 29-71.                                                  *)
IsAllowed(answer)    == \E q \in DOMAIN answer : answer[q] = <<>>
IsDisallowed(answer) == answer = <<>>

Compiles(answer, tableName, alias) ==
    \A q \in DOMAIN answer : \A e \in DOMAIN answer[q] :
        \E ts \in {CompileTerms(answer[q][e], tableName, alias)} : Fits(ts)

(* Mutant: each expression's extra tables replace those of the one before. *)
Query_LastOnly(query, tableName, alias) ==
    [extras |-> ExtraTables(query[Len(query)], tableName, alias),
     conditions |-> {Condition(query[e], tableName, alias) : e \in DOMAIN query}]

Query(query, tableName, alias) ==
    [extras |-> UNION {ExtraTables(query[e], tableName, alias) : e \in DOMAIN query},
     conditions |-> {Condition(query[e], tableName, alias) : e \in DOMAIN query}]

Compile(answer, tableName, alias) ==
    [q \in DOMAIN answer |-> Query(answer[q], tableName, alias)]

(* What a condition calls the tables it is about.                          *)
Names(condition) ==
    {o.table : o \in {x \in {condition.left, condition.right} : x.kind = "column"}}
=============================================================================
