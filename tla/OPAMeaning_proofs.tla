------------------------- MODULE OPAMeaning_proofs -------------------------
(***************************************************************************)
(* Proofs about the statements of OPAFilter and their meaning: what a      *)
(* comparison compiles to is true of the same rows, the walk keeps the     *)
(* statement in shape, every filter that is plugged in stands for a table  *)
(* and every table has its filter, and so the SELECTs find, from the last  *)
(* to the first, what the policies permit.                                 *)
(***************************************************************************)
EXTENDS OPAMeaning, OPACompile_proofs, Recursion

(* What is assumed of the bound and of names, in one place.                *)
LEMMA Constants == MaxSelects \in Nat \ {0} /\ "" \notin Table
  BY FilterAssumption

(* A sequence over its own members, unfolded.                              *)
LEMMA SequenceIs ==
    ASSUME NEW x
    PROVE  IsSequence(x) <=> /\ x = [i \in 1 .. Len(x) |-> x[i]]
                             /\ Len(x) \in Nat
  BY DEF IsSequence, ToSet

LEMMA SequenceOf ==
    ASSUME NEW S, NEW x \in Seq(S)
    PROVE  IsSequence(x) /\ ToSet(x) \subseteq S
  BY DEF IsSequence, ToSet

LEMMA SequenceMade ==
    ASSUME NEW n \in Nat, NEW x, DOMAIN x = 1 .. n, x = [i \in 1 .. n |-> x[i]]
    PROVE  IsSequence(x) /\ Len(x) = n
  BY DEF IsSequence, ToSet

(* What is in a concatenation.                                             *)
LEMMA Concatenation ==
    ASSUME NEW x, NEW y, IsSequence(x), IsSequence(y)
    PROVE  /\ IsSequence(x \o y)
           /\ Len(x \o y) = Len(x) + Len(y)
           /\ DOMAIN (x \o y) = 1 .. Len(x) + Len(y)
           /\ \A i \in DOMAIN x : (x \o y)[i] = x[i]
           /\ \A i \in DOMAIN y : (x \o y)[Len(x) + i] = y[i]
           /\ ToSet(x \o y) = ToSet(x) \cup ToSet(y)
  <1> DEFINE S == ToSet(x) \cup ToSet(y)
             z == x \o y
  <1>1. x \in Seq(S) /\ y \in Seq(S)
    BY DEF IsSequence
  <1>2. /\ z \in Seq(S)
        /\ Len(z) = Len(x) + Len(y)
        /\ DOMAIN z = 1 .. Len(x) + Len(y)
        /\ DOMAIN x = 1 .. Len(x) /\ DOMAIN y = 1 .. Len(y)
        /\ Len(x) \in Nat /\ Len(y) \in Nat
        /\ \A i \in DOMAIN x : z[i] = x[i]
        /\ \A i \in DOMAIN y : z[Len(x) + i] = y[i]
    <2> HIDE DEF S
    <2> QED BY <1>1
  <1> HIDE DEF z
  <1>3. ToSet(z) = S
    <2>1. \A i \in DOMAIN z : i \in DOMAIN x \/ (i - Len(x) \in DOMAIN y /\ i = Len(x) + (i - Len(x)))
      BY <1>2
    <2>2. (\A i \in DOMAIN x : i \in DOMAIN z) /\ (\A i \in DOMAIN y : Len(x) + i \in DOMAIN z)
      BY <1>2
    <2>3. ToSet(z) \subseteq S
      BY <1>2, <2>1 DEF ToSet
    <2>4. S \subseteq ToSet(z)
      BY <1>2, <2>2 DEF ToSet
    <2> QED
      BY <2>3, <2>4
  <1>4. IsSequence(z)
    BY <1>2, SequenceOf
  <1> QED
    BY <1>2, <1>3, <1>4 DEF z

LEMMA Single ==
    ASSUME NEW x
    PROVE  /\ IsSequence(<<x>>) /\ ToSet(<<x>>) = {x} /\ DOMAIN <<x>> = 1 .. 1
           /\ Len(<<x>>) = 1 /\ <<x>>[Len(<<x>>)] = x
  <1> DEFINE s == <<x>>
  <1>1. s \in Seq({x}) /\ Len(s) = 1 /\ s[1] = x /\ DOMAIN s = 1 .. 1
    OBVIOUS
  <1> HIDE DEF s
  <1>2. IsSequence(s)
    BY <1>1, SequenceOf
  <1>3. ToSet(s) = {x}
    BY <1>1 DEF ToSet
  <1> QED
    BY <1>1, <1>2, <1>3 DEF s

LEMMA AllOf ==
    ASSUME NEW S, IsFiniteSet(S)
    PROVE  /\ IsSequence(SetToSeq(S))
           /\ ToSet(SetToSeq(S)) = S
           /\ \A i, j \in DOMAIN SetToSeq(S) : SetToSeq(S)[i] = SetToSeq(S)[j] => i = j
  <1> DEFINE n == Cardinality(S)
  <1>1. n \in Nat /\ ExistsBijection(1 .. n, S)
    BY FS_CardinalityType
  <1>2. PICK f \in Bijection(1 .. n, S) : TRUE
    BY <1>1 DEF ExistsBijection
  <1>3. f \in [1 .. n -> S] /\ IsInjective(f)
    BY <1>2 DEF Bijection, Injection, IsInjective
  <1> DEFINE g == SetToSeq(S)
  <1>4. g \in [1 .. n -> S] /\ IsInjective(g)
    BY <1>3 DEF SetToSeq
  <1> HIDE DEF g
  <1>5. g \in Injection(1 .. n, S)
    BY <1>4 DEF Injection
  <1>6. IsFiniteSet(1 .. n) /\ Cardinality(1 .. n) = n
    BY <1>1, FS_Interval
  <1>7. g \in Surjection(1 .. n, S)
    BY <1>5, <1>6, FS_Injection
  <1>8. \A s \in S : \E i \in 1 .. n : g[i] = s
    BY <1>7 DEF Surjection
  <1>9. g \in Seq(S)
    BY <1>1, <1>4
  <1> QED
    BY <1>1, <1>4, <1>8, <1>9, SequenceOf DEF IsInjective, ToSet, g
-----------------------------------------------------------------------------
(* The name that a term for an operator gives it.                          *)
Text(term) == IF term.type = "ref" THEN Ref(term)[1].value ELSE term.value

(* Compiled terms, field by field.                                         *)
LEMMA NamedFields ==
    ASSUME NEW r, NEW kind, NEW t, NEW n, r = Named(kind, t, n)
    PROVE  r.kind = kind /\ r.table = t /\ r.name = n
  BY DEF Named

LEMMA OperatorFields ==
    ASSUME NEW r, NEW n, r = Named("operator", "", n)
    PROVE  r.kind = "operator" /\ r.name = n
  BY DEF Named

LEMMA ValueFields ==
    ASSUME NEW r, NEW v, r = Value(v)
    PROVE  r.kind = "value" /\ r.value = v
  BY DEF Value

(* Operators and the root of all references, by name.                      *)
LEMMA Vars ==
    /\ \A name \in DOMAIN Symbol : CompileVar(name) = Named("operator", "", <<Symbol[name]>>)
    /\ CompileVar("data") = Named("unknown", "", <<"data">>)
  <1>1. DOMAIN Symbol = {"eq", "equal", "neq", "lt", "lte", "gt", "gte"}
    BY DEF Symbol
  <1>2. \A name \in DOMAIN Symbol : name # "data"
    BY <1>1
  <1> QED
    BY <1>2 DEF CompileVar

LEMMA Items ==
    ASSUME NEW term
    PROVE  /\ term.type \in Simple => CompileItem(term) = Value(term.value)
           /\ term.type = "var" => CompileItem(term) = CompileVar(term.value)
  BY DEF CompileItem, Simple

(* Each of the three kinds of terms compiles to what it stands for.        *)
LEMMA OperatorCompiles ==
    ASSUME NEW term, NEW tableName, NEW alias, IsTerm(term), IsOperator(term)
    PROVE  CompileTerm(term, tableName, alias) = Named("operator", "", <<Symbol[Text(term)]>>)
  <1>1. CASE term.type = "var"
    BY <1>1, Vars, Items DEF IsOperator, CompileTerm, InQuotes, Text
  <1>2. CASE term.type = "ref"
    <2> DEFINE ref == Ref(term)
               parts == [i \in DOMAIN ref |-> CompileItem(ref[i])]
               first == ref[1]
               part  == parts[1]
    <2>1. DOMAIN ref = 1 .. 1 /\ Len(ref) = 1
      BY <1>2, SequenceIs DEF IsOperator, IsTerm, Ref
    <2>2. first.type = "var" /\ first.value \in DOMAIN Symbol /\ Text(term) = first.value
      BY <1>2 DEF IsOperator, Text
    <2>3. part = CompileItem(first) /\ DOMAIN parts = 1 .. 1 /\ Len(parts) = 1
      BY <2>1
    <2>4. CompileTerm(term, tableName, alias) = Refer(parts, tableName, alias)
      BY <1>2 DEF CompileTerm, InQuotes, CompileRef, Ref
    <2>5. \A i \in 1 .. 1 : parts[i] = part
      OBVIOUS
    <2> HIDE DEF first, part, parts, ref
    <2>6. part = Named("operator", "", <<Symbol[Text(term)]>>)
      BY <2>2, <2>3, Vars, Items, Zenon
    <2>7. part.kind = "operator"
      BY <2>6, OperatorFields, Zenon
    <2>8. Refer(parts, tableName, alias) = part
      BY <2>3, <2>5, <2>7 DEF Refer
    <2> QED
      BY <2>4, <2>6, <2>8, Zenon
  <1> QED
    BY <1>1, <1>2 DEF IsOperator

LEMMA ColumnCompiles ==
    ASSUME NEW term, NEW tableName, NEW alias, IsTerm(term), IsColumn(term)
    PROVE  CompileTerm(term, tableName, alias)
              = Named("column", ByAlias(Ref(term)[3].value, tableName, alias), <<Ref(term)[4].value>>)
  <1> DEFINE ref == Ref(term)
             parts == [i \in DOMAIN ref |-> CompileItem(ref[i])]
             r1 == ref[1]  r2 == ref[2]  r3 == ref[3]  r4 == ref[4]
             p1 == parts[1]  p2 == parts[2]  p3 == parts[3]  p4 == parts[4]
  <1>1. DOMAIN ref = 1 .. 4 /\ Len(ref) = 4
    BY SequenceIs DEF IsColumn, IsTerm, Ref
  <1>2. /\ r1.type = "var" /\ r1.value = "data" /\ r2.value = "tables"
        /\ r2.type = "string" /\ r3.type = "string" /\ r4.type = "string"
    BY DEF IsColumn
  <1>3. /\ DOMAIN parts = 1 .. 4 /\ Len(parts) = 4
        /\ p1 = CompileItem(r1) /\ p2 = CompileItem(r2) /\ p3 = CompileItem(r3) /\ p4 = CompileItem(r4)
    BY <1>1
  <1>4. \A i \in 1 .. 4 : parts[i] \in {p1, p2, p3, p4}
    OBVIOUS
  <1>5. parts[1] = p1 /\ parts[2] = p2 /\ parts[3] = p3 /\ parts[4] = p4
    OBVIOUS
  <1>6. CompileTerm(term, tableName, alias) = Refer(parts, tableName, alias)
    BY DEF IsColumn, CompileTerm, InQuotes, CompileRef, Ref
  <1>7. ref[3] = r3 /\ ref[4] = r4
    OBVIOUS
  <1>8. "string" \in Simple
    BY DEF Simple
  <1> HIDE DEF r1, r2, r3, r4, p1, p2, p3, p4, parts, ref
  <1>9. /\ p1 = Named("unknown", "", <<"data">>)
        /\ p2 = Value(r2.value) /\ p3 = Value(r3.value) /\ p4 = Value(r4.value)
    BY <1>2, <1>3, <1>8, Vars, Items, Zenon
  <1>10. /\ p1.kind = "unknown" /\ p2.kind = "value" /\ p3.kind = "value" /\ p4.kind = "value"
         /\ p2.value = r2.value /\ p3.value = r3.value /\ p4.value = r4.value
    <2>1. p1.kind = "unknown"
      BY <1>9, NamedFields, Zenon
    <2> QED
      BY <1>9, <2>1, ValueFields, Zenon
  <1>11. \A i \in DOMAIN parts : parts[i].kind # "error"
    BY <1>3, <1>4, <1>10
  <1>12. [i \in 1 .. Len(parts) - 3 |-> parts[i + 3].value] = <<r4.value>>
    BY <1>3, <1>5, <1>10
  <1>13. Refer(parts, tableName, alias)
          = Named("column", ByAlias(parts[3].value, tableName, alias), <<r4.value>>)
    BY <1>2, <1>3, <1>5, <1>10, <1>11, <1>12 DEF Refer
  <1> QED
    BY <1>5, <1>6, <1>7, <1>10, <1>13, Zenon DEF ref

LEMMA ValueCompiles ==
    ASSUME NEW term, NEW tableName, NEW alias, IsValue(term)
    PROVE  CompileTerm(term, tableName, alias) = Value(term.value)
  BY DEF IsValue, CompileTerm, CompileItem, Simple

LEMMA CompiledColumn ==
    ASSUME NEW term, NEW tableName, NEW alias, IsTerm(term), IsColumn(term)
    PROVE  LET ct == CompileTerm(term, tableName, alias)
           IN  /\ ct.kind = "column"
               /\ ct.table = ByAlias(Ref(term)[3].value, tableName, alias)
               /\ ct.name = <<Ref(term)[4].value>>
  <1> DEFINE r == CompileTerm(term, tableName, alias)
             t == ByAlias(Ref(term)[3].value, tableName, alias)
             n == <<Ref(term)[4].value>>
  <1>1. r = Named("column", t, n)
    BY ColumnCompiles
  <1> HIDE DEF r, t, n
  <1>2. r.kind = "column" /\ r.table = t /\ r.name = n
    BY <1>1 DEF Named
  <1> QED
    BY <1>2 DEF r, t, n

LEMMA CompiledValue ==
    ASSUME NEW term, NEW tableName, NEW alias, IsValue(term)
    PROVE  LET ct == CompileTerm(term, tableName, alias)
           IN  ct.kind = "value" /\ ct.value = term.value
  <1> DEFINE r == CompileTerm(term, tableName, alias)
  <1>1. r = Value(term.value)
    BY ValueCompiles
  <1> HIDE DEF r
  <1>2. r.kind = "value" /\ r.value = term.value
    BY <1>1 DEF Value
  <1> QED
    BY <1>2 DEF r

LEMMA CompiledOperator ==
    ASSUME NEW term, NEW tableName, NEW alias, IsTerm(term), IsOperator(term)
    PROVE  LET ct == CompileTerm(term, tableName, alias)
           IN  ct.kind = "operator" /\ ct.name = <<Symbol[Text(term)]>>
  <1> DEFINE r == CompileTerm(term, tableName, alias)
             n == <<Symbol[Text(term)]>>
  <1>1. r = Named("operator", "", n)
    BY OperatorCompiles
  <1> HIDE DEF r, n
  <1>2. r.kind = "operator" /\ r.name = n
    BY <1>1 DEF Named
  <1> QED
    BY <1>2 DEF r, n

(* No term is of two kinds.                                                *)
LEMMA OneKind ==
    ASSUME NEW term
    PROVE  /\ ~ (IsValue(term) /\ IsColumn(term))
           /\ ~ (IsValue(term) /\ IsOperator(term))
           /\ ~ (IsColumn(term) /\ IsOperator(term))
  BY DEF IsValue, IsColumn, IsOperator, Simple, Ref

(* An expression as the agent sends it.                                    *)
IsExpression(e) == IsSequence(e.terms) /\ \A t \in ToSet(e.terms) : IsTerm(t)

(* A comparison finds its three places.  The operands change sides in the  *)
(* text only if that does not put a value on the left: of two columns, or  *)
(* a value with a column.                                                  *)
LEMMA WellFormedCompiles ==
    ASSUME NEW e, NEW tableName, NEW alias, IsExpression(e), WellFormed(e)
    PROVE  LET ts == CompileTerms(e, tableName, alias)
               c  == Condition(e, tableName, alias)
           IN  /\ DOMAIN e.terms = 1 .. 3
               /\ Fits(ts)
               /\ c.op = Operator(e) /\ c.negated = e.negated
               /\ \/ /\ c.left = CompileTerm(Left(e), tableName, alias)
                     /\ c.right = CompileTerm(Right(e), tableName, alias)
                  \/ /\ c.left = CompileTerm(Right(e), tableName, alias)
                     /\ c.right = CompileTerm(Left(e), tableName, alias)
                     /\ ~ (IsColumn(Left(e)) /\ IsValue(Right(e)))
               /\ \A term \in {Left(e), Right(e)} : IsTerm(term) /\ (IsColumn(term) \/ IsValue(term))
  <1> DEFINE ts == CompileTerms(e, tableName, alias)
             m == Middle(e)
             l == IF m = 1 THEN 2 ELSE 1
             r == IF m = 3 THEN 2 ELSE 3
             C(i) == CompileTerm(e.terms[i], tableName, alias)
  <1>1. /\ DOMAIN e.terms = 1 .. 3 /\ Len(e.terms) = 3
        /\ \A i \in 1 .. 3 : IsTerm(e.terms[i])
    BY SequenceIs DEF IsExpression, WellFormed, ToSet
  <1>2. PICK k \in 1 .. 3 : /\ IsOperator(e.terms[k])
                            /\ \A j \in 1 .. 3 \ {k} : IsColumn(e.terms[j]) \/ IsValue(e.terms[j])
    BY DEF WellFormed
  <1>3. \A i \in 1 .. 3 : IsOperator(e.terms[i]) => i = k
    BY <1>2, OneKind
  <1>4. m = k
    BY <1>2, <1>3 DEF Middle
  <1>5. \A i \in 1 .. 3 : /\ IsOperator(e.terms[i]) => C(i).kind = "operator" /\ C(i).name[1] = Symbol[Text(e.terms[i])]
                          /\ IsColumn(e.terms[i])   => C(i).kind = "column"
                          /\ IsValue(e.terms[i])    => C(i).kind = "value"
    <2> SUFFICES ASSUME NEW i \in 1 .. 3
                 PROVE  /\ IsOperator(e.terms[i]) => C(i).kind = "operator" /\ C(i).name[1] = Symbol[Text(e.terms[i])]
                        /\ IsColumn(e.terms[i])   => C(i).kind = "column"
                        /\ IsValue(e.terms[i])    => C(i).kind = "value"
      OBVIOUS
    <2> DEFINE term == e.terms[i]
               ct == CompileTerm(term, tableName, alias)
               symbol == Symbol[Text(term)]
    <2>1. IsTerm(term)
      BY <1>1
    <2>2. IsOperator(term) => ct.kind = "operator" /\ ct.name = <<symbol>>
      BY <2>1, CompiledOperator
    <2>3. IsColumn(term) => ct.kind = "column"
      BY <2>1, CompiledColumn
    <2>4. IsValue(term) => ct.kind = "value"
      BY <2>1, CompiledValue
    <2> HIDE DEF term, ct, symbol
    <2>5. IsOperator(term) => ct.name[1] = symbol
      BY <2>2
    <2> QED
      BY <2>2, <2>3, <2>4, <2>5 DEF term, ct, symbol
  <1>6. DOMAIN ts = 1 .. 3 /\ Len(ts) = 3 /\ \A i \in 1 .. 3 : ts[i] = C(i)
    BY <1>1 DEF CompileTerms
  <1>7. /\ m \in 1 .. 3 /\ l \in 1 .. 3 /\ r \in 1 .. 3
        /\ l < r /\ m # l /\ m # r /\ \A i \in 1 .. 3 : i \in {m, l, r}
    BY <1>4
  <1>8. /\ IsOperator(e.terms[m])
        /\ IsColumn(e.terms[l]) \/ IsValue(e.terms[l])
        /\ IsColumn(e.terms[r]) \/ IsValue(e.terms[r])
        /\ IsColumn(e.terms[l]) \/ IsColumn(e.terms[r])
    BY <1>2, <1>3, <1>4, <1>7, OneKind DEF WellFormed
  <1> HIDE DEF m, l, r, ts, C
  <1>9. /\ ts[m].kind = "operator"
        /\ ts[l].kind \in {"column", "value"} /\ ts[r].kind \in {"column", "value"}
        /\ ts[l].kind = "column" <=> IsColumn(e.terms[l])
        /\ ts[r].kind = "column" <=> IsColumn(e.terms[r])
        /\ ts[l].kind = "column" \/ ts[r].kind = "column"
    BY <1>5, <1>6, <1>7, <1>8
  <1>10. Index(ts, m) = 1
    BY <1>9 DEF Index
  <1>11. CASE ts[r].kind = "value"
    <2>1. Index(ts, r) = 2 /\ Index(ts, l) = 0
      BY <1>6, <1>7, <1>9, <1>11 DEF Index
    <2>2. Fits(ts)
      BY <1>6, <1>7, <1>9, <1>10, <2>1 DEF Fits
    <2>3. At(ts, 0) = ts[l] /\ At(ts, 1) = ts[m] /\ At(ts, 2) = ts[r]
      BY <1>6, <1>7, <1>10, <2>1 DEF At
    <2> QED
      BY <1>1, <1>5, <1>6, <1>7, <1>8, <2>2, <2>3 DEF Condition, ts, m, l, r, C, Left, Right, Operator, Text
  <1>12. CASE ts[r].kind = "column"
    <2>1. Index(ts, l) = 2 /\ Index(ts, r) = 0
      <3>1. CASE ts[l].kind = "value"
        BY <1>6, <1>7, <1>9, <1>12, <3>1 DEF Index
      <3>2. CASE ts[l].kind = "column"
        <4>1. \A j \in 1 .. 3 : ts[j].kind # "value"
          BY <1>7, <1>9, <1>12, <3>2
        <4>2. \A j \in 1 .. l - 1 : ts[j].kind # "column"
          BY <1>7, <1>9
        <4>3. l \in 1 .. r - 1
          BY <1>7
        <4> QED
          BY <1>6, <1>12, <3>2, <4>1, <4>2, <4>3 DEF Index
      <3> QED
        BY <1>9, <3>1, <3>2
    <2>2. Fits(ts)
      BY <1>6, <1>7, <1>9, <1>10, <2>1 DEF Fits
    <2>3. At(ts, 0) = ts[r] /\ At(ts, 1) = ts[m] /\ At(ts, 2) = ts[l]
      BY <1>6, <1>7, <1>10, <2>1 DEF At
    <2>4. ~ IsValue(e.terms[r])
      BY <1>9, <1>12, OneKind
    <2> QED
      BY <1>1, <1>5, <1>6, <1>7, <1>8, <2>2, <2>3, <2>4 DEF Condition, ts, m, l, r, C, Left, Right, Operator, Text
  <1> QED
    BY <1>9, <1>11, <1>12

(* The database finds under the name in the text what the term speaks of.  *)
LEMMA OperandDenotes ==
    ASSUME NEW term, NEW tableName, NEW alias, NEW scope, NEW rows,
           IsTerm(term), IsColumn(term) \/ IsValue(term),
           IsColumn(term) =>
              scope[ByAlias(Ref(term)[3].value, tableName, alias)] = rows[Ref(term)[3].value]
    PROVE  Operand(CompileTerm(term, tableName, alias), scope) = Denotes(term, rows)
  <1> DEFINE ct == CompileTerm(term, tableName, alias)
             third == Ref(term)[3].value
             fourth == Ref(term)[4].value
             named == ByAlias(third, tableName, alias)
  <1>1. CASE IsColumn(term)
    <2>1. ct.kind = "column" /\ ct.table = named /\ ct.name = <<fourth>>
      BY <1>1, CompiledColumn
    <2>2. scope[named] = rows[third] /\ Denotes(term, rows) = rows[third][fourth]
      BY <1>1 DEF Denotes
    <2> HIDE DEF ct, third, fourth, named
    <2>3. ct.name[1] = fourth
      BY <2>1
    <2> QED
      BY <2>1, <2>2, <2>3 DEF Operand, ct
  <1>2. CASE IsValue(term)
    <2>1. ct.kind = "value" /\ ct.value = term.value
      BY <1>2, CompiledValue
    <2>2. ~ IsColumn(term)
      BY <1>2, OneKind
    <2> HIDE DEF ct
    <2> QED
      BY <2>1, <2>2 DEF Operand, Denotes, ct
  <1> QED
    BY <1>1, <1>2

(* Only an order comparison minds the sides.                               *)
LEMMA EqualityTurns ==
    ASSUME NEW op \in {"=", "!="}, NEW x, NEW y
    PROVE  Compare(op, x, y) = Compare(op, y, x)
  <1>1. CASE op = "="
    BY <1>1 DEF Compare
  <1>2. CASE op = "!="
    BY <1>2 DEF Compare
  <1> QED
    BY <1>1, <1>2

(* The text a comparison is compiled to (opa.go 83-119, 421-453) is true   *)
(* of the rows the comparison is true of, provided it does not have to be  *)
(* turned round and compares no string with a quote in it, which opa.go    *)
(* 131 does not escape: names are those of the FROM, the flag that negates *)
(* is kept, and values and columns get to the sides the operator means.    *)
THEOREM ConditionsMean ==
    ASSUME NEW e, NEW tableName, NEW alias, NEW scope, NEW rows,
           IsExpression(e), WellFormed(e), Oriented(e),
           \A term \in {Left(e), Right(e)} : IsColumn(term) =>
              scope[ByAlias(Ref(term)[3].value, tableName, alias)] = rows[Ref(term)[3].value]
    PROVE  True(Condition(e, tableName, alias), scope) <=> Means(e, rows)
  <1> DEFINE c == Condition(e, tableName, alias)
             l == CompileTerm(Left(e), tableName, alias)
             r == CompileTerm(Right(e), tableName, alias)
  <1>1. /\ c.op = Operator(e) /\ c.negated = e.negated
        /\ \/ c.left = l /\ c.right = r
           \/ c.left = r /\ c.right = l /\ ~ (IsColumn(Left(e)) /\ IsValue(Right(e)))
        /\ \A term \in {Left(e), Right(e)} : IsTerm(term) /\ (IsColumn(term) \/ IsValue(term))
    BY WellFormedCompiles
  <1>2. Operand(l, scope) = Denotes(Left(e), rows) /\ Operand(r, scope) = Denotes(Right(e), rows)
    BY <1>1, OperandDenotes
  <1> HIDE DEF c, l, r
  <1>3. CASE c.left = l /\ c.right = r
    BY <1>1, <1>2, <1>3 DEF True, Means, c
  <1>4. CASE c.left = r /\ c.right = l /\ ~ (IsColumn(Left(e)) /\ IsValue(Right(e)))
    <2>1. Operator(e) \in {"=", "!="}
      BY <1>4 DEF Oriented
    <2>2. Compare(c.op, Operand(c.left, scope), Operand(c.right, scope))
            = Compare(Operator(e), Denotes(Left(e), rows), Denotes(Right(e), rows))
      BY <1>1, <1>2, <1>4, <2>1, EqualityTurns
    <2> QED
      BY <1>1, <2>2 DEF True, Means, c
  <1> QED
    BY <1>1, <1>3, <1>4
-----------------------------------------------------------------------------
(* How the terms of a comparison compile, in one place.                    *)
LEMMA TermsCompile ==
    ASSUME NEW term, NEW tableName, NEW alias, IsTerm(term),
           IsOperator(term) \/ IsColumn(term) \/ IsValue(term)
    PROVE  LET ct == CompileTerm(term, tableName, alias)
           IN  /\ ct.kind = "column" <=> IsColumn(term)
               /\ IsColumn(term) => /\ ct.table = ByAlias(Ref(term)[3].value, tableName, alias)
                                    /\ ct.name # <<>>
                                    /\ Ref(term)[3].value \in Table
  <1>1. CASE IsColumn(term)
    <2> DEFINE fourth == Ref(term)[4].value
    <2>1. <<fourth>> # <<>> /\ Ref(term)[3].value \in Table
      BY <1>1 DEF IsColumn
    <2> QED
      BY <1>1, <2>1, CompiledColumn
  <1>2. CASE IsValue(term)
    BY <1>2, CompiledValue, OneKind
  <1>3. CASE IsOperator(term)
    BY <1>3, CompiledOperator, OneKind
  <1> QED
    BY <1>1, <1>2, <1>3

LEMMA WellFormedTerms ==
    ASSUME NEW e, IsExpression(e), WellFormed(e)
    PROVE  /\ DOMAIN e.terms = 1 .. 3
           /\ \A i \in 1 .. 3 : /\ IsTerm(e.terms[i])
                                /\ \/ IsOperator(e.terms[i])
                                   \/ IsColumn(e.terms[i])
                                   \/ IsValue(e.terms[i])
           /\ \E i, j \in 1 .. 3 : Left(e) = e.terms[i] /\ Right(e) = e.terms[j]
  <1>1. DOMAIN e.terms = 1 .. 3 /\ \A i \in 1 .. 3 : IsTerm(e.terms[i])
    BY SequenceIs DEF IsExpression, WellFormed, ToSet
  <1>2. \A i \in 1 .. 3 : \/ IsOperator(e.terms[i])
                          \/ IsColumn(e.terms[i])
                          \/ IsValue(e.terms[i])
    BY DEF WellFormed
  <1>3. \E i, j \in 1 .. 3 : Left(e) = e.terms[i] /\ Right(e) = e.terms[j]
    BY DEF Left, Right
  <1> QED
    BY <1>1, <1>2, <1>3

(* The tables an expression speaks of.                                     *)
Columns(e) == {Ref(t)[3].value : t \in {u \in ToSet(e.terms) : IsColumn(u)}}

LEMMA ColumnsAt ==
    ASSUME NEW e, IsExpression(e), WellFormed(e)
    PROVE  /\ Columns(e) = {Ref(e.terms[i])[3].value : i \in {j \in 1 .. 3 : IsColumn(e.terms[j])}}
           /\ Columns(e) \subseteq Table
           /\ \A term \in {Left(e), Right(e)} : IsColumn(term) => Ref(term)[3].value \in Columns(e)
  <1>1. DOMAIN e.terms = 1 .. 3
    BY WellFormedTerms
  <1>2. ToSet(e.terms) = {e.terms[i] : i \in 1 .. 3}
    BY <1>1 DEF ToSet
  <1>3. Columns(e) = {Ref(e.terms[i])[3].value : i \in {j \in 1 .. 3 : IsColumn(e.terms[j])}}
    BY <1>2 DEF Columns
  <1>4. \A t : IsColumn(t) => Ref(t)[3].value \in Table
    BY DEF IsColumn
  <1>5. Columns(e) \subseteq Table
    BY <1>4 DEF Columns
  <1>6. Left(e) \in ToSet(e.terms) /\ Right(e) \in ToSet(e.terms)
    BY <1>2, WellFormedTerms
  <1> QED
    BY <1>3, <1>5, <1>6 DEF Columns

(* Its extra tables are those that are not the one asked about.            *)
LEMMA ExtrasOf ==
    ASSUME NEW e, NEW tableName \in Table, NEW alias, IsExpression(e), WellFormed(e)
    PROVE  /\ ExtraTables(e, tableName, alias) \subseteq Columns(e) \ {tableName}
           /\ alias \notin Table =>
                 ExtraTables(e, tableName, alias) = Columns(e) \ {tableName}
  <1> DEFINE ts == CompileTerms(e, tableName, alias)
             T(i) == Ref(e.terms[i])[3].value
  <1>1. /\ DOMAIN e.terms = 1 .. 3
        /\ Columns(e) = {T(i) : i \in {j \in 1 .. 3 : IsColumn(e.terms[j])}}
        /\ Columns(e) \subseteq Table
    BY WellFormedTerms, ColumnsAt
  <1>2. \A i \in 1 .. 3 : /\ ts[i].kind = "column" <=> IsColumn(e.terms[i])
                          /\ IsColumn(e.terms[i]) => ts[i].table = ByAlias(T(i), tableName, alias)
    <2>1. \A i \in 1 .. 3 : ts[i] = CompileTerm(e.terms[i], tableName, alias)
      BY <1>1 DEF CompileTerms
    <2> QED
      BY <2>1, WellFormedTerms, TermsCompile
  <1>3. DOMAIN ts = 1 .. 3
    BY <1>1 DEF CompileTerms
  <1>4. ExtraTables(e, tableName, alias)
          = {ts[i].table : i \in {j \in 1 .. 3 : ts[j].kind = "column"}} \ {tableName, alias}
    BY <1>3 DEF ExtraTables
  <1> HIDE DEF ts, T
  <1>5. ASSUME NEW x \in ExtraTables(e, tableName, alias)
        PROVE  x \in Columns(e) \ {tableName}
    <2>1. PICK i \in 1 .. 3 : /\ IsColumn(e.terms[i]) /\ x = ByAlias(T(i), tableName, alias)
                              /\ x # tableName /\ x # alias
      BY <1>2, <1>4, <1>5
    <2>2. x = T(i)
      BY <2>1 DEF ByAlias
    <2> QED
      BY <1>1, <2>1, <2>2
  <1>6. ASSUME alias \notin Table, NEW x \in Columns(e) \ {tableName}
        PROVE  x \in ExtraTables(e, tableName, alias)
    <2>1. PICK i \in 1 .. 3 : IsColumn(e.terms[i]) /\ x = T(i) /\ x \in Table
      BY <1>1, <1>6
    <2>2. ts[i].table = x /\ ts[i].kind = "column" /\ x # tableName /\ x # alias
      BY <1>2, <1>6, <2>1 DEF ByAlias
    <2> QED
      BY <1>4, <2>2
  <1> QED
    BY <1>5, <1>6
-----------------------------------------------------------------------------
(* What is in a flattened sequence of sequences.                           *)
LEMMA FlattenMembers ==
    ASSUME NEW S, NEW seqs \in Seq(Seq(S))
    PROVE  ToSet(FlattenSeq(seqs)) = UNION {ToSet(seqs[i]) : i \in 1 .. Len(seqs)}
  <1> DEFINE N == Len(seqs)
             V == Seq(S)
             f == Flattening(seqs)
             G(n) == UNION {ToSet(seqs[i]) : i \in 1 .. n}
             T == {n \in 0 .. N : n = 0 \/ ToSet(f[n]) = G(n)}
  <1>1. N \in Nat /\ \A i \in 1 .. N : seqs[i] \in V
    OBVIOUS
  <1>2. \A i \in 1 .. N : f[i] = IF i = 1 THEN seqs[i] ELSE f[i - 1] \o seqs[i]
    BY FlattenStep
  <1>3. \A i \in 1 .. N : f[i] \in V
    BY FlattenType
  <1>4. \A x \in V : IsSequence(x)
    BY SequenceOf
  <1>5. seqs # <<>> => FlattenSeq(seqs) = f[N] /\ N # 0
    BY FlattenIs
  <1>6. seqs = <<>> => FlattenSeq(seqs) = <<>> /\ N = 0
    BY FlattenEmpty
  <1> HIDE DEF N, V, f
  <1>7. ASSUME NEW n \in 0 .. N - 1, n \in T
        PROVE  n + 1 \in T
    <2>1. n + 1 \in 1 .. N /\ (n + 1) - 1 = n /\ n + 1 \in 0 .. N
      BY <1>1
    <2>2. f[n + 1] = IF n = 0 THEN seqs[n + 1] ELSE f[n] \o seqs[n + 1]
      BY <1>2, <2>1
    <2>3. G(n + 1) = G(n) \cup ToSet(seqs[n + 1])
      <3>1. 1 .. n + 1 = (1 .. n) \cup {n + 1}
        BY <1>1
      <3> QED
        BY <3>1
    <2>4. CASE n = 0
      <3>1. G(n) = {}
        BY <2>4
      <3> HIDE DEF G
      <3> QED
        BY <2>1, <2>2, <2>3, <2>4, <3>1
    <2>5. CASE n # 0
      <3>1. n \in 1 .. N
        BY <1>1, <2>5
      <3>2. IsSequence(f[n]) /\ IsSequence(seqs[n + 1])
        BY <1>1, <1>3, <1>4, <2>1, <3>1
      <3>3. ToSet(f[n] \o seqs[n + 1]) = ToSet(f[n]) \cup ToSet(seqs[n + 1])
        BY <3>2, Concatenation
      <3>4. ToSet(f[n]) = G(n)
        BY <1>7, <2>5
      <3>5. ToSet(f[n + 1]) = G(n + 1)
        BY <2>2, <2>3, <2>5, <3>3, <3>4
      <3> QED
        BY <2>1, <3>5
    <2> QED
      BY <2>4, <2>5
  <1>8. 0 .. N \subseteq T
    <2>1. 0 \in T
      BY <1>1
    <2> HIDE DEF T
    <2> QED
      BY <1>1, <1>7, <2>1, IntervalInduction
  <1>9. CASE N = 0
    <2>1. seqs = <<>>
      BY <1>9 DEF N
    <2>2. ToSet(<<>>) = {} /\ G(N) = {}
      BY <1>9 DEF ToSet
    <2> QED
      BY <1>6, <2>1, <2>2 DEF N
  <1>10. CASE N # 0
    <2>1. N \in 0 .. N
      BY <1>1
    <2>2. ToSet(f[N]) = G(N)
      BY <1>8, <1>10, <2>1
    <2>3. seqs # <<>>
      BY <1>6, <1>10
    <2> QED
      BY <1>5, <2>2, <2>3 DEF N
  <1> QED
    BY <1>9, <1>10
-----------------------------------------------------------------------------
(* What any answer compiles to.                                            *)
LEMMA ColumnsOfTables ==
    ASSUME NEW term, NEW tableName, NEW alias, IsTerm(term),
           CompileTerm(term, tableName, alias).kind = "column"
    PROVE  \E x \in Table : CompileTerm(term, tableName, alias).table = ByAlias(x, tableName, alias)
  <1> DEFINE ref == term.value
             third == ref[3]
             parts == [i \in DOMAIN ref |-> CompileItem(ref[i])]
             part == parts[3]
  <1>1. term.type = "ref" /\ CompileTerm(term, tableName, alias) = Refer(parts, tableName, alias)
    BY ItemIsNoColumn DEF CompileTerm, CompileRef, InQuotes
  <1>2. Failed.kind = "error"
    BY DEF Failed, Named
  <1>3. \/ Len(parts) >= 3 /\ parts[1].kind = "unknown" /\ parts[2].value = "tables"
        \/ \E i \in DOMAIN parts : Refer(parts, tableName, alias) = parts[i]
    BY <1>1, <1>2 DEF Refer
  <1>4. \A i \in DOMAIN parts : parts[i].kind # "column"
    BY ItemIsNoColumn
  <1>5. Len(parts) >= 3 /\ parts[1].kind = "unknown" /\ parts[2].value = "tables"
    BY <1>1, <1>3, <1>4
  <1>6. DOMAIN ref = 1 .. Len(ref) /\ Len(ref) \in Nat
    BY <1>1, SequenceIs DEF IsTerm
  <1>7. /\ Len(parts) = Len(ref) /\ 3 \in DOMAIN ref
        /\ parts[1] = CompileItem(ref[1]) /\ parts[2] = CompileItem(ref[2])
    BY <1>5, <1>6
  <1>8. third.type \in Simple /\ third.value \in Table
    BY <1>1, <1>5, <1>7 DEF IsTerm
  <1>9. part = CompileItem(third)
    BY <1>7
  <1>10. Refer(parts, tableName, alias).table = ByAlias(part.value, tableName, alias)
    BY <1>1, ColumnOfItsTable
  <1> HIDE DEF third, part, parts
  <1>11. part = Value(third.value)
    BY <1>8, <1>9, Items
  <1>12. part.value = third.value
    BY <1>11 DEF Value
  <1> QED
    BY <1>1, <1>8, <1>10, <1>12

(* An expression that compiles has three terms.                            *)
LEMMA ThreeTerms ==
    ASSUME NEW e, NEW tableName, NEW alias, IsExpression(e),
           Fits(CompileTerms(e, tableName, alias))
    PROVE  /\ DOMAIN e.terms = 1 .. 3
           /\ \A i \in 1 .. 3 : IsTerm(e.terms[i])
           /\ DOMAIN CompileTerms(e, tableName, alias) = 1 .. 3
           /\ \A i \in 1 .. 3 : CompileTerms(e, tableName, alias)[i]
                                   = CompileTerm(e.terms[i], tableName, alias)
  <1>1. DOMAIN e.terms = 1 .. Len(e.terms) /\ Len(e.terms) \in Nat
    BY SequenceIs DEF IsExpression
  <1>2. Len(CompileTerms(e, tableName, alias)) = Len(e.terms)
    BY <1>1 DEF CompileTerms
  <1>3. Len(e.terms) = 3
    BY <1>2 DEF Fits
  <1> QED
    BY <1>1, <1>3 DEF CompileTerms, IsExpression, ToSet

(* Finiteness of what answers list.                                        *)
LEMMA IntervalsAreFinite ==
    ASSUME NEW n \in Nat
    PROVE  IsFiniteSet(1 .. n)
  BY FS_Interval

LEMMA ImageIsFinite ==
    ASSUME NEW S, IsFiniteSet(S), NEW f
    PROVE  IsFiniteSet({f[x] : x \in S})
  <1> DEFINE T == {f[x] : x \in S}
             g == [x \in S |-> f[x]]
  <1>1. g \in Surjection(S, T)
    BY DEF Surjection
  <1> QED
    BY <1>1, FS_Surjection

(* An expression speaks of the table asked about, as the statement calls   *)
(* it, and of its extra tables.                                            *)
LEMMA ExpressionNames ==
    ASSUME NEW e, NEW tableName \in Table, NEW alias, IsExpression(e),
           Fits(CompileTerms(e, tableName, alias))
    PROVE  /\ ExtraTables(e, tableName, alias) \subseteq Table \ {tableName}
           /\ IsFiniteSet(ExtraTables(e, tableName, alias))
           /\ Names(Condition(e, tableName, alias))
                 \subseteq ExtraTables(e, tableName, alias) \cup {Known(tableName, alias)}
  <1> DEFINE ts == CompileTerms(e, tableName, alias)
  <1>1. /\ DOMAIN ts = 1 .. 3 /\ DOMAIN e.terms = 1 .. 3
        /\ \A i \in 1 .. 3 : ts[i] = CompileTerm(e.terms[i], tableName, alias) /\ IsTerm(e.terms[i])
    <2>1. /\ DOMAIN e.terms = 1 .. 3
          /\ \A i \in 1 .. 3 : IsTerm(e.terms[i])
          /\ DOMAIN ts = 1 .. 3
          /\ \A i \in 1 .. 3 : ts[i] = CompileTerm(e.terms[i], tableName, alias)
      BY ThreeTerms
    <2> HIDE DEF ts
    <2> QED
      BY <2>1
  <1>2. \A i \in 1 .. 3 : ts[i].kind = "column" =>
           \E x \in Table : ts[i].table = ByAlias(x, tableName, alias)
    <2> DEFINE C(i) == CompileTerm(e.terms[i], tableName, alias)
    <2>1. \A i \in 1 .. 3 : C(i).kind = "column" =>
             \E x \in Table : C(i).table = ByAlias(x, tableName, alias)
      <3> SUFFICES ASSUME NEW i \in 1 .. 3, C(i).kind = "column"
                   PROVE  \E x \in Table : C(i).table = ByAlias(x, tableName, alias)
        OBVIOUS
      <3> DEFINE term == e.terms[i]
      <3>1. IsTerm(term) /\ CompileTerm(term, tableName, alias).kind = "column"
        BY <1>1
      <3> HIDE DEF term
      <3>2. \E x \in Table : CompileTerm(term, tableName, alias).table = ByAlias(x, tableName, alias)
        BY <3>1, ColumnsOfTables
      <3> QED
        BY <3>2 DEF term
    <2>2. \A i \in 1 .. 3 : ts[i] = C(i)
      BY <1>1
    <2> HIDE DEF ts, C
    <2> QED
      BY <2>1, <2>2
  <1>3. ExtraTables(e, tableName, alias)
          = {ts[i].table : i \in {j \in 1 .. 3 : ts[j].kind = "column"}} \ {tableName, alias}
    BY <1>1 DEF ExtraTables
  <1>4. IsFiniteSet({ts[i].table : i \in {j \in 1 .. 3 : ts[j].kind = "column"}})
    <2> DEFINE J == {j \in 1 .. 3 : ts[j].kind = "column"}
               f == [i \in 1 .. 3 |-> ts[i].table]
    <2>1. \A n \in Nat : IsFiniteSet(1 .. n)
      BY IntervalsAreFinite
    <2>2. IsFiniteSet(J)
      <3>1. 3 \in Nat /\ J \subseteq 1 .. 3
        OBVIOUS
      <3>2. IsFiniteSet(1 .. 3)
        BY <2>1, <3>1, Zenon
      <3> HIDE DEF J
      <3> QED
        BY <3>1, <3>2, FS_Subset
    <2>3. IsFiniteSet({f[i] : i \in J})
      <3> HIDE DEF J, f
      <3> QED
        BY <2>2, ImageIsFinite
    <2>4. {f[i] : i \in J} = {ts[i].table : i \in J}
      <3> HIDE DEF ts
      <3> QED
        OBVIOUS
    <2> QED
      BY <2>3, <2>4
  <1> HIDE DEF ts
  <1>5. IsFiniteSet(ExtraTables(e, tableName, alias))
    BY <1>3, <1>4, FS_Subset
  <1>6. ExtraTables(e, tableName, alias) \subseteq Table \ {tableName}
    BY <1>2, <1>3 DEF ByAlias
  <1>7. \A i \in 1 .. 3 : ts[i].table # "" \/ ts[i].kind # "column"
    BY <1>2, Constants DEF ByAlias
  <1>8. Names(Condition(e, tableName, alias))
           \subseteq ExtraTables(e, tableName, alias) \cup {Known(tableName, alias)}
    BY <1>1, <1>7, NoUnknownTable DEF ts
  <1> QED
    BY <1>5, <1>6, <1>8

(* The same for a query: all its expressions.                              *)
IsQuery(query) == IsSequence(query) /\ \A e \in ToSet(query) : IsExpression(e)

LEMMA QueryNames ==
    ASSUME NEW query, NEW tableName \in Table, NEW alias, IsQuery(query),
           \A e \in DOMAIN query : Fits(CompileTerms(query[e], tableName, alias))
    PROVE  LET compiled == Query(query, tableName, alias)
           IN  /\ compiled.extras \subseteq Table \ {tableName}
               /\ IsFiniteSet(compiled.extras)
               /\ \A c \in compiled.conditions :
                     Names(c) \subseteq compiled.extras \cup {Known(tableName, alias)}
  <1> DEFINE X(e) == ExtraTables(query[e], tableName, alias)
             C(e) == Condition(query[e], tableName, alias)
             compiled == Query(query, tableName, alias)
  <1>1. DOMAIN query = 1 .. Len(query) /\ Len(query) \in Nat
    BY SequenceIs DEF IsQuery
  <1>2. ASSUME NEW e \in DOMAIN query
        PROVE  /\ X(e) \subseteq Table \ {tableName}
               /\ IsFiniteSet(X(e))
               /\ Names(C(e)) \subseteq X(e) \cup {Known(tableName, alias)}
    <2> DEFINE expression == query[e]
    <2>1. IsExpression(expression)
      BY DEF IsQuery, ToSet
    <2>2. Fits(CompileTerms(expression, tableName, alias))
      OBVIOUS
    <2> HIDE DEF expression
    <2>3. /\ ExtraTables(expression, tableName, alias) \subseteq Table \ {tableName}
          /\ IsFiniteSet(ExtraTables(expression, tableName, alias))
          /\ Names(Condition(expression, tableName, alias))
               \subseteq ExtraTables(expression, tableName, alias) \cup {Known(tableName, alias)}
      BY <2>1, <2>2, ExpressionNames
    <2> QED
      BY <2>3 DEF expression
  <1>3. /\ compiled.extras = UNION {X(e) : e \in DOMAIN query}
        /\ compiled.conditions = {C(e) : e \in DOMAIN query}
    BY DEF Query
  <1> HIDE DEF X, C, compiled
  <1>4. compiled.extras \subseteq Table \ {tableName}
    BY <1>2, <1>3
  <1>5. IsFiniteSet(compiled.extras)
    <2> DEFINE f == [e \in DOMAIN query |-> X(e)]
    <2>1. IsFiniteSet(DOMAIN query)
      BY <1>1, IntervalsAreFinite
    <2>2. IsFiniteSet({f[e] : e \in DOMAIN query})
      <3> HIDE DEF f
      <3> QED
        BY <2>1, ImageIsFinite
    <2>3. {f[e] : e \in DOMAIN query} = {X(e) : e \in DOMAIN query}
      OBVIOUS
    <2>4. \A x \in {X(e) : e \in DOMAIN query} : IsFiniteSet(x)
      BY <1>2
    <2> QED
      BY <1>3, <2>2, <2>3, <2>4, FS_UNION
  <1>6. ASSUME NEW c \in compiled.conditions
        PROVE  Names(c) \subseteq compiled.extras \cup {Known(tableName, alias)}
    <2>1. PICK e \in DOMAIN query : c = C(e)
      BY <1>3, <1>6
    <2> QED
      BY <1>2, <1>3, <2>1
  <1> QED
    BY <1>4, <1>5, <1>6 DEF compiled

(* Answers the agent may give are such queries.                            *)
LEMMA AnswersAreQueries ==
    ASSUME NEW answer, IsAnswer(answer)
    PROVE  /\ IsSequence(answer)
           /\ \A q \in DOMAIN answer : IsQuery(answer[q]) /\ answer[q] \in ToSet(answer)
  BY DEF IsAnswer, IsQuery, IsExpression, ToSet

(* ... and queries that compare columns with columns and values bring in   *)
(* the tables they mention.                                                *)
LEMMA QueryMentions ==
    ASSUME NEW query, NEW tableName \in Table, NEW alias, IsQuery(query),
           \A e \in ToSet(query) : WellFormed(e)
    PROVE  /\ Mentioned(query) = UNION {Columns(query[e]) : e \in DOMAIN query}
           /\ Mentioned(query) \subseteq Table
           /\ Query(query, tableName, alias).extras \subseteq Mentioned(query) \ {tableName}
           /\ alias \notin Table =>
                 Query(query, tableName, alias).extras = Mentioned(query) \ {tableName}
  <1> DEFINE X(e) == ExtraTables(query[e], tableName, alias)
             D(e) == Columns(query[e])
             extras == Query(query, tableName, alias).extras
  <1>1. Mentioned(query) = UNION {D(e) : e \in DOMAIN query}
    <2>1. ToSet(query) = {query[e] : e \in DOMAIN query}
      BY DEF ToSet
    <2>2. Mentioned(query) = UNION {Columns(e) : e \in ToSet(query)}
      BY DEF Mentioned, Columns
    <2> QED
      BY <2>1, <2>2
  <1>2. ASSUME NEW e \in DOMAIN query
        PROVE  /\ X(e) \subseteq D(e) \ {tableName}
               /\ alias \notin Table => X(e) = D(e) \ {tableName}
               /\ D(e) \subseteq Table
    <2> DEFINE expression == query[e]
    <2>1. IsExpression(expression) /\ WellFormed(expression)
      BY DEF IsQuery, ToSet
    <2> HIDE DEF expression
    <2>2. /\ ExtraTables(expression, tableName, alias) \subseteq Columns(expression) \ {tableName}
          /\ alias \notin Table =>
               ExtraTables(expression, tableName, alias) = Columns(expression) \ {tableName}
          /\ Columns(expression) \subseteq Table
      BY <2>1, ExtrasOf, ColumnsAt
    <2> QED
      BY <2>2 DEF expression
  <1>3. extras = UNION {X(e) : e \in DOMAIN query}
    BY DEF Query
  <1> HIDE DEF X, D, extras
  <1>4. extras \subseteq Mentioned(query) \ {tableName} /\ Mentioned(query) \subseteq Table
    BY <1>1, <1>2, <1>3
  <1>5. ASSUME alias \notin Table
        PROVE  extras = Mentioned(query) \ {tableName}
    <2>1. \A e \in DOMAIN query : X(e) = D(e) \ {tableName}
      BY <1>2, <1>5
    <2> QED
      BY <1>1, <1>3, <2>1
  <1> QED
    BY <1>1, <1>4, <1>5 DEF extras, D

(* ... and are understood.                                                 *)
LEMMA WellFormedParses ==
    ASSUME NEW e, NEW tableName, NEW alias, IsExpression(e), WellFormed(e), "" \notin Table
    PROVE  /\ Fits(CompileTerms(e, tableName, alias))
           /\ \A o \in {Condition(e, tableName, alias).left, Condition(e, tableName, alias).right} :
                 /\ o.kind = "column" => o.name # <<>> /\ o.table # ""
                 /\ o # Garbled
  <1> DEFINE c == Condition(e, tableName, alias)
             l == CompileTerm(Left(e), tableName, alias)
             r == CompileTerm(Right(e), tableName, alias)
  <1>1. /\ Fits(CompileTerms(e, tableName, alias))
        /\ c.left \in {l, r} /\ c.right \in {l, r}
        /\ \A term \in {Left(e), Right(e)} : IsTerm(term) /\ (IsColumn(term) \/ IsValue(term))
    BY WellFormedCompiles
  <1>2. ASSUME NEW term, IsTerm(term), IsColumn(term) \/ IsValue(term),
               CompileTerm(term, tableName, alias).kind = "column"
        PROVE  /\ CompileTerm(term, tableName, alias).name # <<>>
               /\ CompileTerm(term, tableName, alias).table # ""
    <2>1. /\ CompileTerm(term, tableName, alias).name # <<>>
          /\ CompileTerm(term, tableName, alias).table = ByAlias(Ref(term)[3].value, tableName, alias)
          /\ Ref(term)[3].value \in Table
      BY <1>2, TermsCompile
    <2> QED
      BY <2>1 DEF ByAlias
  <1>3. /\ l.kind = "column" => l.name # <<>> /\ l.table # ""
        /\ r.kind = "column" => r.name # <<>> /\ r.table # ""
    BY <1>1, <1>2
  <1>4. ASSUME NEW term, IsTerm(term), IsColumn(term) \/ IsValue(term)
        PROVE  CompileTerm(term, tableName, alias) # Garbled
    <2>1. Garbled.kind = "value" /\ Garbled.name = <<"garbled">>
      BY DEF Garbled, Named
    <2>2. \A v : Value(v).name = <<>>
      BY DEF Value
    <2>3. <<>> # <<"garbled">>
      OBVIOUS
    <2>4. CASE IsColumn(term)
      BY <1>4, <2>1, <2>4, CompiledColumn
    <2>5. CASE IsValue(term)
      <3>1. CompileTerm(term, tableName, alias) = Value(term.value)
        BY <2>5, ValueCompiles
      <3> QED
        BY <2>1, <2>2, <2>3, <3>1
    <2> QED
      BY <1>4, <2>4, <2>5
  <1>5. l # Garbled /\ r # Garbled
    BY <1>1, <1>4
  <1> HIDE DEF c, l, r
  <1> QED
    BY <1>1, <1>3, <1>5 DEF c

(* Answers of comparisons are compiled and parsed, never refused.          *)
LEMMA WellFormedUnderstood ==
    ASSUME NEW table, IsAnswer(answers[table.table]), "" \notin Table,
           \A e \in Expressions(answers[table.table]) : WellFormed(e)
    PROVE  Understood(table)
  <1> DEFINE answer == answers[table.table]
             T == table.table
             alias == table.alias
  <1>1. ASSUME NEW q \in DOMAIN answer, NEW k \in DOMAIN answer[q]
        PROVE  IsExpression(answer[q][k]) /\ WellFormed(answer[q][k])
    <2>1. IsQuery(answer[q]) /\ answer[q][k] \in ToSet(answer[q])
      BY AnswersAreQueries DEF ToSet
    <2> QED
      BY <2>1 DEF IsQuery, Expressions
  <1> HIDE DEF answer, T, alias
  <1>2. Compiles(answer, T, alias)
    BY <1>1, WellFormedParses DEF Compiles
  <1>3. Parses(Compile(answer, T, alias)) /\ ~ Garbles(Compile(answer, T, alias))
    <2> SUFFICES ASSUME NEW q \in DOMAIN Compile(answer, T, alias),
                        NEW c \in Compile(answer, T, alias)[q].conditions,
                        NEW o \in {c.left, c.right}
                 PROVE  /\ o.kind = "column" => o.name # <<>> /\ o.table # ""
                        /\ o # Garbled
      BY DEF Parses, Garbles
    <2>1. q \in DOMAIN answer /\ Compile(answer, T, alias)[q] = Query(answer[q], T, alias)
      BY DEF Compile
    <2> DEFINE query == answer[q]
               conditions == {Condition(query[k], T, alias) : k \in DOMAIN query}
    <2>2. Query(query, T, alias).conditions = conditions
      BY DEF Query
    <2>3. c \in conditions
      <3> HIDE DEF conditions, query
      <3> QED
        BY <2>1, <2>2 DEF query
    <2>4. PICK k \in DOMAIN answer[q] : c = Condition(answer[q][k], T, alias)
      BY <2>3
    <2> QED
      BY <1>1, <2>1, <2>4, WellFormedParses
  <1> QED
    BY <1>2, <1>3 DEF Understood, answer, T, alias
-----------------------------------------------------------------------------
(* The shape of a state.                                                   *)
Sound(select, n, numbers) ==
    /\ IsSequence(select.from) /\ IsSequence(select.where)
    /\ \A table \in ToSet(select.from) : table.table \in Table /\ (n > 1 => table.alias = "")
    /\ \A filter \in ToSet(select.where) :
          /\ IsSequence(filter)
          /\ \A query \in ToSet(filter) :
                query.exists = <<>> \/ \E m \in numbers : m > n /\ query.exists = <<m>>

(* The strengthening of TypeOK: every SELECT but the first is an EXISTS    *)
(* over tables without alias, and the EXISTS inside a SELECT come after    *)
(* it.                                                                     *)
Shape ==
    /\ statement \in Statement /\ answers \in Answers
    /\ result \in Ended \cup {"walking"}
    /\ IsSequence(selects) /\ Len(selects) \in 1 .. MaxSelects
    /\ selects[1].from = statement.from
    /\ todo \in Seq(DOMAIN selects) /\ next \in Nat \ {0}
    /\ \A n \in DOMAIN selects : Sound(selects[n], n, DOMAIN selects)

(* The EXISTS in a WHERE.                                                  *)
Nested(where) == {m \in Nat : \E filter \in ToSet(where) : \E query \in ToSet(filter) :
                                  query.exists = <<m>>}

(* The numbers of the SELECTs.                                             *)
LEMMA Indices ==
    ASSUME Shape
    PROVE  /\ DOMAIN selects = 1 .. Len(selects) /\ Len(selects) \in Nat /\ 1 \in DOMAIN selects
           /\ DOMAIN selects \subseteq Nat /\ Len(selects) \in 1 .. MaxSelects
  <1>1. DOMAIN selects = 1 .. Len(selects) /\ Len(selects) \in 1 .. MaxSelects
    BY SequenceIs DEF Shape
  <1>2. MaxSelects \in Nat \ {0}
    BY Constants
  <1> QED
    BY <1>1, <1>2

(* Inside finds the EXISTS of a WHERE.                                     *)
LEMMA InsideIs ==
    ASSUME NEW select, NEW n, NEW S \in SUBSET Nat, Sound(select, n, S)
    PROVE  /\ Inside(select) \in Seq(S)
           /\ ToSet(Inside(select)) = Nested(select.where)
  <1> DEFINE where == select.where
             parts(f) == [q \in DOMAIN where[f] |-> where[f][q].exists]
             all == [f \in DOMAIN where |-> FlattenSeq(parts(f))]
  <1>1. /\ IsSequence(where)
        /\ \A filter \in ToSet(where) :
              /\ IsSequence(filter)
              /\ \A query \in ToSet(filter) :
                    query.exists = <<>> \/ \E m \in S : query.exists = <<m>>
    BY DEF Sound
  <1> HIDE DEF where
  <1>2. DOMAIN where = 1 .. Len(where) /\ Len(where) \in Nat
    BY <1>1, SequenceIs
  <1>3. ASSUME NEW f \in DOMAIN where
        PROVE  /\ FlattenSeq(parts(f)) \in Seq(S)
               /\ ToSet(FlattenSeq(parts(f)))
                    = {m \in S : \E query \in ToSet(where[f]) : query.exists = <<m>>}
    <2> DEFINE filter == where[f]
               ps == parts(f)
    <2>1. filter \in ToSet(where)
      BY DEF ToSet
    <2>2. /\ DOMAIN filter = 1 .. Len(filter) /\ Len(filter) \in Nat
          /\ \A q \in DOMAIN filter : filter[q].exists = <<>> \/ \E m \in S : filter[q].exists = <<m>>
      <3> HIDE DEF filter
      <3> QED
        BY <1>1, <2>1, SequenceIs DEF ToSet
    <2>3. ASSUME NEW q \in DOMAIN filter
          PROVE  /\ filter[q].exists \in Seq(S)
                 /\ ToSet(filter[q].exists) = {m \in S : filter[q].exists = <<m>>}
      <3> DEFINE x == filter[q].exists
      <3>1. x = <<>> \/ \E m \in S : x = <<m>>
        BY <2>2
      <3> HIDE DEF x
      <3>2. CASE x = <<>>
        <4>1. x \in Seq(S) /\ ToSet(x) = {} /\ \A m \in S : x # <<m>>
          BY <3>2 DEF ToSet
        <4> QED
          BY <4>1 DEF x
      <3>3. ASSUME NEW m \in S, x = <<m>>
            PROVE  x \in Seq(S) /\ ToSet(x) = {y \in S : x = <<y>>}
        <4>1. x \in Seq(S)
          BY <3>3
        <4>2. ToSet(x) = {m}
          BY <3>3 DEF ToSet
        <4>3. \A y \in S : <<m>> = <<y>> => m = y
          OBVIOUS
        <4>4. {y \in S : x = <<y>>} = {m}
          BY <3>3, <4>3
        <4> QED
          BY <4>1, <4>2, <4>4
      <3> QED
        BY <3>1, <3>2, <3>3 DEF x
    <2>4. ps \in Seq(Seq(S)) /\ Len(ps) = Len(filter)
      <3> DEFINE V == Seq(S)
      <3>1. \A q \in 1 .. Len(filter) : filter[q].exists \in V
        BY <2>2, <2>3
      <3> HIDE DEF V, filter
      <3>2. ps = [q \in 1 .. Len(filter) |-> filter[q].exists]
        BY <2>2 DEF filter
      <3> HIDE DEF ps
      <3>3. ps \in Seq(V) /\ Len(ps) = Len(filter)
        BY <2>2, <3>1, <3>2
      <3> QED
        BY <3>3 DEF V
    <2>5. FlattenSeq(ps) \in Seq(S)
      BY <2>4, FlattenType
    <2>6. ToSet(FlattenSeq(ps)) = UNION {ToSet(ps[q]) : q \in 1 .. Len(ps)}
      BY <2>4, FlattenMembers
    <2>7. \A q \in DOMAIN filter : ToSet(ps[q]) = {m \in S : filter[q].exists = <<m>>}
      BY <2>3
    <2>8. ToSet(FlattenSeq(ps)) = {m \in S : \E q \in DOMAIN filter : filter[q].exists = <<m>>}
      <3> DEFINE X == ToSet(FlattenSeq(ps))
                 P(q) == ToSet(ps[q])
                 Q(q) == filter[q].exists
      <3>1. X = UNION {P(q) : q \in DOMAIN filter}
        BY <2>2, <2>4, <2>6
      <3>2. \A q \in DOMAIN filter : P(q) = {m \in S : Q(q) = <<m>>}
        BY <2>7
      <3> HIDE DEF X, P, Q, ps, filter
      <3>3. X = {m \in S : \E q \in DOMAIN filter : Q(q) = <<m>>}
        BY <3>1, <3>2
      <3> QED
        BY <3>3 DEF X, Q
    <2>9. {m \in S : \E q \in DOMAIN filter : filter[q].exists = <<m>>}
             = {m \in S : \E query \in ToSet(filter) : query.exists = <<m>>}
      <3> HIDE DEF filter
      <3> QED
        BY DEF ToSet
    <2> QED
      BY <2>5, <2>8, <2>9
  <1>4. all \in Seq(Seq(S)) /\ Len(all) = Len(where)
    <2> DEFINE V == Seq(S)
    <2>1. \A f \in 1 .. Len(where) : FlattenSeq(parts(f)) \in V
      BY <1>2, <1>3
    <2> HIDE DEF V, parts
    <2>2. all = [f \in 1 .. Len(where) |-> FlattenSeq(parts(f))]
      BY <1>2
    <2> HIDE DEF all
    <2>3. all \in Seq(V) /\ Len(all) = Len(where)
      BY <1>2, <2>1, <2>2
    <2> QED
      BY <2>3 DEF V
  <1>5. Inside(select) = FlattenSeq(all)
    BY DEF Inside, where
  <1>6. FlattenSeq(all) \in Seq(S)
    BY <1>4, FlattenType
  <1>7. ToSet(FlattenSeq(all)) = UNION {ToSet(all[f]) : f \in 1 .. Len(all)}
    BY <1>4, FlattenMembers
  <1>8. \A f \in DOMAIN where :
           ToSet(all[f]) = {m \in S : \E query \in ToSet(where[f]) : query.exists = <<m>>}
    <2> HIDE DEF parts
    <2> QED
      BY <1>3
  <1>9. ToSet(FlattenSeq(all))
          = {m \in S : \E filter \in ToSet(where) : \E query \in ToSet(filter) : query.exists = <<m>>}
    <2> DEFINE X == ToSet(FlattenSeq(all))
               P(f) == ToSet(all[f])
               Q(filter, m) == \E query \in ToSet(filter) : query.exists = <<m>>
    <2>1. X = UNION {P(f) : f \in DOMAIN where}
      BY <1>2, <1>4, <1>7
    <2>2. \A f \in DOMAIN where : P(f) = {m \in S : Q(where[f], m)}
      BY <1>8
    <2>3. ToSet(where) = {where[f] : f \in DOMAIN where}
      BY DEF ToSet
    <2> HIDE DEF X, P, Q, all
    <2>4. X = {m \in S : \E filter \in ToSet(where) : Q(filter, m)}
      BY <2>1, <2>2, <2>3
    <2> QED
      BY <2>4 DEF X, Q
  <1>10. Nested(where)
          = {m \in S : \E filter \in ToSet(where) : \E query \in ToSet(filter) : query.exists = <<m>>}
    <2>1. ASSUME NEW m \in Nat, NEW filter \in ToSet(where), NEW query \in ToSet(filter),
                 query.exists = <<m>>
          PROVE  m \in S
      <3>1. query.exists = <<>> \/ \E k \in S : query.exists = <<k>>
        BY <1>1, <2>1
      <3>2. <<m>> # <<>> /\ \A k \in S : <<m>> = <<k>> => m = k
        OBVIOUS
      <3> QED
        BY <2>1, <3>1, <3>2
    <2> QED
      BY <1>1, <2>1 DEF Nested
  <1> QED
    BY <1>5, <1>6, <1>9, <1>10 DEF where
-----------------------------------------------------------------------------
(* The table the agent is asked about, what its answer compiles to, and    *)
(* the queries that get an EXISTS.                                         *)
Asked    == Visiting.from[next]
(* The answer for the table that is asked about, compiled.                 *)
Compiled == Compile(answers[Asked.table], Asked.table, Asked.alias)
Queries  == WithExtras(Compiled)

(* The table asked about is in the FROM of the SELECT that is visited.     *)
LEMMA AskedIs ==
    ASSUME Shape, Asking
    PROVE  /\ Head(todo) \in DOMAIN selects /\ next \in DOMAIN Visiting.from
           /\ Asked \in ToSet(Visiting.from) /\ Asked.table \in Table
           /\ Head(todo) > 1 => Asked.alias = ""
           /\ IsAnswer(answers[Asked.table])
           /\ Known(Asked.table, Asked.alias) = Exposed(Asked)
  <1>1. Head(todo) \in DOMAIN selects
    BY DEF Shape, Asking
  <1>2. IsSequence(Visiting.from) /\ next \in Nat \ {0} /\ next <= Len(Visiting.from)
    BY <1>1 DEF Shape, Sound, Asking, Visiting
  <1>3. next \in DOMAIN Visiting.from
    BY <1>2, SequenceIs
  <1>4. Asked \in ToSet(Visiting.from)
    BY <1>3 DEF Asked, ToSet
  <1>5. Asked.table \in Table /\ (Head(todo) > 1 => Asked.alias = "")
    BY <1>1, <1>4 DEF Shape, Sound, Visiting
  <1>6. answers \in Answers
    BY DEF Shape
  <1>7. IsAnswer(answers[Asked.table])
    BY <1>5, <1>6, FilterAssumption
  <1>8. Known(Asked.table, Asked.alias) = Exposed(Asked)
    BY DEF Known, Exposed
  <1> QED
    BY <1>1, <1>3, <1>4, <1>5, <1>7, <1>8

(* The compiled answer is a sequence of queries with finitely many tables. *)
LEMMA CompiledIs ==
    ASSUME Shape, Asking, Understood(Asked)
    PROVE  /\ DOMAIN Compiled = DOMAIN answers[Asked.table]
           /\ \E n \in Nat : DOMAIN Compiled = 1 .. n
           /\ IsSequence(Queries)
           /\ ToSet(Queries) = {q \in DOMAIN Compiled : Compiled[q].extras # {}}
           /\ \A i, j \in DOMAIN Queries : Queries[i] = Queries[j] => i = j
           /\ \A q \in DOMAIN Compiled :
                 /\ Compiled[q] = Query(answers[Asked.table][q], Asked.table, Asked.alias)
                 /\ Compiled[q].extras \subseteq Table \ {Asked.table}
                 /\ IsFiniteSet(Compiled[q].extras)
                 /\ \A c \in Compiled[q].conditions :
                       Names(c) \subseteq Compiled[q].extras \cup {Exposed(Asked)}
  <1> DEFINE answer == answers[Asked.table]
             T == Asked.table
             alias == Asked.alias
  <1>1. T \in Table /\ IsAnswer(answer) /\ "" \notin Table /\ Known(T, alias) = Exposed(Asked)
    BY AskedIs, Constants
  <1>2. Compiles(answer, T, alias)
    BY DEF Understood
  <1>3. Compiled = Compile(answer, T, alias)
    BY DEF Compiled
  <1> HIDE DEF answer, T, alias
  <1>4. DOMAIN Compiled = DOMAIN answer
        /\ \A q \in DOMAIN Compiled : Compiled[q] = Query(answer[q], T, alias)
    BY <1>3 DEF Compile
  <1>5. DOMAIN answer = 1 .. Len(answer) /\ Len(answer) \in Nat
    BY <1>1, AnswersAreQueries, SequenceIs
  <1>6. ASSUME NEW q \in DOMAIN Compiled
        PROVE  /\ Compiled[q].extras \subseteq Table \ {T}
               /\ IsFiniteSet(Compiled[q].extras)
               /\ \A c \in Compiled[q].conditions :
                     Names(c) \subseteq Compiled[q].extras \cup {Known(T, alias)}
    <2>1. IsQuery(answer[q]) /\ \A e \in DOMAIN answer[q] : Fits(CompileTerms(answer[q][e], T, alias))
      BY <1>1, <1>2, <1>4, AnswersAreQueries DEF Compiles
    <2> QED
      BY <1>1, <1>4, <2>1, QueryNames
  <1>7. IsFiniteSet({q \in DOMAIN Compiled : Compiled[q].extras # {}})
    <2>1. IsFiniteSet(DOMAIN Compiled)
      BY <1>4, <1>5, IntervalsAreFinite
    <2> QED
      BY <2>1, FS_Subset
  <1>8. /\ IsSequence(Queries)
        /\ ToSet(Queries) = {q \in DOMAIN Compiled : Compiled[q].extras # {}}
        /\ \A i, j \in DOMAIN Queries : Queries[i] = Queries[j] => i = j
    BY <1>7, AllOf DEF Queries, WithExtras
  <1> QED
    BY <1>1, <1>4, <1>5, <1>6, <1>8 DEF answer, T, alias

(* The filter, and the numbers in it.                                      *)
LEMMA FilterIs ==
    ASSUME Shape, Asking, Understood(Asked)
    PROVE  /\ DOMAIN FilterOf(Compiled) = DOMAIN Compiled /\ IsSequence(FilterOf(Compiled))
           /\ \A q \in DOMAIN Compiled :
                 IF Compiled[q].extras = {}
                 THEN FilterOf(Compiled)[q] = [conditions |-> Compiled[q].conditions, exists |-> <<>>]
                 ELSE \E i \in DOMAIN Queries :
                         /\ Queries[i] = q
                         /\ FilterOf(Compiled)[q]
                               = [conditions |-> {}, exists |-> <<(Len(selects) + i)>>]
  <1>1. PICK n \in Nat : DOMAIN Compiled = 1 .. n
    BY CompiledIs
  <1>2. DOMAIN FilterOf(Compiled) = 1 .. n
    BY <1>1 DEF FilterOf
  <1>3. IsSequence(FilterOf(Compiled))
    <2>1. FilterOf(Compiled) = [i \in 1 .. n |-> FilterOf(Compiled)[i]]
      BY <1>1 DEF FilterOf
    <2> QED
      BY <1>2, <2>1, SequenceMade
  <1>4. ASSUME NEW q \in DOMAIN Compiled, Compiled[q].extras = {}
        PROVE  FilterOf(Compiled)[q] = [conditions |-> Compiled[q].conditions, exists |-> <<>>]
    BY <1>4 DEF FilterOf
  <1>5. ASSUME NEW q \in DOMAIN Compiled, Compiled[q].extras # {}
        PROVE  \E i \in DOMAIN Queries :
                  /\ Queries[i] = q
                  /\ FilterOf(Compiled)[q] = [conditions |-> {}, exists |-> <<(Len(selects) + i)>>]
    <2>1. \E i \in DOMAIN Queries : Queries[i] = q
      BY <1>5, CompiledIs DEF ToSet
    <2> DEFINE i == CHOOSE i \in DOMAIN Queries : Queries[i] = q
    <2>2. i \in DOMAIN Queries /\ Queries[i] = q
      BY <2>1
    <2>3. Number(Compiled, q) = Len(selects) + i
      BY DEF Number, Queries
    <2>4. FilterOf(Compiled)[q] = [conditions |-> {}, exists |-> <<Number(Compiled, q)>>]
      BY <1>5 DEF FilterOf
    <2> QED
      BY <2>2, <2>3, <2>4
  <1> QED
    BY <1>1, <1>2, <1>3, <1>4, <1>5

(* The SELECT that is made for a query.                                    *)
LEMMA ExistsIs ==
    ASSUME NEW query, IsFiniteSet(query.extras)
    PROVE  /\ IsSequence(Exists(query).from) /\ IsSequence(Exists(query).where)
           /\ ToSet(Exists(query).from) = {Unaliased(t) : t \in query.extras}
           /\ Exposes(Exists(query).from) = query.extras
           /\ \A filter \in ToSet(Exists(query).where) :
                 /\ IsSequence(filter)
                 /\ \A q \in ToSet(filter) : q.exists = <<>> /\ q.conditions = query.conditions
           /\ Exists(query).where[Len(Exists(query).where)]
                 = <<[conditions |-> query.conditions, exists |-> <<>>]>>
           /\ Len(Exists(query).where) = 1
  <1> DEFINE U == {Unaliased(t) : t \in query.extras}
             own == [conditions |-> query.conditions, exists |-> <<>>]
             from == Exists(query).from
             where == Exists(query).where
  <1>1. IsFiniteSet(U)
    <2> DEFINE f == [t \in query.extras |-> Unaliased(t)]
    <2>1. IsFiniteSet({f[t] : t \in query.extras})
      <3> HIDE DEF f
      <3> QED
        BY ImageIsFinite
    <2>2. {f[t] : t \in query.extras} = U
      OBVIOUS
    <2> QED
      BY <2>1, <2>2
  <1>2. from = SetToSeq(U) /\ where = <<(<<own>>)>>
    BY DEF Exists
  <1> HIDE DEF from, where
  <1>3. IsSequence(from) /\ ToSet(from) = U
    <2> HIDE DEF U
    <2> QED
      BY <1>1, <1>2, AllOf
  <1>4. Exposes(from) = query.extras
    <2>1. \A t : Exposed(Unaliased(t)) = t
      BY DEF Exposed, Unaliased
    <2> QED
      BY <1>3, <2>1 DEF Exposes
  <1> DEFINE filter == <<own>>
  <1>5. IsSequence(filter) /\ ToSet(filter) = {own}
    <2> HIDE DEF own
    <2> QED
      BY Single
  <1>6. IsSequence(where) /\ ToSet(where) = {filter} /\ Len(where) = 1 /\ where[Len(where)] = filter
    <2>1. where = <<filter>>
      BY <1>2
    <2> HIDE DEF filter
    <2> QED
      BY <2>1, Single
  <1>7. own.exists = <<>> /\ own.conditions = query.conditions
    OBVIOUS
  <1> HIDE DEF filter
  <1>8. \A g \in ToSet(where) : IsSequence(g) /\ \A q \in ToSet(g) : q = own
    BY <1>5, <1>6
  <1> HIDE DEF own
  <1> QED
    BY <1>3, <1>4, <1>6, <1>7, <1>8 DEF from, where, filter, own

(* What Narrow makes of the statement.                                     *)
LEMMA Narrows ==
    ASSUME Shape, Narrow
    PROVE  /\ Asking /\ Understood(Asked)
           /\ IsSequence(selects') /\ Len(selects') = Len(selects) + Len(Queries)
           /\ Len(selects') <= MaxSelects
           /\ Len(Queries) \in Nat /\ DOMAIN Queries = 1 .. Len(Queries)
           /\ DOMAIN selects \subseteq DOMAIN selects'
           /\ \A n \in DOMAIN selects :
                 selects'[n] = IF n = Head(todo) THEN Plug(selects[n], FilterOf(Compiled))
                               ELSE selects[n]
           /\ \A i \in DOMAIN Queries :
                 /\ Len(selects) + i \in DOMAIN selects' \ DOMAIN selects
                 /\ selects'[Len(selects) + i] = Exists(Compiled[Queries[i]])
                 /\ Queries[i] \in DOMAIN Compiled /\ Compiled[Queries[i]].extras # {}
           /\ \A n \in DOMAIN selects' :
                 n \in DOMAIN selects \/ \E i \in DOMAIN Queries : n = Len(selects) + i
           /\ next' = next + 1 /\ UNCHANGED <<statement, answers, todo, result>>
  <1> DEFINE old == [selects EXCEPT ![Head(todo)] = Plug(@, FilterOf(Compiled))]
             new == [i \in DOMAIN Queries |-> Exists(Compiled[Queries[i]])]
  <1>1. /\ Asking /\ Understood(Asked) /\ selects' = old \o new
        /\ Len(selects) + Len(Queries) <= MaxSelects
        /\ next' = next + 1 /\ UNCHANGED <<statement, answers, todo, result>>
    BY DEF Narrow, Asked, Compiled, Queries
  <1>2. Head(todo) \in DOMAIN selects
    BY <1>1, AskedIs
  <1>3. DOMAIN selects = 1 .. Len(selects) /\ Len(selects) \in Nat
    BY Indices
  <1>4. IsSequence(Queries) /\ ToSet(Queries) = {q \in DOMAIN Compiled : Compiled[q].extras # {}}
    BY <1>1, CompiledIs
  <1>5. DOMAIN Queries = 1 .. Len(Queries) /\ Len(Queries) \in Nat
    BY <1>4, SequenceIs
  <1>6. DOMAIN old = 1 .. Len(selects) /\ old = [i \in 1 .. Len(selects) |-> old[i]]
    BY <1>3
  <1>7. /\ \A n \in DOMAIN selects :
              old[n] = IF n = Head(todo) THEN Plug(selects[n], FilterOf(Compiled)) ELSE selects[n]
        /\ \A i \in DOMAIN Queries : new[i] = Exists(Compiled[Queries[i]])
    BY <1>2
  <1>8. DOMAIN new = 1 .. Len(Queries) /\ new = [i \in 1 .. Len(Queries) |-> new[i]]
    BY <1>5
  <1> HIDE DEF old, new
  <1>9. IsSequence(old) /\ Len(old) = Len(selects) /\ IsSequence(new) /\ Len(new) = Len(Queries)
    BY <1>3, <1>5, <1>6, <1>8, SequenceMade
  <1>10. /\ IsSequence(old \o new)
         /\ Len(old \o new) = Len(selects) + Len(Queries)
         /\ DOMAIN (old \o new) = 1 .. Len(selects) + Len(Queries)
         /\ \A i \in DOMAIN old : (old \o new)[i] = old[i]
         /\ \A i \in DOMAIN new : (old \o new)[Len(selects) + i] = new[i]
    BY <1>9, Concatenation
  <1>11. /\ IsSequence(selects')
         /\ Len(selects') = Len(selects) + Len(Queries)
         /\ DOMAIN selects' = 1 .. Len(selects) + Len(Queries)
         /\ \A i \in DOMAIN selects : selects'[i] = old[i]
         /\ \A i \in DOMAIN Queries : selects'[Len(selects) + i] = new[i]
    BY <1>1, <1>3, <1>5, <1>6, <1>8, <1>10
  <1>12. \A n \in 1 .. Len(selects) + Len(Queries) :
            n \in 1 .. Len(selects) \/ \E i \in 1 .. Len(Queries) : n = Len(selects) + i
    <2> SUFFICES ASSUME NEW n \in 1 .. Len(selects) + Len(Queries), n \notin 1 .. Len(selects)
                 PROVE  \E i \in 1 .. Len(Queries) : n = Len(selects) + i
      OBVIOUS
    <2>1. n - Len(selects) \in 1 .. Len(Queries) /\ n = Len(selects) + (n - Len(selects))
      BY <1>3, <1>5
    <2> QED
      BY <2>1
  <1>13. \A i \in 1 .. Len(Queries) : Len(selects) + i \in 1 .. Len(selects) + Len(Queries)
                                      /\ Len(selects) + i \notin 1 .. Len(selects)
    BY <1>3, <1>5
  <1>14. \A i \in DOMAIN Queries : Queries[i] \in DOMAIN Compiled /\ Compiled[Queries[i]].extras # {}
    BY <1>4 DEF ToSet
  <1>15. DOMAIN selects \subseteq DOMAIN selects'
    BY <1>3, <1>5, <1>11
  <1> QED
    BY <1>1, <1>3, <1>5, <1>7, <1>11, <1>12, <1>13, <1>14, <1>15

(* A filter in front of a WHERE.                                           *)
LEMMA InFront ==
    ASSUME NEW x, NEW y, IsSequence(y)
    PROVE  LET both == <<x>> \o y
           IN  /\ IsSequence(both) /\ Len(both) > 0
               /\ ToSet(both) = {x} \cup ToSet(y)
               /\ Len(y) > 0 => both[Len(both)] = y[Len(y)]
  <1> DEFINE S == {x} \cup ToSet(y)
             both == <<x>> \o y
  <1>1. y \in Seq(S)
    <2>1. y \in Seq(ToSet(y)) /\ ToSet(y) \subseteq S
      BY DEF IsSequence
    <2> DEFINE T == ToSet(y)
    <2> HIDE DEF S, T
    <2>2. y \in Seq(T) /\ T \subseteq S
      BY <2>1 DEF T
    <2> QED
      BY <2>2
  <1>2. x \in S
    OBVIOUS
  <1> HIDE DEF S
  <1>3. /\ both \in Seq(S) /\ Len(both) = 1 + Len(y) /\ Len(y) \in Nat
        /\ DOMAIN both = 1 .. 1 + Len(y) /\ DOMAIN y = 1 .. Len(y)
        /\ both[1] = x /\ \A i \in 1 .. Len(y) : both[1 + i] = y[i]
    BY <1>1, <1>2
  <1> HIDE DEF both
  <1>4. \A i \in 1 .. 1 + Len(y) : i = 1 \/ (i - 1 \in 1 .. Len(y) /\ i = 1 + (i - 1))
    BY <1>3
  <1>5. ToSet(both) = {x} \cup ToSet(y)
    <2>1. ToSet(both) \subseteq {x} \cup ToSet(y)
      <3>1. ASSUME NEW i \in 1 .. 1 + Len(y), i # 1
            PROVE  both[i] = y[i - 1] /\ i - 1 \in DOMAIN y
        BY <1>3, <1>4, <3>1
      <3>2. \A i \in DOMAIN both : both[i] \in {x} \cup ToSet(y)
        BY <1>3, <3>1 DEF ToSet
      <3> QED
        BY <3>2 DEF ToSet
    <2>2. \A i \in 1 .. Len(y) : 1 + i \in 1 .. 1 + Len(y)
      BY <1>3
    <2>3. ToSet(y) \subseteq ToSet(both)
      BY <1>3, <2>2 DEF ToSet
    <2>4. x \in ToSet(both)
      BY <1>3 DEF ToSet
    <2> QED
      BY <2>1, <2>3, <2>4
  <1>6. IsSequence(both)
    BY <1>3, SequenceOf
  <1>7. Len(y) > 0 => both[Len(both)] = y[Len(y)]
    BY <1>3
  <1> QED
    BY <1>3, <1>5, <1>6, <1>7 DEF both

(* A SELECT keeps its FROM and its filters, and gets one more.             *)
LEMMA PlugIs ==
    ASSUME NEW select, NEW filter, IsSequence(select.where)
    PROVE  /\ Plug(select, filter).from = select.from
           /\ IsSequence(Plug(select, filter).where)
           /\ ToSet(Plug(select, filter).where) = {filter} \cup ToSet(select.where)
           /\ Len(select.where) > 0 => /\ Len(Plug(select, filter).where) > 0
                                       /\ Plug(select, filter).where[Len(Plug(select, filter).where)]
                                             = select.where[Len(select.where)]
  <1> DEFINE both == <<filter>> \o select.where
  <1>1. Plug(select, filter).from = select.from /\ Plug(select, filter).where = both
    BY DEF Plug
  <1>2. /\ IsSequence(both) /\ Len(both) > 0
        /\ ToSet(both) = {filter} \cup ToSet(select.where)
        /\ Len(select.where) > 0 => both[Len(both)] = select.where[Len(select.where)]
    BY InFront
  <1> HIDE DEF both
  <1> QED
    BY <1>1, <1>2

(* The EXISTS of the new filter are the new SELECTs.                       *)
LEMMA FilterSubselects ==
    ASSUME Shape, Asking, Understood(Asked), NEW query \in ToSet(FilterOf(Compiled))
    PROVE  \/ query.exists = <<>>
           \/ \E i \in DOMAIN Queries : query.exists = <<(Len(selects) + i)>> /\ query.conditions = {}
  <1>1. PICK q \in DOMAIN Compiled : query = FilterOf(Compiled)[q]
    BY FilterIs DEF ToSet
  <1>2. CASE Compiled[q].extras = {}
    <2>1. query = [conditions |-> Compiled[q].conditions, exists |-> <<>>]
      BY <1>1, <1>2, FilterIs
    <2> QED
      BY <2>1
  <1>3. CASE Compiled[q].extras # {}
    <2>1. PICK i \in DOMAIN Queries :
             query = [conditions |-> {}, exists |-> <<(Len(selects) + i)>>]
      BY <1>1, <1>3, FilterIs
    <2> QED
      BY <2>1
  <1> QED
    BY <1>2, <1>3

(* Shape is an invariant: only Narrow changes the SELECTs, and only        *)
(* Descend the list of those to be visited.                                *)
LEMMA ShapeInit == Init => Shape
  <1> SUFFICES ASSUME Init PROVE Shape
    OBVIOUS
  <1>1. IsStatement(statement)
    BY FilterAssumption DEF Init
  <1>2. selects = <<statement>> /\ todo = <<1>> /\ next = 1 /\ result = "walking"
    BY DEF Init
  <1>3. IsSequence(selects) /\ DOMAIN selects = 1 .. 1 /\ Len(selects) = 1 /\ selects[1] = statement
    <2> DEFINE s == statement
    <2> HIDE DEF s
    <2>1. selects = <<s>>
      BY <1>2 DEF s
    <2>2. IsSequence(<<s>>) /\ DOMAIN <<s>> = 1 .. 1 /\ Len(<<s>>) = 1 /\ <<s>>[Len(<<s>>)] = s
      BY Single
    <2> QED
      BY <2>1, <2>2 DEF s
  <1>4. todo \in Seq(DOMAIN selects) /\ next \in Nat \ {0} /\ 1 \in 1 .. MaxSelects
    <2>1. 1 \in DOMAIN selects
      BY <1>3
    <2> HIDE DEF Shape
    <2>2. todo \in Seq(DOMAIN selects)
      BY <1>2, <2>1
    <2>3. MaxSelects \in Nat \ {0}
      BY Constants
    <2> QED
      BY <1>2, <2>2, <2>3
  <1>5. Sound(selects[1], 1, DOMAIN selects)
    BY <1>1, <1>3 DEF IsStatement, Sound
  <1> QED
    BY <1>2, <1>3, <1>4, <1>5 DEF Init, Shape

LEMMA ShapeStep == Shape /\ [Next]_vars => Shape'
  <1> SUFFICES ASSUME Shape, [Next]_vars PROVE Shape'
    OBVIOUS
  <1>1. CASE UNCHANGED <<statement, answers, selects>> /\ result' \in Ended \cup {"walking"}
             /\ todo' \in Seq(DOMAIN selects) /\ next' \in Nat \ {0}
    BY <1>1 DEF Shape
  <1>2. CASE AgentFails \/ Refuse \/ Misread \/ WalkIsOver
    <2>1. /\ UNCHANGED <<statement, answers, selects, todo, next>>
          /\ result' \in Ended
      BY <1>2 DEF AgentFails, Refuse, Misread, WalkIsOver, End, Ended
    <2> QED
      BY <1>1, <2>1 DEF Shape
  <1>3. CASE Allow
    <2>1. UNCHANGED <<statement, answers, selects, todo, result>> /\ next' \in Nat \ {0}
      BY <1>3 DEF Allow, Shape
    <2> QED
      BY <1>1, <2>1 DEF Shape
  <1>4. CASE Narrow
    <2>1. /\ Asking /\ Understood(Asked)
          /\ IsSequence(selects') /\ Len(selects') = Len(selects) + Len(Queries)
          /\ Len(selects') <= MaxSelects /\ Len(Queries) \in Nat
          /\ DOMAIN selects \subseteq DOMAIN selects'
          /\ \A n \in DOMAIN selects :
                selects'[n] = IF n = Head(todo) THEN Plug(selects[n], FilterOf(Compiled))
                              ELSE selects[n]
          /\ \A i \in DOMAIN Queries :
                /\ Len(selects) + i \in DOMAIN selects' \ DOMAIN selects
                /\ selects'[Len(selects) + i] = Exists(Compiled[Queries[i]])
                /\ Queries[i] \in DOMAIN Compiled /\ Compiled[Queries[i]].extras # {}
          /\ \A n \in DOMAIN selects' :
                n \in DOMAIN selects \/ \E i \in DOMAIN Queries : n = Len(selects) + i
          /\ next' = next + 1 /\ UNCHANGED <<statement, answers, todo, result>>
      BY <1>4, Narrows
    <2>2. /\ DOMAIN selects = 1 .. Len(selects) /\ Len(selects) \in Nat /\ 1 \in DOMAIN selects
          /\ Head(todo) \in DOMAIN selects
      BY <2>1, Indices, AskedIs
    <2>3. \A i \in DOMAIN Queries : Len(selects) + i > Len(selects)
      BY <2>1, <2>2, Narrows, <1>4
    <2>4. ASSUME NEW n \in DOMAIN selects, n # Head(todo)
          PROVE  Sound(selects'[n], n, DOMAIN selects')
      <3>1. selects'[n] = selects[n]
        BY <2>1, <2>4
      <3> QED
        BY <2>1, <3>1 DEF Shape, Sound
    <2>5. Sound(selects'[Head(todo)], Head(todo), DOMAIN selects')
      <3> DEFINE n == Head(todo)
                 select == selects[n]
                 filter == FilterOf(Compiled)
                 plugged == Plug(select, filter)
      <3>1. /\ Sound(select, n, DOMAIN selects) /\ n \in DOMAIN selects /\ selects'[n] = plugged
        BY <2>1, <2>2 DEF Shape
      <3>2. /\ plugged.from = select.from /\ IsSequence(plugged.where)
            /\ ToSet(plugged.where) = {filter} \cup ToSet(select.where)
        BY <3>1, PlugIs DEF Sound
      <3>3. IsSequence(filter)
        BY <2>1, FilterIs
      <3>4. \A query \in ToSet(filter) :
               query.exists = <<>> \/ \E m \in DOMAIN selects' : m > n /\ query.exists = <<m>>
        <4> SUFFICES ASSUME NEW query \in ToSet(filter), query.exists # <<>>
                     PROVE  \E m \in DOMAIN selects' : m > n /\ query.exists = <<m>>
          OBVIOUS
        <4>1. PICK i \in DOMAIN Queries : query.exists = <<(Len(selects) + i)>>
          BY <2>1, FilterSubselects
        <4>2. Len(selects) + i \in DOMAIN selects' /\ Len(selects) + i > Len(selects)
          BY <2>1, <2>3
        <4>3. n \in Nat /\ n <= Len(selects) /\ i \in Nat
          BY <2>1, <2>2, Narrows, <1>4
        <4>4. Len(selects) + i > n
          BY <2>2, <4>2, <4>3
        <4> QED
          BY <4>1, <4>2, <4>4
      <3> HIDE DEF plugged, filter, n, select
      <3>5. Sound(plugged, n, DOMAIN selects')
        BY <2>1, <3>1, <3>2, <3>3, <3>4 DEF Sound
      <3> QED
        BY <3>1, <3>5 DEF n
    <2>6. ASSUME NEW i \in DOMAIN Queries
          PROVE  Sound(selects'[Len(selects) + i], Len(selects) + i, DOMAIN selects')
      <3> DEFINE query == Compiled[Queries[i]]
                 select == Exists(query)
                 n == Len(selects) + i
      <3>1. /\ IsFiniteSet(query.extras) /\ query.extras \subseteq Table
            /\ selects'[n] = select
        BY <2>1, CompiledIs
      <3>2. /\ IsSequence(select.from) /\ IsSequence(select.where)
            /\ ToSet(select.from) = {Unaliased(t) : t \in query.extras}
            /\ \A filter \in ToSet(select.where) :
                  /\ IsSequence(filter)
                  /\ \A q \in ToSet(filter) : q.exists = <<>>
        <4> HIDE DEF query
        <4> QED
          BY <3>1, ExistsIs
      <3>3. \A t \in query.extras : Unaliased(t).table \in Table /\ Unaliased(t).alias = ""
        BY <3>1 DEF Unaliased
      <3> HIDE DEF select, query
      <3> QED
        BY <3>1, <3>2, <3>3 DEF Sound
    <2>7. selects'[1].from = statement'.from
      <3>1. Plug(selects[1], FilterOf(Compiled)).from = selects[1].from
        BY DEF Plug
      <3> QED
        BY <2>1, <2>2, <3>1 DEF Shape
    <2>8. Len(selects') \in 1 .. MaxSelects
      <3>1. Len(selects) >= 1
        BY <2>2
      <3>2. MaxSelects \in Nat \ {0}
        BY Constants
      <3> QED
        BY <2>1, <2>2, <3>1, <3>2
    <2>9. todo' \in Seq(DOMAIN selects')
      <3>1. todo \in Seq(DOMAIN selects)
        BY DEF Shape
      <3> DEFINE S == DOMAIN selects
                 T == DOMAIN selects'
      <3>2. S \subseteq T
        BY <2>1
      <3> HIDE DEF S, T
      <3>3. todo \in Seq(T)
        BY <3>1, <3>2 DEF S
      <3> QED
        BY <2>1, <3>3 DEF T
    <2>10. next' \in Nat \ {0}
      BY <2>1 DEF Shape
    <2>11. \A n \in DOMAIN selects' : Sound(selects'[n], n, DOMAIN selects')
      BY <2>1, <2>4, <2>5, <2>6
    <2> QED
      BY <2>1, <2>7, <2>8, <2>9, <2>10, <2>11 DEF Shape
  <1>5. CASE Descend
    <2>1. todo # <<>> /\ todo' = Inside(Visiting) \o Tail(todo) /\ next' = 1
          /\ UNCHANGED <<statement, answers, selects, result>>
      BY <1>5 DEF Descend
    <2>2. Head(todo) \in DOMAIN selects /\ Tail(todo) \in Seq(DOMAIN selects)
      <3> DEFINE S == DOMAIN selects
      <3>1. todo \in Seq(S)
        BY DEF Shape
      <3> HIDE DEF S
      <3>2. Head(todo) \in S /\ Tail(todo) \in Seq(S)
        BY <2>1, <3>1
      <3> QED
        BY <3>2 DEF S
    <2>3. Inside(Visiting) \in Seq(DOMAIN selects)
      <3>1. Sound(Visiting, Head(todo), DOMAIN selects) /\ DOMAIN selects \in SUBSET Nat
        BY <2>2, Indices DEF Shape, Visiting
      <3> QED
        BY <3>1, InsideIs
    <2>4. todo' \in Seq(DOMAIN selects)
      <3> DEFINE S == DOMAIN selects
      <3> HIDE DEF S
      <3>1. \A x, y \in Seq(S) : x \o y \in Seq(S)
        OBVIOUS
      <3> QED
        BY <2>1, <2>2, <2>3, <3>1 DEF S
    <2> QED
      BY <1>1, <2>1, <2>4 DEF Shape
  <1>6. CASE UNCHANGED vars
    BY <1>1, <1>6 DEF Shape, vars
  <1> QED
    BY <1>2, <1>3, <1>4, <1>5, <1>6 DEF Next, Walk

(* Every SELECT of the growing statement stays a SELECT of tables the      *)
(* agent may be asked about, its own EXISTS numbered after it: the walk of *)
(* postgres_sql_handler.go 83-118 never visits a number that is not there, *)
(* whatever the agent answers.                                             *)
THEOREM ShapeHolds == Spec => []Shape
  BY ShapeInit, ShapeStep, PTL DEF Spec

LEMMA ShapeIsTyped == Shape => TypeOK
  <1> SUFFICES ASSUME Shape PROVE TypeOK
    OBVIOUS
  <1>1. \A n \in ToSet(todo) : n \in DOMAIN selects
    <2>1. todo \in Seq(DOMAIN selects)
      BY DEF Shape
    <2> QED
      BY <2>1, SequenceOf
  <1>2. ASSUME NEW n \in DOMAIN selects, NEW i \in DOMAIN selects[n].from
        PROVE  selects[n].from[i].table \in Table
    BY DEF Shape, Sound, ToSet
  <1> QED
    BY <1>1, <1>2 DEF Shape, TypeOK

(* The walk keeps to its types: TypeOK, from Shape.                        *)
THEOREM TypeCorrect == Spec => []TypeOK
  BY ShapeHolds, ShapeIsTyped, PTL
-----------------------------------------------------------------------------
(* The numbers in the new filter are those of the SELECTs that are added.  *)
LEMMA FilterNumbers ==
    ASSUME Shape, Asking, Understood(Asked), NEW i \in DOMAIN Queries
    PROVE  \E query \in ToSet(FilterOf(Compiled)) : query.exists = <<(Len(selects) + i)>>
  <1> DEFINE q == Queries[i]
  <1>1. q \in DOMAIN Compiled /\ Compiled[q].extras # {}
    BY CompiledIs DEF ToSet
  <1>2. PICK j \in DOMAIN Queries :
           /\ Queries[j] = q
           /\ FilterOf(Compiled)[q] = [conditions |-> {}, exists |-> <<(Len(selects) + j)>>]
    BY <1>1, FilterIs
  <1>3. i = j
    BY <1>2, CompiledIs
  <1>4. q \in DOMAIN FilterOf(Compiled)
    BY <1>1, FilterIs
  <1> QED
    BY <1>2, <1>3, <1>4 DEF ToSet

(* A table stays in the FROM of its SELECT, and an EXISTS in its WHERE.    *)
LEMMA NarrowKeeps ==
    ASSUME Shape, Narrow, NEW n \in DOMAIN selects
    PROVE  /\ n \in DOMAIN selects'
           /\ selects'[n].from = selects[n].from
           /\ n # Head(todo) => selects'[n].where = selects[n].where
           /\ n = Head(todo) =>
                 ToSet(selects'[n].where) = {FilterOf(Compiled)} \cup ToSet(selects[n].where)
           /\ Nested(selects[n].where) \subseteq Nested(selects'[n].where)
  <1>1. /\ n \in DOMAIN selects'
        /\ selects'[n] = IF n = Head(todo) THEN Plug(selects[n], FilterOf(Compiled)) ELSE selects[n]
    BY Narrows
  <1>2. IsSequence(selects[n].where)
    BY DEF Shape, Sound
  <1>3. /\ Plug(selects[n], FilterOf(Compiled)).from = selects[n].from
        /\ ToSet(Plug(selects[n], FilterOf(Compiled)).where)
              = {FilterOf(Compiled)} \cup ToSet(selects[n].where)
    BY <1>2, PlugIs
  <1>4. ToSet(selects[n].where) \subseteq ToSet(selects'[n].where)
    BY <1>1, <1>3
  <1>5. Nested(selects[n].where) \subseteq Nested(selects'[n].where)
    BY <1>4 DEF Nested
  <1> QED
    BY <1>1, <1>3, <1>5

(* The new SELECTs are in the WHERE of the one that is visited.            *)
LEMMA NarrowNests ==
    ASSUME Shape, Narrow, NEW i \in DOMAIN Queries
    PROVE  Len(selects) + i \in Nested(selects'[Head(todo)].where)
  <1>1. Asking /\ Understood(Asked) /\ Head(todo) \in DOMAIN selects
    BY Narrows, AskedIs
  <1>2. PICK query \in ToSet(FilterOf(Compiled)) : query.exists = <<(Len(selects) + i)>>
    BY <1>1, FilterNumbers
  <1>3. FilterOf(Compiled) \in ToSet(selects'[Head(todo)].where)
    BY <1>1, NarrowKeeps
  <1>4. Len(selects) + i \in Nat
    <2>1. DOMAIN Queries = 1 .. Len(Queries) /\ Len(Queries) \in Nat /\ Len(selects) \in Nat
      BY Narrows, Indices
    <2> QED
      BY <2>1
  <1> QED
    BY <1>2, <1>3, <1>4 DEF Nested

(* The names that may be used in SELECT n.                                 *)
NamesAt(n) == UNION {Exposes(selects[m].from) : m \in Around(n) \cup {n}}

(* NamesAreBound, with Shape, is inductive: the conditions of a filter     *)
(* name the table asked about or, in an EXISTS, one of its FROM.           *)
LEMMA NamesInit == Init => NamesAreBound
  <1> SUFFICES ASSUME Init PROVE NamesAreBound
    OBVIOUS
  <1>1. IsStatement(statement)
    BY FilterAssumption DEF Init
  <1>2. DOMAIN selects = 1 .. 1 /\ selects[1] = statement
    BY DEF Init
  <1> SUFFICES ASSUME NEW n \in DOMAIN selects, NEW filter \in ToSet(selects[n].where),
                      NEW query \in ToSet(filter), NEW c \in query.conditions
               PROVE  Names(c) \subseteq UNION {Exposes(selects[m].from) : m \in Around(n) \cup {n}}
    BY DEF NamesAreBound
  <1>3. selects[n] = statement
    BY <1>2
  <1>4. Names(c) \subseteq Exposes(selects[n].from)
    BY <1>1, <1>3 DEF IsStatement
  <1> QED
    BY <1>4

LEMMA NamesStep == Shape /\ Shape' /\ NamesAreBound /\ [Next]_vars => NamesAreBound'
  <1> SUFFICES ASSUME Shape, Shape', NamesAreBound, [Next]_vars PROVE NamesAreBound'
    OBVIOUS
  <1>1. CASE UNCHANGED selects
    BY <1>1 DEF NamesAreBound, Around
  <1>2. CASE AgentFails \/ Refuse \/ Misread \/ WalkIsOver \/ Allow \/ Descend \/ UNCHANGED vars
    <2>1. UNCHANGED selects
      BY <1>2 DEF AgentFails, Refuse, Misread, WalkIsOver, Allow, Descend, End, vars
    <2> QED
      BY <1>1, <2>1
  <1>3. CASE Narrow
    <2> DEFINE n0 == Head(todo)
               F == FilterOf(Compiled)
               Around1(n) == {m \in DOMAIN selects' : n \in Nested(selects'[m].where)}
               Names1(n) == UNION {Exposes(selects'[m].from) : m \in Around1(n) \cup {n}}
    <2>1. Asking /\ Understood(Asked) /\ n0 \in DOMAIN selects
      BY <1>3, Narrows, AskedIs
    <2>2. \A m \in DOMAIN selects : ToSet(Inside(selects[m])) = Nested(selects[m].where)
      <3> SUFFICES ASSUME NEW m \in DOMAIN selects
                   PROVE  ToSet(Inside(selects[m])) = Nested(selects[m].where)
        OBVIOUS
      <3>1. Sound(selects[m], m, DOMAIN selects) /\ DOMAIN selects \in SUBSET Nat
        BY Indices DEF Shape
      <3> QED
        BY <3>1, InsideIs
    <2>3. \A m \in DOMAIN selects' : ToSet(Inside(selects'[m])) = Nested(selects'[m].where)
      <3> SUFFICES ASSUME NEW m \in DOMAIN selects'
                   PROVE  ToSet(Inside(selects'[m])) = Nested(selects'[m].where)
        OBVIOUS
      <3>1. Sound(selects'[m], m, DOMAIN selects')
        BY DEF Shape
      <3>2. DOMAIN selects' \in SUBSET Nat
        <4>1. DOMAIN selects' = 1 .. Len(selects')
          BY <1>3, Narrows, SequenceIs
        <4> QED
          BY <4>1
      <3> QED
        BY <3>1, <3>2, InsideIs
    <2>4. \A n : Around(n)' = Around1(n)
      BY <2>3 DEF Around
    <2>5. ASSUME NEW n \in DOMAIN selects
          PROVE  NamesAt(n) \subseteq Names1(n)
      <3>1. Around(n) \subseteq Around1(n)
        BY <1>3, <2>2, NarrowKeeps DEF Around
      <3>2. \A m \in Around(n) \cup {n} : selects'[m].from = selects[m].from
        BY <1>3, NarrowKeeps DEF Around
      <3> HIDE DEF Around1
      <3> QED
        BY <3>1, <3>2 DEF NamesAt
    <2>6. ASSUME NEW n \in DOMAIN selects, NEW filter \in ToSet(selects[n].where),
                 NEW query \in ToSet(filter), NEW c \in query.conditions
          PROVE  Names(c) \subseteq NamesAt(n)
      BY DEF NamesAreBound, NamesAt
    <2>7. ASSUME NEW query \in ToSet(F), NEW c \in query.conditions
          PROVE  Names(c) \subseteq Names1(n0)
      <3>1. PICK q \in DOMAIN Compiled : query = F[q]
        BY <2>1, FilterIs DEF ToSet
      <3>2. Compiled[q].extras = {} /\ query = [conditions |-> Compiled[q].conditions, exists |-> <<>>]
        <4>1. CASE Compiled[q].extras = {}
          BY <2>1, <3>1, <4>1, FilterIs
        <4>2. CASE Compiled[q].extras # {}
          <5>1. \E i \in DOMAIN Queries : F[q] = [conditions |-> {}, exists |-> <<(Len(selects) + i)>>]
            BY <2>1, <4>2, FilterIs
          <5>2. query.conditions = {}
            BY <3>1, <5>1
          <5> QED
            BY <2>7, <5>2
        <4> QED
          BY <4>1, <4>2
      <3>3. c \in Compiled[q].conditions
        BY <2>7, <3>2
      <3>4. Names(c) \subseteq {Exposed(Asked)}
        BY <2>1, <3>2, <3>3, CompiledIs
      <3>5. Exposed(Asked) \in Exposes(selects[n0].from)
        BY <2>1, AskedIs DEF Exposes, Visiting
      <3>6. selects'[n0].from = selects[n0].from
        BY <1>3, <2>1, NarrowKeeps
      <3> HIDE DEF Around1, n0
      <3> QED
        BY <3>4, <3>5, <3>6
    <2>8. ASSUME NEW i \in DOMAIN Queries, NEW filter \in ToSet(selects'[Len(selects) + i].where),
                 NEW query \in ToSet(filter), NEW c \in query.conditions
          PROVE  Names(c) \subseteq Names1(Len(selects) + i)
      <3> DEFINE compiled == Compiled[Queries[i]]
                 n == Len(selects) + i
      <3>1. Queries[i] \in DOMAIN Compiled /\ selects'[n] = Exists(compiled) /\ n \in DOMAIN selects'
        BY <1>3, Narrows
      <3>2. /\ IsFiniteSet(compiled.extras)
            /\ \A d \in compiled.conditions : Names(d) \subseteq compiled.extras \cup {Exposed(Asked)}
        BY <2>1, <3>1, CompiledIs
      <3>3. query.conditions = compiled.conditions /\ Exposes(selects'[n].from) = compiled.extras
        <4> HIDE DEF compiled
        <4> QED
          BY <2>8, <3>1, <3>2, ExistsIs
      <3>4. n0 \in Around1(n) /\ selects'[n0].from = selects[n0].from
        BY <1>3, <2>1, NarrowNests, NarrowKeeps
      <3>5. Exposed(Asked) \in Exposes(selects[n0].from)
        BY <2>1, AskedIs DEF Exposes, Visiting
      <3>6. Exposes(selects'[n].from) \subseteq Names1(n) /\ Exposes(selects'[n0].from) \subseteq Names1(n)
        BY <3>4
      <3>7. Names(c) \subseteq compiled.extras \cup {Exposed(Asked)}
        BY <2>8, <3>2, <3>3
      <3> HIDE DEF Names1, compiled, n0, n
      <3>8. Names(c) \subseteq Names1(n)
        BY <3>3, <3>4, <3>5, <3>6, <3>7
      <3> QED
        BY <3>8 DEF n
    <2>9. ASSUME NEW n \in DOMAIN selects', NEW filter \in ToSet(selects'[n].where),
                 NEW query \in ToSet(filter), NEW c \in query.conditions
          PROVE  Names(c) \subseteq Names1(n)
      <3>1. n \in DOMAIN selects \/ \E i \in DOMAIN Queries : n = Len(selects) + i
        BY <1>3, Narrows
      <3>2. CASE n \in DOMAIN selects
        <4>1. filter \in ToSet(selects[n].where) \/ (n = n0 /\ filter = F)
          BY <1>3, <2>9, <3>2, NarrowKeeps
        <4> HIDE DEF Names1, F, n0
        <4> QED
          BY <2>5, <2>6, <2>7, <2>9, <3>2, <4>1
      <3>3. CASE \E i \in DOMAIN Queries : n = Len(selects) + i
        <4> HIDE DEF Names1
        <4> QED
          BY <2>8, <2>9, <3>3
      <3> QED
        BY <3>1, <3>2, <3>3
    <2>10. \A n : UNION {Exposes(selects'[m].from) : m \in Around(n)' \cup {n}} = Names1(n)
      BY <2>4
    <2> HIDE DEF Names1
    <2> QED
      BY <2>9, <2>10 DEF NamesAreBound
  <1> QED
    BY <1>2, <1>3 DEF Next, Walk

(* Whatever the agent answers, the conditions that are plugged in name     *)
(* only tables of the SELECT they are in, or of the one it was plugged     *)
(* into (opa.go 63-67; postgres_sql_handler.go 102-118): NamesAreBound.    *)
THEOREM NamesBound == Spec => []NamesAreBound
  <1>1. Shape /\ NamesAreBound /\ Shape' /\ [Next]_vars => NamesAreBound'
    BY NamesStep
  <1> QED
    BY <1>1, NamesInit, ShapeHolds, PTL DEF Spec
-----------------------------------------------------------------------------
(* What a reached table mentions is reached.                               *)
LEMMA Reaching ==
    /\ \A t \in Reached : Mentions(t) \subseteq Reached
    /\ Shape => \A table \in ToSet(statement.from) : table.table \in Reached
  <1> DEFINE from == {t.table : t \in ToSet(statement.from)}
  <1>1. \A t : Mentions(t) \subseteq Table
    BY DEF Mentions, Mentioned, IsColumn
  <1>2. ASSUME NEW t \in Closure(from), NEW x \in Mentions(t)
        PROVE  x \in Closure(from)
    <2>1. ASSUME NEW S \in SUBSET Table, from \subseteq S, Closed(S)
          PROVE  x \in S
      <3>1. t \in S
        BY <1>2, <2>1 DEF Closure
      <3> QED
        BY <1>2, <2>1, <3>1 DEF Closed
    <2>2. x \in Table
      BY <1>1, <1>2
    <2> HIDE DEF from
    <2> QED
      BY <2>1, <2>2 DEF Closure
  <1>3. ASSUME Shape, NEW table \in ToSet(statement.from)
        PROVE  table.table \in Closure(from)
    <2>1. Sound(selects[1], 1, DOMAIN selects) /\ selects[1].from = statement.from
      BY <1>3, Indices DEF Shape
    <2>2. table.table \in Table
      BY <1>3, <2>1 DEF Sound
    <2>3. table.table \in from
      OBVIOUS
    <2> HIDE DEF from
    <2> QED
      BY <2>2, <2>3 DEF Closure
  <1> QED
    BY <1>2, <1>3 DEF Reached

(* While all answers are comparisons, the tables that are asked about are  *)
(* those the policies lead to; and then a refusal is a denial.             *)
Leads == Meaningful =>
    \A n \in DOMAIN selects : \A table \in ToSet(selects[n].from) : table.table \in Reached

Denied == result \in {"refused", "misread"} /\ Meaningful => \E t \in Reached : IsDisallowed(answers[t])

(* A query's extra tables are among those its table's policy mentions.     *)
LEMMA CompiledMentions ==
    ASSUME Shape, Asking, Meaningful, Asked.table \in Reached, NEW q \in DOMAIN Compiled
    PROVE  /\ q \in DOMAIN answers[Asked.table]
           /\ Compiled[q] = Query(answers[Asked.table][q], Asked.table, Asked.alias)
           /\ IsQuery(answers[Asked.table][q])
           /\ \A e \in ToSet(answers[Asked.table][q]) : WellFormed(e)
           /\ Compiled[q].extras \subseteq Mentions(Asked.table)
  <1> DEFINE t == Asked.table
             query == answers[t][q]
  <1>1. t \in Table /\ IsAnswer(answers[t])
    BY AskedIs
  <1>2. q \in DOMAIN answers[t] /\ Compiled[q] = Query(query, t, Asked.alias)
    BY DEF Compiled, Compile
  <1>3. IsQuery(query) /\ query \in ToSet(answers[t])
    BY <1>1, <1>2, AnswersAreQueries
  <1>4. \A e \in ToSet(query) : WellFormed(e)
    BY <1>2 DEF Meaningful, Expressions
  <1> HIDE DEF t, query
  <1>5. Query(query, t, Asked.alias).extras \subseteq Mentioned(query) \ {t}
    BY <1>1, <1>3, <1>4, QueryMentions
  <1>6. Mentioned(query) \ {t} \subseteq Mentions(t)
    <2>1. Mentioned(query) \in {Mentioned(x) : x \in ToSet(answers[t])}
      BY <1>3
    <2> DEFINE M == {Mentioned(x) : x \in ToSet(answers[t])}
    <2>2. Mentioned(query) \subseteq UNION M
      BY <2>1
    <2>3. Mentions(t) = (UNION M) \ {t}
      BY DEF Mentions
    <2> HIDE DEF M
    <2> QED
      BY <2>2, <2>3
  <1> QED
    BY <1>2, <1>3, <1>4, <1>5, <1>6 DEF t, query

(* Neither the statement nor the answers change.                           *)
LEMMA Kept == [Next]_vars => UNCHANGED <<statement, answers>>
  <1> DEFINE Same == UNCHANGED <<statement, answers>>
  <1>1. AgentFails => Same
    BY DEF AgentFails, End
  <1>2. Refuse => Same
    BY DEF Refuse, End
  <1>3. Allow => Same
    BY DEF Allow
  <1>4. Narrow => Same
    BY DEF Narrow
  <1>5. Descend => Same
    BY DEF Descend
  <1>6. WalkIsOver => Same
    BY DEF WalkIsOver, End
  <1>7. Misread => Same
    BY DEF Misread, End
  <1>8. UNCHANGED vars => Same
    BY DEF vars
  <1> HIDE DEF Same
  <1>9. [Next]_vars => Same
    BY <1>1, <1>2, <1>3, <1>4, <1>5, <1>6, <1>7, <1>8 DEF Next, Walk
  <1> QED
    BY <1>9 DEF Same

(* Both are preserved, once the shape is.                                  *)
LEMMA ReasonInit == Init /\ Shape => Leads /\ Denied
  <1> SUFFICES ASSUME Init, Shape PROVE Leads /\ Denied
    OBVIOUS
  <1>1. Denied
    BY DEF Init, Denied
  <1>2. DOMAIN selects = 1 .. 1 /\ selects[1] = statement
    BY DEF Init
  <1>3. Leads
    BY <1>2, Reaching DEF Leads
  <1> QED
    BY <1>1, <1>3

LEMMA ReasonStep == Shape /\ Leads /\ Denied /\ [Next]_vars => Leads' /\ Denied'
  <1> SUFFICES ASSUME Shape, Leads, Denied, [Next]_vars PROVE Leads' /\ Denied'
    OBVIOUS
  <1>1. /\ UNCHANGED <<statement, answers>>
        /\ Meaningful' = Meaningful /\ Reached' = Reached
    <2>1. UNCHANGED <<statement, answers>>
      BY Kept
    <2>2. \A t : Mentions(t)' = Mentions(t)
      BY <2>1 DEF Mentions
    <2>3. \A from : Closure(from)' = Closure(from)
      BY <2>2 DEF Closure, Closed
    <2>4. Reached' = Reached
      BY <2>1, <2>3 DEF Reached
    <2> QED
      BY <2>1, <2>4 DEF Meaningful
  <1>2. UNCHANGED selects => Leads'
    BY <1>1 DEF Leads
  <1>3. result' \notin {"refused", "misread"} \/ UNCHANGED result => Denied'
    BY <1>1 DEF Denied
  <1>4. CASE AgentFails \/ WalkIsOver
    <2>1. UNCHANGED selects /\ result' \notin {"refused", "misread"}
      BY <1>4 DEF AgentFails, WalkIsOver, End
    <2> QED
      BY <1>2, <1>3, <2>1
  <1>5. CASE Allow \/ Descend \/ UNCHANGED vars
    <2>1. UNCHANGED <<selects, result>>
      BY <1>5 DEF Allow, Descend, vars
    <2> QED
      BY <1>2, <1>3, <2>1
  <1>6. CASE Refuse \/ Misread
    <2>1. /\ UNCHANGED selects /\ Asking
          /\ IsDisallowed(answers[Asked.table]) \/ ~ Understood(Asked)
      BY <1>6 DEF Refuse, Misread, Understood, End, Asked
    <2>2. ASSUME Meaningful
          PROVE  \E t \in Reached : IsDisallowed(answers[t])
      <3>1. Asked.table \in Reached
        BY <2>1, <2>2, AskedIs DEF Leads, Visiting
      <3>2. IsAnswer(answers[Asked.table])
        BY <2>1, AskedIs
      <3>3. \A e \in Expressions(answers[Asked.table]) : WellFormed(e)
        BY <2>2, <3>1 DEF Meaningful
      <3>4. Understood(Asked)
        <4>1. "" \notin Table
          BY Constants
        <4> QED
          BY <3>2, <3>3, <4>1, WellFormedUnderstood
      <3> QED
        BY <2>1, <3>1, <3>4
    <2>3. Denied'
      BY <1>1, <2>2 DEF Denied
    <2> QED
      BY <1>2, <2>1, <2>3
  <1>7. CASE Narrow
    <2>1. Asking /\ Understood(Asked) /\ UNCHANGED result /\ Head(todo) \in DOMAIN selects
      BY <1>7, Narrows, AskedIs
    <2>2. Denied'
      BY <1>3, <2>1
    <2>3. ASSUME Meaningful, NEW n \in DOMAIN selects', NEW table \in ToSet(selects'[n].from)
          PROVE  table.table \in Reached
      <3>1. CASE n \in DOMAIN selects
        <4>1. selects'[n].from = selects[n].from
          BY <1>7, <3>1, NarrowKeeps
        <4> QED
          BY <2>3, <3>1, <4>1 DEF Leads
      <3>2. CASE n \notin DOMAIN selects
        <4>1. PICK i \in DOMAIN Queries :
                 /\ selects'[n] = Exists(Compiled[Queries[i]])
                 /\ Queries[i] \in DOMAIN Compiled
          BY <1>7, <2>3, <3>2, Narrows
        <4> DEFINE compiled == Compiled[Queries[i]]
        <4>2. Asked.table \in Reached
          BY <2>1, <2>3, AskedIs DEF Leads, Visiting
        <4>3. compiled.extras \subseteq Mentions(Asked.table)
          BY <2>1, <2>3, <4>1, <4>2, CompiledMentions
        <4>4. compiled.extras \subseteq Reached
          BY <4>2, <4>3, Reaching
        <4>5. IsFiniteSet(compiled.extras)
          BY <2>1, <4>1, CompiledIs
        <4> HIDE DEF compiled
        <4>6. ToSet(Exists(compiled).from) = {Unaliased(t) : t \in compiled.extras}
          BY <4>5, ExistsIs
        <4>7. \A t : Unaliased(t).table = t
          BY DEF Unaliased
        <4> QED
          BY <2>3, <4>1, <4>4, <4>6, <4>7 DEF compiled
      <3> QED
        BY <3>1, <3>2
    <2>4. Leads'
      BY <1>1, <2>3 DEF Leads
    <2> QED
      BY <2>2, <2>4
  <1> QED
    BY <1>4, <1>5, <1>6, <1>7 DEF Next, Walk

LEMMA ReasonHolds == Spec => [](Leads /\ Denied)
  BY ShapeInit, ReasonInit, ReasonStep, ShapeHolds, PTL DEF Spec

(* With the agent there, a statement is refused (postgres_sql_handler.go   *)
(* 97-110), or read as another, only for a table its policies lead to,     *)
(* which is denied or has a condition that does not compare a column with  *)
(* a column or a value without a quote in it: RefusedForAReason.           *)
THEOREM RefusalsHaveReasons == Spec => []RefusedForAReason
  <1>1. Denied => RefusedForAReason
    BY DEF Denied, RefusedForAReason, Meaningful
  <1> QED
    BY <1>1, ReasonHolds, PTL
-----------------------------------------------------------------------------
(* A SELECT's own filters: those of the client, or the one of an EXISTS.   *)
(* The others are plugged in.                                              *)
Own(n, select) == IF n = 1 THEN statement.where ELSE <<Last(select.where)>>

(* A filter that says of a table of SELECT n what the agent's answer says. *)
Stands(filter, n, table, all) ==
    LET compiled == Compile(answers[table.table], table.table, table.alias)
    IN  /\ DOMAIN filter = DOMAIN compiled
        /\ \A q \in DOMAIN compiled :
              \/ /\ compiled[q].extras = {}
                 /\ filter[q] = [conditions |-> compiled[q].conditions, exists |-> <<>>]
              \/ /\ compiled[q].extras # {}
                 /\ \E m \in DOMAIN all : /\ m > n /\ filter[q].exists = <<m>>
                                          /\ all[m].from = Exists(compiled[q]).from
                                          /\ Own(m, all[m]) = Exists(compiled[q]).where

(* Every filter of a SELECT is its own or stands for a table of its FROM;  *)
(* every table of it that has been asked about is allowed or has its       *)
(* filter.                                                                 *)
Filled(n, select, all) ==
    /\ n > 1 => Len(select.where) > 0
    /\ \A filter \in ToSet(Own(n, select)) :
          filter \in ToSet(select.where) /\ \A query \in ToSet(filter) : query.exists = <<>>
    /\ \A filter \in ToSet(select.where) :
          \/ filter \in ToSet(Own(n, select))
          \/ \E table \in ToSet(select.from) : Stands(filter, n, table, all)

Treated(n, table, select, all) ==
    \/ IsAllowed(answers[table.table])
    \/ \E filter \in ToSet(select.where) : Stands(filter, n, table, all)

(* The SELECTs the walker has not come to yet.                             *)
Pending == IF todo = <<>> THEN {} ELSE Nested(Visiting.where) \cup ToSet(Tail(todo))

(* The same of all SELECTs, as far as the walk has come.                   *)
AllFilled == \A n \in DOMAIN selects : Filled(n, selects[n], selects)

AllTreated ==
    \A n \in DOMAIN selects :
        \/ n \in Pending
        \/ \A j \in DOMAIN selects[n].from :
              (todo # <<>> /\ n = Head(todo) => j < next)
                  => Treated(n, selects[n].from[j], selects[n], selects)

Plugged == /\ AllFilled /\ AllTreated
           /\ result = "rewritten" => todo = <<>>

(* Plugged is an invariant: filters are added and never lost.              *)
LEMMA PluggedInit == Init => Plugged
  <1> SUFFICES ASSUME Init PROVE Plugged
    OBVIOUS
  <1>1. IsStatement(statement)
    BY FilterAssumption DEF Init
  <1>2. DOMAIN selects = 1 .. 1 /\ selects[1] = statement /\ todo = <<1>> /\ next = 1
        /\ result = "walking"
    BY DEF Init
  <1>3. Filled(1, statement, selects)
    BY <1>1 DEF IsStatement, Filled, Own
  <1>4. todo # <<>> /\ Head(todo) = 1
    BY <1>2
  <1>5. DOMAIN selects[1].from \subseteq Nat \ {0}
    <2>1. IsSequence(statement.from)
      BY <1>1 DEF IsStatement
    <2>2. DOMAIN statement.from = 1 .. Len(statement.from)
      BY <2>1, SequenceIs
    <2> QED
      BY <1>2, <2>2
  <1>6. AllTreated
    BY <1>2, <1>4, <1>5 DEF AllTreated
  <1>7. AllFilled
    BY <1>2, <1>3 DEF AllFilled
  <1> QED
    BY <1>2, <1>6, <1>7 DEF Plugged

(* A filter keeps its meaning while the statement grows.                   *)
LEMMA OwnStays ==
    ASSUME Shape, Narrow, AllFilled, NEW n \in DOMAIN selects
    PROVE  Own(n, selects'[n]) = Own(n, selects[n]) /\ (n > 1 => Len(selects'[n].where) > 0)
  <1>1. selects'[n] = IF n = Head(todo) THEN Plug(selects[n], FilterOf(Compiled)) ELSE selects[n]
    BY Narrows
  <1>2. n > 1 => Len(selects[n].where) > 0
    BY DEF AllFilled, Filled
  <1>3. n = 1 \/ n > 1
    BY Indices
  <1>4. IsSequence(selects[n].where)
    BY DEF Shape, Sound
  <1>5. n > 1 => /\ Len(Plug(selects[n], FilterOf(Compiled)).where) > 0
                 /\ Last(Plug(selects[n], FilterOf(Compiled)).where) = Last(selects[n].where)
    BY <1>2, <1>4, PlugIs DEF Last
  <1> QED
    BY <1>1, <1>2, <1>3, <1>5 DEF Own

LEMMA StandsStays ==
    ASSUME Shape, Narrow, AllFilled, NEW n, NEW filter, NEW table,
           Stands(filter, n, table, selects)
    PROVE  Stands(filter, n, table, selects')
  <1>1. \A m \in DOMAIN selects : /\ m \in DOMAIN selects' /\ selects'[m].from = selects[m].from
                                  /\ Own(m, selects'[m]) = Own(m, selects[m])
    BY NarrowKeeps, OwnStays
  <1> QED
    BY <1>1 DEF Stands

(* The filter that Narrow plugs in stands for the table asked about.       *)
LEMMA NewStands ==
    ASSUME Shape, Narrow
    PROVE  Stands(FilterOf(Compiled), Head(todo), Asked, selects')
  <1>1. Asking /\ Understood(Asked) /\ Head(todo) \in DOMAIN selects
    BY Narrows, AskedIs
  <1>2. DOMAIN FilterOf(Compiled) = DOMAIN Compiled
    BY <1>1, FilterIs
  <1>3. ASSUME NEW q \in DOMAIN Compiled, Compiled[q].extras # {}
        PROVE  \E m \in DOMAIN selects' : /\ m > Head(todo) /\ FilterOf(Compiled)[q].exists = <<m>>
                                          /\ selects'[m].from = Exists(Compiled[q]).from
                                          /\ Own(m, selects'[m]) = Exists(Compiled[q]).where
    <2>1. PICK i \in DOMAIN Queries :
             /\ Queries[i] = q
             /\ FilterOf(Compiled)[q] = [conditions |-> {}, exists |-> <<(Len(selects) + i)>>]
      BY <1>1, <1>3, FilterIs
    <2> DEFINE m == Len(selects) + i
    <2>2. m \in DOMAIN selects' /\ selects'[m] = Exists(Compiled[q])
      BY <2>1, Narrows
    <2>3. m > Head(todo) /\ m # 1
      <3>1. /\ DOMAIN Queries = 1 .. Len(Queries) /\ Len(Queries) \in Nat
            /\ DOMAIN selects = 1 .. Len(selects) /\ Len(selects) \in Nat
        BY Narrows, Indices
      <3> QED
        BY <1>1, <3>1
    <2>4. FilterOf(Compiled)[q].exists = <<m>>
      BY <2>1
    <2>5. Exists(Compiled[q]).where = <<Last(Exists(Compiled[q]).where)>>
      <3> DEFINE filter == <<[conditions |-> Compiled[q].conditions, exists |-> <<>>]>>
      <3>1. Exists(Compiled[q]).where = <<filter>>
        BY DEF Exists
      <3> HIDE DEF filter
      <3> QED
        BY <3>1 DEF Last
    <2>6. Own(m, selects'[m]) = Exists(Compiled[q]).where
      BY <2>2, <2>3, <2>5 DEF Own
    <2> QED
      BY <2>2, <2>3, <2>4, <2>6
  <1>4. \A q \in DOMAIN Compiled : Compiled[q].extras = {} =>
           FilterOf(Compiled)[q] = [conditions |-> Compiled[q].conditions, exists |-> <<>>]
    BY <1>1, FilterIs
  <1>5. Compiled = Compile(answers[Asked.table], Asked.table, Asked.alias)
    BY DEF Compiled
  <1> QED
    BY <1>2, <1>3, <1>4, <1>5 DEF Stands

LEMMA PluggedStep == Shape /\ Plugged /\ [Next]_vars => Plugged'
  <1> SUFFICES ASSUME Shape, Plugged, [Next]_vars PROVE Plugged'
    OBVIOUS
  <1>1. /\ UNCHANGED <<statement, answers>>
        /\ \A n, select, all : /\ Filled(n, select, all)' <=> Filled(n, select, all)
                               /\ \A table : Treated(n, table, select, all)'
                                                <=> Treated(n, table, select, all)
    <2>1. UNCHANGED <<statement, answers>>
      BY Kept
    <2>2. \A n, select : Own(n, select)' = Own(n, select)
      BY <2>1 DEF Own
    <2>3. \A filter, n, table, all :
             Stands(filter, n, table, all)' <=> Stands(filter, n, table, all)
      BY <2>1, <2>2 DEF Stands
    <2> QED
      BY <2>1, <2>2, <2>3 DEF Filled, Treated
  <1>2. UNCHANGED selects => AllFilled'
    BY <1>1 DEF AllFilled, Plugged
  <1>3. UNCHANGED <<selects, todo, next>> => AllTreated'
    BY <1>1 DEF AllTreated, Plugged, Pending, Visiting
  <1>4. CASE AgentFails \/ Refuse \/ Misread \/ WalkIsOver \/ UNCHANGED vars
    <2>1. UNCHANGED <<selects, todo, next>> /\ (result' = "rewritten" => todo = <<>>)
      BY <1>4 DEF AgentFails, Refuse, Misread, WalkIsOver, End, vars, Plugged
    <2> QED
      BY <1>2, <1>3, <2>1 DEF Plugged
  <1>5. CASE Allow
    <2>1. /\ UNCHANGED <<selects, todo, result>> /\ next' = next + 1
          /\ Asking /\ IsAllowed(answers[Asked.table])
      BY <1>5 DEF Allow, Asked
    <2>2. ASSUME NEW n \in DOMAIN selects, n \notin Pending, NEW j \in DOMAIN selects[n].from,
                 todo # <<>> /\ n = Head(todo) => j < next + 1
          PROVE  Treated(n, selects[n].from[j], selects[n], selects)
      <3>1. CASE n = Head(todo) /\ j = next
        BY <2>1, <3>1 DEF Treated, Asked, Visiting
      <3>2. CASE ~ (n = Head(todo) /\ j = next)
        <4>1. j \in Nat /\ next \in Nat
          <5>1. IsSequence(selects[n].from) /\ next \in Nat
            BY DEF Shape, Sound
          <5> QED
            BY <5>1, SequenceIs
        <4>2. todo # <<>> /\ n = Head(todo) => j < next
          BY <2>2, <3>2, <4>1
        <4> QED
          BY <2>2, <4>2 DEF Plugged, AllTreated
      <3> QED
        BY <3>1, <3>2
    <2>3. Pending' = Pending
      BY <2>1 DEF Pending, Visiting
    <2>4. AllTreated'
      BY <1>1, <2>1, <2>2, <2>3 DEF AllTreated
    <2> QED
      BY <1>2, <2>1, <2>4 DEF Plugged
  <1>6. CASE Descend
    <2>1. /\ result = "walking" /\ todo # <<>> /\ next > Len(Visiting.from)
          /\ todo' = Inside(Visiting) \o Tail(todo) /\ next' = 1
          /\ UNCHANGED <<statement, answers, selects, result>>
      BY <1>6 DEF Descend
    <2>2. Head(todo) \in DOMAIN selects /\ Tail(todo) \in Seq(DOMAIN selects)
      <3> DEFINE S == DOMAIN selects
      <3>1. todo \in Seq(S)
        BY DEF Shape
      <3> HIDE DEF S
      <3>2. Head(todo) \in S /\ Tail(todo) \in Seq(S)
        BY <2>1, <3>1
      <3> QED
        BY <3>2 DEF S
    <2>3. /\ Inside(Visiting) \in Seq(DOMAIN selects)
          /\ ToSet(Inside(Visiting)) = Nested(Visiting.where)
      <3>1. Sound(Visiting, Head(todo), DOMAIN selects) /\ DOMAIN selects \in SUBSET Nat
        BY <2>2, Indices DEF Shape, Visiting
      <3> QED
        BY <3>1, InsideIs
    <2>4. IsSequence(Inside(Visiting)) /\ IsSequence(Tail(todo))
      BY <2>2, <2>3, SequenceOf
    <2>5. ToSet(todo') = Pending
      <3>1. ToSet(Inside(Visiting) \o Tail(todo)) = ToSet(Inside(Visiting)) \cup ToSet(Tail(todo))
        BY <2>4, Concatenation
      <3> QED
        BY <2>1, <2>3, <3>1 DEF Pending
    <2>6. IsSequence(todo')
      BY <2>1, <2>4, Concatenation
    <2>7. todo' # <<>> => /\ Head(todo') \in ToSet(todo')
                          /\ \A n \in ToSet(todo') : n = Head(todo') \/ n \in ToSet(Tail(todo'))
      <3> DEFINE t == todo'
                 S == ToSet(t)
      <3>1. t \in Seq(S)
        BY <2>6 DEF IsSequence
      <3> SUFFICES ASSUME t # <<>>
                   PROVE  Head(t) \in S /\ \A n \in S : n = Head(t) \/ n \in ToSet(Tail(t))
        OBVIOUS
      <3>2. \A n \in S : \E i \in DOMAIN t : n = t[i]
        BY DEF ToSet
      <3> HIDE DEF t, S
      <3>3. /\ Head(t) = t[1] /\ Head(t) \in S /\ DOMAIN t = 1 .. Len(t) /\ Len(t) \in Nat
            /\ DOMAIN Tail(t) = 1 .. Len(t) - 1
            /\ \A i \in 1 .. Len(t) - 1 : Tail(t)[i] = t[i + 1]
        BY <3>1
      <3>4. ASSUME NEW i \in DOMAIN t, i # 1
            PROVE  t[i] \in ToSet(Tail(t))
        <4>1. i - 1 \in 1 .. Len(t) - 1 /\ (i - 1) + 1 = i
          BY <3>3, <3>4
        <4>2. t[i] = Tail(t)[i - 1]
          BY <3>3, <4>1
        <4> QED
          BY <3>3, <4>1, <4>2 DEF ToSet
      <3> QED
        BY <3>2, <3>3, <3>4
    <2>8. ASSUME NEW n \in DOMAIN selects, n \notin Pending', NEW j \in DOMAIN selects[n].from,
                 todo' # <<>> /\ n = Head(todo') => j < 1
          PROVE  Treated(n, selects[n].from[j], selects[n], selects)
      <3>1. j \in Nat \ {0} /\ j <= Len(selects[n].from) /\ Len(selects[n].from) \in Nat /\ next \in Nat
        <4>1. IsSequence(selects[n].from) /\ next \in Nat
          BY DEF Shape, Sound
        <4> QED
          BY <4>1, SequenceIs
      <3>2. todo' # <<>> => n # Head(todo')
        BY <2>8, <3>1
      <3>3. todo' # <<>> => n \notin ToSet(Tail(todo'))
        BY <2>8 DEF Pending
      <3>4. n \notin ToSet(todo')
        <4>1. CASE todo' = <<>>
          BY <4>1 DEF ToSet
        <4> QED
          BY <2>7, <3>2, <3>3, <4>1
      <3>5. n \notin Pending
        BY <2>5, <3>4
      <3>6. n = Head(todo) => j < next
        BY <2>1, <3>1 DEF Visiting
      <3> QED
        BY <3>5, <3>6 DEF Plugged, AllTreated
    <2>9. AllTreated'
      BY <1>1, <2>1, <2>8 DEF AllTreated
    <2> QED
      BY <1>2, <2>1, <2>9 DEF Plugged
  <1>7. CASE Narrow
    <2> DEFINE n0 == Head(todo)
               F == FilterOf(Compiled)
    <2>1. /\ Asking /\ Understood(Asked) /\ n0 \in DOMAIN selects
          /\ next' = next + 1 /\ UNCHANGED <<todo, result>> /\ todo # <<>>
      <3>1. Asking => todo # <<>>
        BY DEF Asking
      <3> QED
        BY <1>7, <3>1, Narrows, AskedIs
    <2>2. AllFilled
      BY DEF Plugged
    <2>3. ASSUME NEW n \in DOMAIN selects
          PROVE  Filled(n, selects'[n], selects')
      <3>1. /\ Own(n, selects'[n]) = Own(n, selects[n]) /\ (n > 1 => Len(selects'[n].where) > 0)
            /\ selects'[n].from = selects[n].from
            /\ n # n0 => selects'[n].where = selects[n].where
            /\ n = n0 => ToSet(selects'[n].where) = {F} \cup ToSet(selects[n].where)
        BY <1>7, <2>2, OwnStays, NarrowKeeps
      <3>2. Filled(n, selects[n], selects)
        BY <2>2 DEF AllFilled
      <3>3. n = n0 => Stands(F, n, Asked, selects') /\ Asked \in ToSet(selects'[n].from)
        BY <1>7, <2>1, <3>1, NewStands, AskedIs DEF Visiting
      <3>4. \A filter, table : Stands(filter, n, table, selects) => Stands(filter, n, table, selects')
        BY <1>7, <2>2, StandsStays
      <3> HIDE DEF F, n0
      <3>5. /\ ToSet(selects[n].where) \subseteq ToSet(selects'[n].where)
            /\ \A filter \in ToSet(selects'[n].where) :
                  filter \in ToSet(selects[n].where) \/ (n = n0 /\ filter = F)
        BY <3>1
      <3> QED
        BY <3>1, <3>2, <3>3, <3>4, <3>5 DEF Filled
    <2>4. ASSUME NEW i \in DOMAIN Queries
          PROVE  Filled(Len(selects) + i, selects'[Len(selects) + i], selects')
      <3> DEFINE n == Len(selects) + i
                 compiled == Compiled[Queries[i]]
                 select == selects'[n]
      <3>1. select = Exists(compiled) /\ IsFiniteSet(compiled.extras)
        BY <1>7, <2>1, Narrows, CompiledIs
      <3>2. n > 1
        <4>1. /\ DOMAIN Queries = 1 .. Len(Queries) /\ Len(Queries) \in Nat
              /\ DOMAIN selects = 1 .. Len(selects) /\ Len(selects) \in Nat /\ 1 \in DOMAIN selects
          BY <1>7, Narrows, Indices
        <4> QED
          BY <4>1
      <3> HIDE DEF compiled
      <3>3. /\ Len(select.where) = 1
            /\ \A filter \in ToSet(select.where) : \A q \in ToSet(filter) : q.exists = <<>>
        BY <3>1, ExistsIs
      <3>4. Own(n, select) = select.where
        <4> DEFINE filter == <<[conditions |-> compiled.conditions, exists |-> <<>>]>>
        <4>1. Exists(compiled).where = <<filter>>
          BY DEF Exists
        <4> HIDE DEF filter
        <4>2. <<Last(Exists(compiled).where)>> = Exists(compiled).where
          BY <4>1 DEF Last
        <4>3. n # 1
          BY <3>2
        <4> QED
          BY <3>1, <4>2, <4>3 DEF Own
      <3> HIDE DEF select, n
      <3>5. Filled(n, select, selects')
        BY <3>3, <3>4 DEF Filled
      <3> QED
        BY <3>5 DEF n, select
    <2>5. AllFilled'
      <3>1. \A n \in DOMAIN selects' : Filled(n, selects'[n], selects')
        BY <1>7, <2>3, <2>4, Narrows
      <3> QED
        BY <1>1, <3>1 DEF AllFilled
    <2>6. Pending \subseteq Pending'
      <3>1. Nested(selects[n0].where) \subseteq Nested(selects'[n0].where)
        BY <1>7, <2>1, NarrowKeeps
      <3> QED
        BY <2>1, <3>1 DEF Pending, Visiting
    <2>7. \A i \in DOMAIN Queries : Len(selects) + i \in Pending'
      BY <1>7, <2>1, NarrowNests DEF Pending, Visiting
    <2>8. ASSUME NEW n \in DOMAIN selects, n \notin Pending', NEW j \in DOMAIN selects[n].from,
                 n = n0 => j < next + 1
          PROVE  Treated(n, selects[n].from[j], selects'[n], selects')
      <3> DEFINE table == selects[n].from[j]
      <3> SUFFICES Treated(n, table, selects'[n], selects')
        OBVIOUS
      <3>1. \A filter : Stands(filter, n, table, selects) => Stands(filter, n, table, selects')
        BY <1>7, <2>2, StandsStays
      <3>2. ToSet(selects[n].where) \subseteq ToSet(selects'[n].where)
        BY <1>7, NarrowKeeps
      <3>3. CASE n = n0 /\ j = next
        <4>1. table = Asked
          BY <3>3 DEF Asked, Visiting
        <4>2. F \in ToSet(selects'[n].where)
          BY <1>7, <2>1, <3>3, NarrowKeeps
        <4>3. Stands(F, n, Asked, selects')
          BY <1>7, <3>3, NewStands
        <4> HIDE DEF F
        <4> HIDE DEF table
        <4>4. Stands(F, n, table, selects')
          BY <4>1, <4>3 DEF Stands
        <4> QED
          BY <4>2, <4>4 DEF Treated
      <3>4. CASE ~ (n = n0 /\ j = next)
        <4>1. j \in Nat /\ next \in Nat
          <5>1. IsSequence(selects[n].from) /\ next \in Nat
            BY DEF Shape, Sound
          <5> QED
            BY <5>1, SequenceIs
        <4>2. todo # <<>> /\ n = Head(todo) => j < next
          BY <2>8, <3>4, <4>1
        <4>3. n \notin Pending
          BY <2>6, <2>8
        <4>4. Treated(n, table, selects[n], selects)
          BY <4>2, <4>3 DEF Plugged, AllTreated
        <4> HIDE DEF table
        <4> QED
          BY <3>1, <3>2, <4>4 DEF Treated
      <3> QED
        BY <3>3, <3>4
    <2>9. AllTreated'
      <3> SUFFICES ASSUME NEW n \in DOMAIN selects', n \notin Pending',
                          NEW j \in DOMAIN selects'[n].from,
                          todo' # <<>> /\ n = Head(todo') => j < next'
                   PROVE  Treated(n, selects'[n].from[j], selects'[n], selects')
        BY <1>1 DEF AllTreated
      <3>1. n \in DOMAIN selects
        BY <1>7, <2>7, Narrows
      <3>2. selects'[n].from = selects[n].from
        BY <1>7, <3>1, NarrowKeeps
      <3>3. n = n0 => j < next + 1
        BY <2>1
      <3> HIDE DEF n0
      <3> QED
        BY <2>8, <3>1, <3>2, <3>3
    <2> QED
      BY <2>1, <2>5, <2>9 DEF Plugged
  <1> QED
    BY <1>4, <1>5, <1>6, <1>7 DEF Next, Walk

LEMMA PluggedHolds == Spec => []Plugged
  BY PluggedInit, PluggedStep, ShapeHolds, PTL DEF Spec
-----------------------------------------------------------------------------
(* What a SELECT is to select: the rows its own WHERE selects of those that *)
(* are permitted.                                                          *)
Wanted(from, own, outer, permitted, db) ==
    {scope \in Scopes(from, outer, db) :
        /\ Satisfies(scope, own, <<>>)
        /\ \A t \in ToSet(from) : scope[Exposed(t)] \in permitted[t.table]}

(* A scope names the tables of its FROM and those around it.               *)
LEMMA ScopesAre ==
    ASSUME NEW from, NEW outer, NEW db, NEW scope \in Scopes(from, outer, db)
    PROVE  /\ DOMAIN scope = Exposes(from) \cup DOMAIN outer
           /\ \A t \in ToSet(from) : scope[Exposed(t)] \in db[t.table]
           /\ \A x \in DOMAIN outer : x \notin Exposes(from) => scope[x] = outer[x]
  <1>1. PICK f \in RowChoices(from, db) : scope = Over(f, outer)
    BY DEF Scopes
  <1>2. DOMAIN f = Exposes(from) /\ \A t \in ToSet(from) : f[Exposed(t)] \in db[t.table]
    BY DEF RowChoices
  <1>3. \A t \in ToSet(from) : Exposed(t) \in Exposes(from)
    BY DEF Exposes
  <1> QED
    BY <1>1, <1>2, <1>3 DEF Over

(* The scopes of a SELECT may be around another.                           *)
LEMMA OuterGrows ==
    ASSUME Shape, NEW n \in DOMAIN selects, NEW db, NEW outer \in Outer(db),
           NEW scope \in Scopes(selects[n].from, outer, db)
    PROVE  scope \in Outer(db)
  <1> DEFINE from == selects[n].from
             rows == UNION {db[t] : t \in Table}
             all == UNION {Exposes(selects[m].from) : m \in DOMAIN selects}
  <1>1. PICK names \in SUBSET all : outer \in [names -> rows]
    BY DEF Outer
  <1>2. PICK f \in RowChoices(from, db) : scope = Over(f, outer)
    BY DEF Scopes
  <1>3. \A t \in ToSet(from) : t.table \in Table
    BY DEF Shape, Sound
  <1>4. f \in [Exposes(from) -> rows]
    <2>1. UNION {db[t.table] : t \in ToSet(from)} \subseteq rows
      BY <1>3
    <2> DEFINE some == UNION {db[t.table] : t \in ToSet(from)}
    <2>2. f \in [Exposes(from) -> some] /\ some \subseteq rows
      BY <2>1 DEF RowChoices
    <2> HIDE DEF some, rows, from
    <2> QED
      BY <2>2
  <1>5. Exposes(from) \subseteq all
    OBVIOUS
  <1> HIDE DEF rows, from, all
  <1>6. scope \in [Exposes(from) \cup names -> rows]
    BY <1>1, <1>2, <1>4 DEF Over
  <1>7. Exposes(from) \cup names \in SUBSET all
    BY <1>1, <1>5
  <1> QED
    BY <1>6, <1>7 DEF Outer, rows, all

(* The conditions of an EXISTS are its own filter.                         *)
LEMMA OwnSatisfied ==
    ASSUME NEW compiled, NEW scope
    PROVE  Satisfies(scope, Exists(compiled).where, <<>>)
              <=> \A c \in compiled.conditions : True(c, scope)
  <1> DEFINE own == [conditions |-> compiled.conditions, exists |-> <<>>]
             filter == <<own>>
             where == <<filter>>
  <1>1. Exists(compiled).where = where
    BY DEF Exists
  <1>2. own.conditions = compiled.conditions /\ own.exists = <<>>
    OBVIOUS
  <1> HIDE DEF own
  <1>3. ToSet(filter) = {own}
    BY Single
  <1> HIDE DEF filter
  <1>4. ToSet(where) = {filter}
    BY Single
  <1> HIDE DEF where
  <1> QED
    BY <1>1, <1>2, <1>3, <1>4 DEF Satisfies

(* An EXISTS finds rows just if there are permitted rows of its tables     *)
(* that its conditions hold of.                                            *)
LEMMA ExistsWanted ==
    ASSUME NEW compiled, IsFiniteSet(compiled.extras), NEW scope, NEW permitted, NEW db,
           \A x \in compiled.extras : permitted[x] \subseteq db[x]
    PROVE  Wanted(Exists(compiled).from, Exists(compiled).where, scope, permitted, db) # {}
              <=> \E others \in [compiled.extras -> UNION {permitted[x] : x \in compiled.extras}] :
                     /\ \A x \in compiled.extras : others[x] \in permitted[x]
                     /\ \A c \in compiled.conditions : True(c, Over(others, scope))
  <1> DEFINE X == compiled.extras
             from == Exists(compiled).from
             where == Exists(compiled).where
             holds(sc) == \A c \in compiled.conditions : True(c, sc)
             rows == UNION {permitted[x] : x \in X}
             all == UNION {db[t.table] : t \in ToSet(from)}
  <1>1. ToSet(from) = {Unaliased(t) : t \in X} /\ Exposes(from) = X
    BY ExistsIs
  <1>2. \A t : Exposed(Unaliased(t)) = t /\ Unaliased(t).table = t
    BY DEF Exposed, Unaliased
  <1>3. \A sc : Satisfies(sc, where, <<>>) <=> holds(sc)
    BY OwnSatisfied
  <1>4. \A x \in X : permitted[x] \subseteq db[x]
    OBVIOUS
  <1> HIDE DEF X, from, where, holds
  <1>5. ASSUME NEW sc \in Wanted(from, where, scope, permitted, db)
        PROVE  \E others \in [X -> rows] : /\ \A x \in X : others[x] \in permitted[x]
                                          /\ holds(Over(others, scope))
    <2>1. /\ sc \in Scopes(from, scope, db) /\ holds(sc)
          /\ \A t \in ToSet(from) : sc[Exposed(t)] \in permitted[t.table]
      BY <1>3, <1>5 DEF Wanted
    <2>2. PICK f \in RowChoices(from, db) : sc = Over(f, scope)
      BY <2>1 DEF Scopes
    <2>3. f = [x \in X |-> f[x]] /\ DOMAIN f = X
      BY <1>1 DEF RowChoices
    <2>4. \A x \in X : sc[x] = f[x]
      BY <2>2, <2>3 DEF Over
    <2>5. \A x \in X : sc[x] \in permitted[x]
      BY <1>1, <1>2, <2>1
    <2>6. \A x \in X : f[x] \in permitted[x] /\ f[x] \in rows
      BY <2>4, <2>5
    <2> HIDE DEF rows
    <2>7. f \in [X -> rows]
      BY <2>3, <2>6
    <2> QED
      BY <2>1, <2>2, <2>6, <2>7
  <1>6. ASSUME NEW others \in [X -> rows], \A x \in X : others[x] \in permitted[x],
               holds(Over(others, scope))
        PROVE  Over(others, scope) \in Wanted(from, where, scope, permitted, db)
    <2>1. \A x \in X : others[x] \in db[x]
      BY <1>4, <1>6
    <2>2. \A t \in ToSet(from) : t.table \in X /\ Exposed(t) = t.table
      BY <1>1, <1>2
    <2>3. \A x \in X : \E t \in ToSet(from) : t.table = x
      BY <1>1, <1>2
    <2>4. \A x \in X : others[x] \in all
      BY <2>1, <2>3
    <2>5. others \in [X -> all]
      <3> HIDE DEF all, rows
      <3> QED
        BY <2>4
    <2>6. others \in RowChoices(from, db)
      BY <1>1, <2>1, <2>2, <2>5 DEF RowChoices
    <2>7. Over(others, scope) \in Scopes(from, scope, db)
      BY <2>6 DEF Scopes
    <2>8. DOMAIN others = X
      OBVIOUS
    <2>9. \A t \in ToSet(from) : Over(others, scope)[Exposed(t)] \in permitted[t.table]
      BY <1>6, <2>2, <2>8 DEF Over
    <2> QED
      BY <1>3, <1>6, <2>7, <2>9 DEF Wanted
  <1>7. Wanted(from, where, scope, permitted, db) # {}
          <=> \E others \in [X -> rows] : /\ \A x \in X : others[x] \in permitted[x]
                                         /\ holds(Over(others, scope))
    <2> HIDE DEF rows
    <2> QED
      BY <1>5, <1>6
  <1> QED
    BY <1>7 DEF X, from, where, holds
-----------------------------------------------------------------------------
(* Answers the database is to follow to the letter.                        *)
Followed(table) ==
    /\ table.table \in Table /\ table.alias \notin Table /\ IsAnswer(answers[table.table])
    /\ \A e \in Expressions(answers[table.table]) : WellFormed(e) /\ Oriented(e)

(* The other tables a query mentions.                                      *)
Others(table, q) == Mentioned(answers[table.table][q]) \ {table.table}

(* A query compiles to its other tables and to conditions that are true of *)
(* a row, and of rows of those tables, just if the query is.               *)
LEMMA QueryMeans ==
    ASSUME NEW table, Followed(table), NEW q \in DOMAIN answers[table.table]
    PROVE  LET query    == answers[table.table][q]
               compiled == Query(query, table.table, table.alias)
           IN  /\ compiled.extras = Others(table, q)
               /\ IsFiniteSet(Others(table, q)) /\ Others(table, q) \subseteq Table
               /\ Exposed(table) \notin Others(table, q)
               /\ query \in ToSet(answers[table.table])
               /\ \A scope, others :
                     /\ DOMAIN others = Others(table, q)
                     /\ \A x \in Others(table, q) : scope[x] = others[x]
                     => ((\A c \in compiled.conditions : True(c, scope)) <=>
                         \A e \in ToSet(query) :
                            Means(e, Over(others, [x \in {table.table} |-> scope[Exposed(table)]])))
  <1> DEFINE t == table.table
             alias == table.alias
             query == answers[t][q]
             compiled == Query(query, t, alias)
             M == Mentioned(query) \ {t}
  <1>1. t \in Table /\ alias \notin Table /\ IsAnswer(answers[t]) /\ "" \notin Table
    BY Constants DEF Followed
  <1>2. IsQuery(query) /\ query \in ToSet(answers[t])
    BY <1>1, AnswersAreQueries
  <1>3. \A e \in ToSet(query) : WellFormed(e) /\ Oriented(e) /\ IsExpression(e)
    <2>1. \A e \in ToSet(query) : e \in Expressions(answers[t])
      BY DEF Expressions
    <2> QED
      BY <1>2, <2>1 DEF Followed, IsQuery
  <1>4. Exposed(table) = IF alias = "" THEN t ELSE alias
    BY DEF Exposed
  <1>5. M = Others(table, q)
    BY DEF Others
  <1> HIDE DEF t, alias, query
  <1>6. /\ compiled.extras = M /\ Mentioned(query) \subseteq Table
        /\ Mentioned(query) = UNION {Columns(query[e]) : e \in DOMAIN query}
    BY <1>1, <1>2, <1>3, QueryMentions
  <1>7. IsFiniteSet(M)
    <2>1. \A k \in DOMAIN query : query[k] \in ToSet(query)
      BY DEF ToSet
    <2>2. \A k \in DOMAIN query : Fits(CompileTerms(query[k], t, alias))
      BY <1>1, <1>3, <2>1, WellFormedParses
    <2>3. IsFiniteSet(Query(query, t, alias).extras)
      BY <1>1, <1>2, <2>2, QueryNames
    <2> QED
      BY <1>6, <2>3
  <1>8. Exposed(table) \notin M
    BY <1>1, <1>4, <1>6
  <1>9. ASSUME NEW scope, NEW others, DOMAIN others = M, \A x \in M : scope[x] = others[x]
        PROVE  (\A c \in compiled.conditions : True(c, scope)) <=>
               \A e \in ToSet(query) : Means(e, Over(others, [x \in {t} |-> scope[Exposed(table)]]))
    <2> DEFINE row == scope[Exposed(table)]
               rows == Over(others, [x \in {t} |-> row])
               C(e) == Condition(e, t, alias)
    <2>1. \A x \in Mentioned(query) : scope[ByAlias(x, t, alias)] = rows[x]
      <3> SUFFICES ASSUME NEW x \in Mentioned(query)
                   PROVE  scope[ByAlias(x, t, alias)] = rows[x]
        OBVIOUS
      <3> HIDE DEF row
      <3>1. CASE x = t
        <4>1. ByAlias(x, t, alias) = Exposed(table)
          BY <1>4, <3>1 DEF ByAlias
        <4>2. rows[x] = row
          BY <1>9, <3>1 DEF Over
        <4> QED
          BY <4>1, <4>2 DEF row
      <3>2. CASE x # t
        <4>1. ByAlias(x, t, alias) = x /\ x \in M
          BY <3>2 DEF ByAlias
        <4>2. rows[x] = others[x]
          BY <1>9, <4>1 DEF Over
        <4> QED
          BY <1>9, <4>1, <4>2
      <3> QED
        BY <3>1, <3>2
    <2>2. ASSUME NEW e \in ToSet(query)
          PROVE  True(C(e), scope) <=> Means(e, rows)
      <3>1. WellFormed(e) /\ Oriented(e) /\ IsExpression(e)
        BY <1>3
      <3>2. \A term \in {Left(e), Right(e)} : IsColumn(term) => Ref(term)[3].value \in Mentioned(query)
        <4>1. \A term \in {Left(e), Right(e)} : IsColumn(term) => Ref(term)[3].value \in Columns(e)
          BY <3>1, ColumnsAt
        <4>2. Columns(e) \subseteq Mentioned(query)
          <5>1. PICK k \in DOMAIN query : e = query[k]
            BY DEF ToSet
          <5>2. Columns(query[k]) \in {Columns(query[i]) : i \in DOMAIN query}
            OBVIOUS
          <5> QED
            BY <1>6, <5>1, <5>2
        <4> QED
          BY <4>1, <4>2
      <3> HIDE DEF rows
      <3>3. \A term \in {Left(e), Right(e)} : IsColumn(term) =>
               scope[ByAlias(Ref(term)[3].value, t, alias)] = rows[Ref(term)[3].value]
        BY <2>1, <3>2
      <3> QED
        BY <3>1, <3>3, ConditionsMean
    <2>3. compiled.conditions = {C(e) : e \in ToSet(query)}
      <3>1. compiled.conditions = {C(query[k]) : k \in DOMAIN query}
        BY DEF Query
      <3>2. ToSet(query) = {query[k] : k \in DOMAIN query}
        BY DEF ToSet
      <3> HIDE DEF compiled, C
      <3> QED
        BY <3>1, <3>2
    <2> HIDE DEF rows, compiled, C
    <2>4. (\A c \in compiled.conditions : True(c, scope)) <=> \A e \in ToSet(query) : Means(e, rows)
      BY <2>2, <2>3
    <2> QED
      BY <2>4 DEF rows
  <1> QED
    BY <1>2, <1>5, <1>6, <1>7, <1>8, <1>9 DEF t, alias, query

(* What a query says of a row.                                             *)
Says(table, q, row, permitted) ==
    \E others \in [Others(table, q) -> UNION {permitted[x] : x \in Others(table, q)}] :
        /\ \A x \in Others(table, q) : others[x] \in permitted[x]
        /\ \A e \in ToSet(answers[table.table][q]) :
              Means(e, Over(others, [x \in {table.table} |-> row]))

(* A policy lets a row pass if one of its queries does.                    *)
LEMMA LetsSays ==
    ASSUME NEW table, NEW row, NEW permitted
    PROVE  Lets(table.table, row, permitted)
              <=> \E q \in DOMAIN answers[table.table] : Says(table, q, row, permitted)
  <1> DEFINE t == table.table
             S(query) ==
                \E others \in [Mentioned(query) \ {t} -> UNION {permitted[x] : x \in Mentioned(query) \ {t}}] :
                    /\ \A x \in DOMAIN others : others[x] \in permitted[x]
                    /\ \A e \in ToSet(query) : Means(e, Over(others, [x \in {t} |-> row]))
  <1>1. Lets(t, row, permitted) <=> \E query \in ToSet(answers[t]) : S(query)
    BY DEF Lets
  <1>2. \A q : Says(table, q, row, permitted) <=> S(answers[t][q])
    BY DEF Says, Others
  <1>3. ToSet(answers[t]) = {answers[t][q] : q \in DOMAIN answers[t]}
    BY DEF ToSet
  <1> HIDE DEF S
  <1> QED
    BY <1>1, <1>2, <1>3

(* An unconditional policy lets every row pass.                            *)
LEMMA AllowedLets ==
    ASSUME NEW table, IsAllowed(answers[table.table]), NEW row, NEW permitted
    PROVE  Lets(table.table, row, permitted)
  <1>1. PICK q \in DOMAIN answers[table.table] : answers[table.table][q] = <<>>
    BY DEF IsAllowed
  <1>2. ToSet(answers[table.table][q]) = {}
    BY <1>1 DEF ToSet
  <1>3. Mentioned(answers[table.table][q]) = {}
    BY <1>2 DEF Mentioned
  <1>4. Others(table, q) = {}
    BY <1>3 DEF Others
  <1>5. Says(table, q, row, permitted)
    <2> DEFINE none == [x \in {} |-> x]
    <2>1. none \in [Others(table, q) -> UNION {permitted[x] : x \in Others(table, q)}]
      BY <1>4
    <2> QED
      BY <1>2, <1>4, <2>1 DEF Says
  <1> QED
    BY <1>1, <1>5, LetsSays

(* Only what is permitted of other tables matters.                         *)
LEMMA LetsSame ==
    ASSUME NEW table, NEW row, NEW p1, NEW p2,
           \A q \in DOMAIN answers[table.table] : \A x \in Others(table, q) : p1[x] = p2[x]
    PROVE  Lets(table.table, row, p1) <=> Lets(table.table, row, p2)
  <1>1. ASSUME NEW q \in DOMAIN answers[table.table]
        PROVE  Says(table, q, row, p1) <=> Says(table, q, row, p2)
    <2> DEFINE O == Others(table, q)
    <2>1. {p1[x] : x \in O} = {p2[x] : x \in O}
      <3> HIDE DEF O
      <3>1. \A x \in O : p1[x] = p2[x]
        BY DEF O
      <3> QED
        BY <3>1
    <2>2. UNION {p1[x] : x \in O} = UNION {p2[x] : x \in O}
      BY <2>1
    <2> DEFINE R == UNION {p1[x] : x \in O}
    <2>3. /\ Says(table, q, row, p1) <=>
               \E others \in [O -> R] : /\ \A x \in O : others[x] \in p1[x]
                                        /\ \A e \in ToSet(answers[table.table][q]) :
                                              Means(e, Over(others, [x \in {table.table} |-> row]))
          /\ Says(table, q, row, p2) <=>
               \E others \in [O -> R] : /\ \A x \in O : others[x] \in p2[x]
                                        /\ \A e \in ToSet(answers[table.table][q]) :
                                              Means(e, Over(others, [x \in {table.table} |-> row]))
      BY <2>2 DEF Says
    <2>4. \A x \in O : p1[x] = p2[x]
      OBVIOUS
    <2> HIDE DEF O, R
    <2> QED
      BY <2>3, <2>4
  <1> QED
    BY <1>1, LetsSays
-----------------------------------------------------------------------------
(* A rewritten statement whose meaning is to be that of the policies.      *)
Ready == /\ Shape /\ Plugged /\ Leads
         /\ result = "rewritten" /\ NoCapture /\ Meaningful /\ AllOriented

(* All its tables have answers to follow, and have been treated.           *)
LEMMA ReadyTables ==
    ASSUME Ready, NEW n \in DOMAIN selects, NEW table \in ToSet(selects[n].from)
    PROVE  Followed(table) /\ Treated(n, table, selects[n], selects)
  <1>1. table.table \in Table /\ (n > 1 => table.alias = "")
    BY DEF Ready, Shape, Sound
  <1>2. table.table \in Reached
    BY DEF Ready, Leads
  <1>3. IsAnswer(answers[table.table])
    <2>1. answers \in Answers
      BY DEF Ready, Shape
    <2> QED
      BY <1>1, <2>1, FilterAssumption
  <1>4. \A e \in Expressions(answers[table.table]) : WellFormed(e) /\ Oriented(e)
    BY <1>2 DEF Ready, Meaningful, AllOriented
  <1>5. table.alias \notin Table
    <2>1. CASE n > 1
      BY <1>1, <2>1, Constants
    <2>2. CASE ~ (n > 1)
      <3>1. n = 1 /\ selects[1].from = statement.from
        BY <2>2, Indices DEF Ready, Shape
      <3>2. PICK i \in DOMAIN statement.from : table = statement.from[i]
        BY <3>1 DEF ToSet
      <3> QED
        BY <3>2 DEF Ready, NoCapture
    <2> QED
      BY <2>1, <2>2
  <1>6. Treated(n, table, selects[n], selects)
    <2>1. todo = <<>> /\ AllTreated
      BY DEF Ready, Plugged
    <2>2. Pending = {}
      BY <2>1 DEF Pending
    <2>3. PICK j \in DOMAIN selects[n].from : table = selects[n].from[j]
      BY DEF ToSet
    <2>4. Treated(n, selects[n].from[j], selects[n], selects)
      BY <2>1, <2>2 DEF AllTreated
    <2> QED
      BY <2>3, <2>4
  <1> QED
    BY <1>1, <1>3, <1>4, <1>5, <1>6 DEF Followed

(* The SELECT that stands for a query with other tables.                   *)
LEMMA Follows ==
    ASSUME Ready, NEW n \in DOMAIN selects, NEW table \in ToSet(selects[n].from), NEW filter,
           Stands(filter, n, table, selects), NEW q \in DOMAIN answers[table.table]
    PROVE  LET compiled == Query(answers[table.table][q], table.table, table.alias)
           IN  /\ q \in DOMAIN filter
               /\ compiled.extras = Others(table, q) /\ IsFiniteSet(compiled.extras)
               /\ Others(table, q) = {} =>
                     filter[q] = [conditions |-> compiled.conditions, exists |-> <<>>]
               /\ Others(table, q) # {} =>
                     \E m \in DOMAIN selects :
                        /\ m > n /\ filter[q].exists = <<m>>
                        /\ selects[m].from = Exists(compiled).from
                        /\ Own(m, selects[m]) = Exists(compiled).where
  <1> DEFINE all == Compile(answers[table.table], table.table, table.alias)
             compiled == Query(answers[table.table][q], table.table, table.alias)
  <1>1. DOMAIN all = DOMAIN answers[table.table] /\ all[q] = compiled
    BY DEF Compile
  <1>2. /\ DOMAIN filter = DOMAIN all
        /\ \/ /\ all[q].extras = {}
              /\ filter[q] = [conditions |-> all[q].conditions, exists |-> <<>>]
           \/ /\ all[q].extras # {}
              /\ \E m \in DOMAIN selects : /\ m > n /\ filter[q].exists = <<m>>
                                           /\ selects[m].from = Exists(all[q]).from
                                           /\ Own(m, selects[m]) = Exists(all[q]).where
    BY <1>1 DEF Stands
  <1>3. compiled.extras = Others(table, q) /\ IsFiniteSet(compiled.extras)
    BY ReadyTables, QueryMeans
  <1> HIDE DEF all, compiled
  <1> QED
    BY <1>1, <1>2, <1>3 DEF compiled

(* What a filter says, query by query.                                     *)
Holds(query, scope, exists) ==
    IF query.exists = <<>> THEN \A c \in query.conditions : True(c, scope)
    ELSE exists[[select |-> query.exists[1], outer |-> scope]] # {}

(* A filter holds of the rows its table's policy lets pass, if what it     *)
(* finds of other tables is what is permitted of them.                     *)
LEMMA FilterSays ==
    ASSUME Ready, NEW n \in DOMAIN selects, NEW table \in ToSet(selects[n].from), NEW filter,
           Stands(filter, n, table, selects),
           NEW db, NEW permitted, \A x \in Table : permitted[x] \subseteq db[x],
           NEW exists, NEW scope, Exposed(table) \in DOMAIN scope,
           \A m \in DOMAIN selects : m > n =>
              exists[[select |-> m, outer |-> scope]]
                 = Wanted(selects[m].from, Own(m, selects[m]), scope, permitted, db)
    PROVE  (\E query \in ToSet(filter) : Holds(query, scope, exists))
              <=> Lets(table.table, scope[Exposed(table)], permitted)
  <1> DEFINE t == table.table
             row == scope[Exposed(table)]
  <1>1. ASSUME NEW q \in DOMAIN answers[t]
        PROVE  Holds(filter[q], scope, exists) <=> Says(table, q, row, permitted)
    <2> DEFINE compiled == Query(answers[t][q], t, table.alias)
               M == Others(table, q)
               means(others) == \A e \in ToSet(answers[t][q]) :
                                   Means(e, Over(others, [x \in {t} |-> row]))
               holds(sc) == \A c \in compiled.conditions : True(c, sc)
               rows == UNION {permitted[x] : x \in M}
    <2>1. /\ compiled.extras = M /\ IsFiniteSet(compiled.extras)
          /\ M = {} => filter[q] = [conditions |-> compiled.conditions, exists |-> <<>>]
          /\ M # {} => \E m \in DOMAIN selects :
                          /\ m > n /\ filter[q].exists = <<m>>
                          /\ selects[m].from = Exists(compiled).from
                          /\ Own(m, selects[m]) = Exists(compiled).where
      BY Follows
    <2>2. M \subseteq Table /\ Exposed(table) \notin M
      BY ReadyTables, QueryMeans
    <2>3. ASSUME NEW sc, NEW others, DOMAIN others = M, \A x \in M : sc[x] = others[x],
                 sc[Exposed(table)] = row
          PROVE  holds(sc) <=> means(others)
      <3> DEFINE meansAt(r) == \A e \in ToSet(answers[t][q]) :
                                  Means(e, Over(others, [x \in {t} |-> r]))
      <3>1. Followed(table)
        BY ReadyTables
      <3>2. holds(sc) <=> meansAt(sc[Exposed(table)])
        <4> HIDE DEF row
        <4> QED
          BY <2>3, <3>1, QueryMeans
      <3>3. means(others) <=> meansAt(row)
        OBVIOUS
      <3> HIDE DEF holds, means, meansAt, row
      <3> QED
        BY <2>3, <3>2, <3>3
    <2>4. Says(table, q, row, permitted) <=>
             \E others \in [M -> rows] : (\A x \in M : others[x] \in permitted[x]) /\ means(others)
      BY DEF Says
    <2>5. CASE M = {}
      <3>1. Holds(filter[q], scope, exists) <=> holds(scope)
        <4> HIDE DEF compiled
        <4> QED
          BY <2>1, <2>5 DEF Holds
      <3> DEFINE none == [x \in {} |-> x]
      <3>2. none \in [M -> rows]
        BY <2>5
      <3> HIDE DEF means, holds, rows, M, none
      <3>3. \A others \in [M -> rows] : holds(scope) <=> means(others)
        BY <2>3, <2>5 DEF row
      <3> QED
        BY <2>4, <2>5, <3>1, <3>2, <3>3
    <2>6. CASE M # {}
      <3>1. PICK m \in DOMAIN selects : /\ m > n /\ filter[q].exists = <<m>>
                                        /\ selects[m].from = Exists(compiled).from
                                        /\ Own(m, selects[m]) = Exists(compiled).where
        BY <2>1, <2>6
      <3> DEFINE W == Wanted(Exists(compiled).from, Exists(compiled).where, scope, permitted, db)
      <3>2. exists[[select |-> m, outer |-> scope]] = W
        BY <3>1
      <3>3. Holds(filter[q], scope, exists) <=> W # {}
        <4> DEFINE x == filter[q].exists
        <4>1. x = <<m>>
          BY <3>1
        <4> HIDE DEF x
        <4>2. x # <<>> /\ x[1] = m
          BY <4>1
        <4> HIDE DEF W
        <4> QED
          BY <3>2, <4>2 DEF Holds, x
      <3>4. W # {} <=> \E others \in [M -> rows] : /\ \A x \in M : others[x] \in permitted[x]
                                                  /\ holds(Over(others, scope))
        <4>1. \A x \in compiled.extras : permitted[x] \subseteq db[x]
          BY <2>1, <2>2
        <4> HIDE DEF compiled
        <4>2. W # {}
                <=> \E others \in [compiled.extras -> UNION {permitted[x] : x \in compiled.extras}] :
                       /\ \A x \in compiled.extras : others[x] \in permitted[x]
                       /\ \A c \in compiled.conditions : True(c, Over(others, scope))
          BY <2>1, <4>1, ExistsWanted
        <4> QED
          BY <2>1, <4>2
      <3>5. ASSUME NEW others \in [M -> rows]
            PROVE  holds(Over(others, scope)) <=> means(others)
        <4>1. DOMAIN others = M
          OBVIOUS
        <4>2. /\ \A x \in M : Over(others, scope)[x] = others[x]
              /\ Over(others, scope)[Exposed(table)] = row
          BY <2>2, <4>1 DEF Over
        <4> HIDE DEF means, holds, rows, M, row
        <4> QED
          BY <2>3, <4>1, <4>2
      <3> HIDE DEF means, holds, rows, W, M
      <3> QED
        BY <2>4, <3>3, <3>4, <3>5
    <2> QED
      BY <2>5, <2>6
  <1>2. ToSet(filter) = {filter[q] : q \in DOMAIN answers[t]}
    <2>1. DOMAIN filter = DOMAIN answers[t]
      BY DEF Stands, Compile
    <2> QED
      BY <2>1 DEF ToSet
  <1>3. Lets(t, row, permitted) <=> \E q \in DOMAIN answers[t] : Says(table, q, row, permitted)
    BY LetsSays
  <1> HIDE DEF t, row
  <1>4. (\E query \in ToSet(filter) : Holds(query, scope, exists)) <=> Lets(t, row, permitted)
    BY <1>1, <1>2, <1>3
  <1> QED
    BY <1>4 DEF t, row
-----------------------------------------------------------------------------
(* The recursion of Permitted, followed from table to table.               *)
Policies(P, db) ==
    P = [depth \in 0 .. MaxSelects |->
           [t \in Table |-> {row \in db[t] : depth > 0 /\ Lets(t, row, P[depth - 1])}]]

(* There is a function as that recursion asks for.                         *)
LEMMA PermittedIs ==
    ASSUME NEW db
    PROVE  \E P : Policies(P, db) /\ Permitted(db) = P[MaxSelects]
  <1> DEFINE N == MaxSelects
             R == UNION {db[t] : t \in Table}
             V == [Table -> SUBSET R]
             first == [t \in Table |-> {}]
             of(g) == [t \in Table |-> {row \in db[t] : Lets(t, row, g)}]
             step == [n \in 1 .. N |-> [g \in V |-> of(g)]]
  <1>1. N \in Nat
    BY Constants
  <1>2. first \in V /\ \A g : of(g) \in V
    OBVIOUS
  <1> HIDE DEF N, V
  <1>3. step \in StepFunctions(N, V)
    <2> HIDE DEF of
    <2> QED
      BY <1>2 DEF StepFunctions
  <1>4. PICK P \in Runs(N, V, first, step) : TRUE
    <2> HIDE DEF step, first
    <2> QED
      BY <1>1, <1>2, <1>3, RunExists
  <1>5. /\ P \in [0 .. N -> V] /\ P[0] = first
        /\ \A n \in 1 .. N : P[n] = step[n][P[n - 1]]
    BY <1>4 DEF Runs
  <1> DEFINE at(d) == [t \in Table |-> {row \in db[t] : d > 0 /\ Lets(t, row, P[d - 1])}]
  <1>6. ASSUME NEW d \in 0 .. N
        PROVE  P[d] = at(d)
    <2>1. CASE d = 0
      <3>1. at(d) = first
        BY <2>1
      <3> QED
        BY <1>5, <2>1, <3>1
    <2>2. CASE d # 0
      <3>1. d \in 1 .. N /\ d - 1 \in 0 .. N /\ d > 0
        BY <1>1, <2>2
      <3>2. P[d - 1] \in V
        BY <1>5, <3>1
      <3>3. P[d] = step[d][P[d - 1]]
        BY <1>5, <3>1
      <3>4. step[d][P[d - 1]] = of(P[d - 1])
        <4> HIDE DEF of
        <4> QED
          BY <3>1, <3>2
      <3>5. of(P[d - 1]) = at(d)
        BY <3>1
      <3> QED
        BY <3>3, <3>4, <3>5
    <2> QED
      BY <2>1, <2>2
  <1>7. P = [d \in 0 .. N |-> at(d)]
    <2> HIDE DEF at
    <2> QED
      BY <1>5, <1>6
  <1>8. Policies(P, db)
    BY <1>7 DEF Policies, N
  <1>9. Policies(CHOOSE Q : Policies(Q, db), db)
    BY <1>8
  <1>10. Permitted(db) = (CHOOSE Q : Policies(Q, db))[MaxSelects]
    BY DEF Permitted, Policies
  <1> QED
    BY <1>9, <1>10

(* The tables a query asks about are in the FROM of a later SELECT.        *)
LEMMA Asks ==
    ASSUME Ready, NEW n \in DOMAIN selects, NEW table \in ToSet(selects[n].from), NEW filter,
           Stands(filter, n, table, selects), NEW q \in DOMAIN answers[table.table],
           NEW x \in Others(table, q)
    PROVE  \E m \in DOMAIN selects : m > n /\ Unaliased(x) \in ToSet(selects[m].from)
  <1> DEFINE O == Others(table, q)
             compiled == Query(answers[table.table][q], table.table, table.alias)
  <1>1. /\ compiled.extras = O /\ IsFiniteSet(compiled.extras)
        /\ O = {} => filter[q] = [conditions |-> compiled.conditions, exists |-> <<>>]
        /\ O # {} => \E m \in DOMAIN selects :
                        /\ m > n /\ filter[q].exists = <<m>>
                        /\ selects[m].from = Exists(compiled).from
                        /\ Own(m, selects[m]) = Exists(compiled).where
    BY Follows
  <1>2. O # {}
    OBVIOUS
  <1> HIDE DEF O, compiled
  <1>3. PICK m \in DOMAIN selects : m > n /\ selects[m].from = Exists(compiled).from
    BY <1>1, <1>2
  <1>4. ToSet(selects[m].from) = {Unaliased(y) : y \in O}
    BY <1>1, <1>3, ExistsIs
  <1> QED
    BY <1>3, <1>4 DEF O

(* Permissions that agree on what the EXISTS of a SELECT's tables speak of *)
(* let the same rows of those tables pass.                                 *)
LEMMA PermissionsAgree ==
    ASSUME Ready, NEW n \in DOMAIN selects, NEW table \in ToSet(selects[n].from),
           NEW p1, NEW p2, NEW row,
           \A m \in DOMAIN selects : m > n =>
              \A x \in ToSet(selects[m].from) : p1[x.table] = p2[x.table]
    PROVE  Lets(table.table, row, p1) <=> Lets(table.table, row, p2)
  <1>1. CASE IsAllowed(answers[table.table])
    BY <1>1, AllowedLets
  <1>2. CASE ~ IsAllowed(answers[table.table])
    <2>1. PICK filter \in ToSet(selects[n].where) : Stands(filter, n, table, selects)
      BY <1>2, ReadyTables DEF Treated
    <2>2. ASSUME NEW q \in DOMAIN answers[table.table], NEW x \in Others(table, q)
          PROVE  p1[x] = p2[x]
      <3>1. PICK m \in DOMAIN selects : m > n /\ Unaliased(x) \in ToSet(selects[m].from)
        BY <2>1, Asks
      <3>2. Unaliased(x).table = x
        BY DEF Unaliased
      <3> QED
        BY <3>1, <3>2
    <2> QED
      BY <2>2, LetsSame
  <1> QED
    BY <1>1, <1>2

(* Once it is deep enough for the SELECTs that follow, another step changes *)
(* nothing about the tables of a SELECT.                                   *)
LEMMA Settled ==
    ASSUME Ready, NEW db, NEW P, Policies(P, db)
    PROVE  \A n \in DOMAIN selects : \A d \in Len(selects) - n + 1 .. MaxSelects - 1 :
              \A x \in ToSet(selects[n].from) : P[d][x.table] = P[d + 1][x.table]
  <1> DEFINE L == Len(selects)
             Same(n) == \A d \in L - n + 1 .. MaxSelects - 1 :
                           \A x \in ToSet(selects[n].from) : P[d][x.table] = P[d + 1][x.table]
             S == {n \in 1 .. L : Same(n)}
  <1>1. DOMAIN selects = 1 .. L /\ L \in Nat /\ MaxSelects \in Nat
    BY Indices, Constants DEF Ready
  <1>2. ASSUME NEW n \in 1 .. L, \A m \in n + 1 .. L : m \in S
        PROVE  n \in S
    <2>1. ASSUME NEW d \in L - n + 1 .. MaxSelects - 1, NEW x \in ToSet(selects[n].from)
          PROVE  P[d][x.table] = P[d + 1][x.table]
      <3>1. /\ d \in 0 .. MaxSelects /\ d + 1 \in 0 .. MaxSelects /\ d > 0 /\ d + 1 > 0
            /\ (d + 1) - 1 = d /\ d - 1 >= L - n /\ d - 1 \in Int /\ (d - 1) + 1 = d
        BY <1>1
      <3>2. x.table \in Table
        BY <1>1 DEF Ready, Shape, Sound
      <3>3. /\ P[d][x.table] = {row \in db[x.table] : Lets(x.table, row, P[d - 1])}
            /\ P[d + 1][x.table] = {row \in db[x.table] : Lets(x.table, row, P[d])}
        <4> DEFINE at(k) == [t \in Table |-> {row \in db[t] : k > 0 /\ Lets(t, row, P[k - 1])}]
        <4>1. P = [k \in 0 .. MaxSelects |-> at(k)]
          BY DEF Policies
        <4>2. P[d] = at(d) /\ P[d + 1] = at(d + 1)
          <5> HIDE DEF at
          <5> QED
            BY <3>1, <4>1
        <4> QED
          BY <3>1, <3>2, <4>2
      <3>4. ASSUME NEW m \in DOMAIN selects, m > n, NEW y \in ToSet(selects[m].from)
            PROVE  P[d - 1][y.table] = P[d][y.table]
        <4>1. m \in n + 1 .. L /\ d - 1 \in L - m + 1 .. MaxSelects - 1
          BY <1>1, <3>1, <3>4
        <4>2. Same(m)
          BY <1>2, <4>1
        <4> QED
          BY <3>1, <4>1, <4>2
      <3>5. \A row : Lets(x.table, row, P[d - 1]) <=> Lets(x.table, row, P[d])
        <4>1. n \in DOMAIN selects
          BY <1>1
        <4> HIDE DEF L, S, Same
        <4> QED
          BY <3>4, <4>1, PermissionsAgree
      <3> QED
        BY <3>3, <3>5
    <2> QED
      BY <2>1
  <1>3. 1 .. L \subseteq S
    <2> HIDE DEF S, L
    <2> QED
      BY <1>1, <1>2, DownwardInduction
  <1> QED
    BY <1>1, <1>3

(* What is permitted of the tables of a SELECT is what the policies let    *)
(* pass, given what is permitted.                                          *)
LEMMA PermittedLets ==
    ASSUME Ready, NEW db
    PROVE  /\ \A t \in Table : Permitted(db)[t] \subseteq db[t]
           /\ \A n \in DOMAIN selects : \A x \in ToSet(selects[n].from) :
                 Permitted(db)[x.table]
                    = {row \in db[x.table] : Lets(x.table, row, Permitted(db))}
  <1>1. PICK P : Policies(P, db) /\ Permitted(db) = P[MaxSelects]
    BY PermittedIs
  <1> DEFINE K == MaxSelects - 1
             at(k) == [t \in Table |-> {row \in db[t] : k > 0 /\ Lets(t, row, P[k - 1])}]
  <1>2. /\ DOMAIN selects = 1 .. Len(selects) /\ Len(selects) \in 1 .. MaxSelects
        /\ MaxSelects \in Nat \ {0} /\ MaxSelects \in 0 .. MaxSelects
    <2>1. DOMAIN selects = 1 .. Len(selects) /\ Len(selects) \in 1 .. MaxSelects
      BY Indices DEF Ready
    <2>2. MaxSelects \in Nat \ {0}
      BY Constants
    <2> QED
      BY <2>1, <2>2
  <1>3. P[MaxSelects] = at(MaxSelects)
    <2>1. P = [k \in 0 .. MaxSelects |-> at(k)]
      BY <1>1 DEF Policies
    <2> HIDE DEF at
    <2> QED
      BY <1>2, <2>1
  <1>4. \A t \in Table : Permitted(db)[t] = {row \in db[t] : Lets(t, row, P[K])}
    BY <1>1, <1>2, <1>3
  <1>5. ASSUME NEW n \in DOMAIN selects, NEW x \in ToSet(selects[n].from)
        PROVE  Permitted(db)[x.table] = {row \in db[x.table] : Lets(x.table, row, Permitted(db))}
    <2>1. x.table \in Table
      BY DEF Ready, Shape, Sound
    <2>2. ASSUME NEW m \in DOMAIN selects, m > n, NEW y \in ToSet(selects[m].from)
          PROVE  P[K][y.table] = P[MaxSelects][y.table]
      <3>1. K \in Len(selects) - m + 1 .. MaxSelects - 1 /\ K + 1 = MaxSelects
        BY <1>2, <2>2
      <3> HIDE DEF K
      <3>2. P[K][y.table] = P[K + 1][y.table]
        BY <1>1, <3>1, Settled
      <3> QED
        BY <3>1, <3>2
    <2>3. \A row : Lets(x.table, row, P[K]) <=> Lets(x.table, row, P[MaxSelects])
      <3> HIDE DEF K
      <3> QED
        BY <2>2, PermissionsAgree
    <2> HIDE DEF K
    <2> QED
      BY <1>1, <1>4, <2>1, <2>3
  <1> QED
    BY <1>4, <1>5
-----------------------------------------------------------------------------
(* What the EXISTS of a SELECT find is what they are to: then so does the  *)
(* SELECT.                                                                 *)
LEMMA SelectStep ==
    ASSUME Ready, NEW db, NEW n \in DOMAIN selects, NEW outer \in Outer(db), NEW exists,
           \A m \in DOMAIN selects : m > n => \A scope \in Outer(db) :
              exists[[select |-> m, outer |-> scope]]
                 = Wanted(selects[m].from, Own(m, selects[m]), scope, Permitted(db), db)
    PROVE  {scope \in Scopes(selects[n].from, outer, db) :
               Satisfies(scope, selects[n].where, exists)}
              = Wanted(selects[n].from, Own(n, selects[n]), outer, Permitted(db), db)
  <1> DEFINE permitted == Permitted(db)
             own == Own(n, selects[n])
             where == selects[n].where
             from == selects[n].from
  <1>1. /\ \A t \in Table : permitted[t] \subseteq db[t]
        /\ \A x \in ToSet(from) :
              permitted[x.table] = {row \in db[x.table] : Lets(x.table, row, permitted)}
    BY PermittedLets
  <1> HIDE DEF permitted
  <1>2. /\ \A filter \in ToSet(own) :
              filter \in ToSet(where) /\ \A query \in ToSet(filter) : query.exists = <<>>
        /\ \A filter \in ToSet(where) :
              \/ filter \in ToSet(own)
              \/ \E table \in ToSet(from) : Stands(filter, n, table, selects)
    BY DEF Ready, Plugged, AllFilled, Filled
  <1>3. \A table \in ToSet(from) :
           \/ IsAllowed(answers[table.table])
           \/ \E filter \in ToSet(where) : Stands(filter, n, table, selects)
    BY ReadyTables DEF Treated
  <1> DEFINE Passes(filter, scope, e) == \E query \in ToSet(filter) : Holds(query, scope, e)
  <1>4. \A scope, w, e : Satisfies(scope, w, e) <=> \A filter \in ToSet(w) : Passes(filter, scope, e)
    BY DEF Satisfies, Holds
  <1>5. \A scope : \A filter \in ToSet(own) : Passes(filter, scope, exists) <=> Passes(filter, scope, <<>>)
    BY <1>2 DEF Holds
  <1>6. ASSUME NEW scope \in Scopes(from, outer, db)
        PROVE  Satisfies(scope, where, exists)
                  <=> /\ Satisfies(scope, own, <<>>)
                      /\ \A t \in ToSet(from) : scope[Exposed(t)] \in permitted[t.table]
    <2>1. /\ \A t \in ToSet(from) : scope[Exposed(t)] \in db[t.table]
          /\ \A t \in ToSet(from) : Exposed(t) \in DOMAIN scope
      <3>1. \A t \in ToSet(from) : Exposed(t) \in Exposes(from)
        BY DEF Exposes
      <3>2. /\ DOMAIN scope = Exposes(from) \cup DOMAIN outer
            /\ \A t \in ToSet(from) : scope[Exposed(t)] \in db[t.table]
        <4> HIDE DEF from, own, where
        <4> QED
          BY ScopesAre
      <3> HIDE DEF from
      <3> QED
        BY <3>1, <3>2
    <2>2. scope \in Outer(db)
      BY OuterGrows DEF Ready
    <2>3. ASSUME NEW table \in ToSet(from), NEW filter, Stands(filter, n, table, selects)
          PROVE  Passes(filter, scope, exists) <=> scope[Exposed(table)] \in permitted[table.table]
      <3>1. \A m \in DOMAIN selects : m > n =>
               exists[[select |-> m, outer |-> scope]]
                  = Wanted(selects[m].from, Own(m, selects[m]), scope, permitted, db)
        BY <2>2 DEF permitted
      <3>2. Passes(filter, scope, exists)
               <=> Lets(table.table, scope[Exposed(table)], permitted)
        BY <1>1, <2>1, <2>3, <3>1, FilterSays
      <3> HIDE DEF Passes, from
      <3> QED
        BY <1>1, <2>1, <3>2
    <2>4. ASSUME NEW table \in ToSet(from), IsAllowed(answers[table.table])
          PROVE  scope[Exposed(table)] \in permitted[table.table]
      BY <1>1, <2>1, <2>4, AllowedLets
    <2> HIDE DEF Passes, from, where, own
    <2> QED
      BY <1>2, <1>3, <1>4, <1>5, <2>3, <2>4
  <1> HIDE DEF from, where, own
  <1> QED
    BY <1>6 DEF Wanted, permitted, from, where, own

(* The recursion of Selected: a SELECT, and what is around it.             *)
Levels(db) == [select : DOMAIN selects, outer : Outer(db)]

Finds(S, db) ==
    S = [at \in Levels(db) |->
           {scope \in Scopes(selects[at.select].from, at.outer, db) :
               Satisfies(scope, selects[at.select].where, S)}]

(* There is a function as the recursion of Selected asks for.              *)
LEMMA FindsExists ==
    ASSUME Ready, NEW db
    PROVE  \E S : Finds(S, db)
  <1> DEFINE wanted(at) == Wanted(selects[at.select].from, Own(at.select, selects[at.select]),
                                  at.outer, Permitted(db), db)
             S == [at \in Levels(db) |-> wanted(at)]
             found(at) == {scope \in Scopes(selects[at.select].from, at.outer, db) :
                              Satisfies(scope, selects[at.select].where, S)}
  <1>1. ASSUME NEW m \in DOMAIN selects, NEW scope \in Outer(db)
        PROVE  S[[select |-> m, outer |-> scope]]
                  = Wanted(selects[m].from, Own(m, selects[m]), scope, Permitted(db), db)
    <2> DEFINE at == [select |-> m, outer |-> scope]
    <2>1. at \in Levels(db) /\ at.select = m /\ at.outer = scope
      BY DEF Levels
    <2> HIDE DEF at
    <2>2. S[at] = wanted(at)
      <3> HIDE DEF wanted
      <3> QED
        BY <2>1
    <2> QED
      BY <2>1, <2>2 DEF at
  <1>2. ASSUME NEW at \in Levels(db)
        PROVE  found(at) = wanted(at)
    <2>1. at.select \in DOMAIN selects /\ at.outer \in Outer(db)
      BY DEF Levels
    <2> HIDE DEF S
    <2> QED
      BY <1>1, <2>1, SelectStep
  <1>3. S = [at \in Levels(db) |-> found(at)]
    <2> HIDE DEF wanted, found
    <2> QED
      BY <1>2
  <1>4. Finds(S, db)
    BY <1>3 DEF Finds
  <1> QED
    BY <1>4

(* Each SELECT finds what it is to: those inside it come after it.         *)
LEMMA FindsWanted ==
    ASSUME Ready, NEW db, NEW S, Finds(S, db)
    PROVE  \A n \in DOMAIN selects : \A outer \in Outer(db) :
              S[[select |-> n, outer |-> outer]]
                 = Wanted(selects[n].from, Own(n, selects[n]), outer, Permitted(db), db)
  <1> DEFINE L == Len(selects)
             Correct(n) == \A outer \in Outer(db) :
                S[[select |-> n, outer |-> outer]]
                   = Wanted(selects[n].from, Own(n, selects[n]), outer, Permitted(db), db)
             T == {n \in 1 .. L : Correct(n)}
  <1>1. DOMAIN selects = 1 .. L /\ L \in Nat
    BY Indices DEF Ready
  <1>2. ASSUME NEW n \in 1 .. L, \A m \in n + 1 .. L : m \in T
        PROVE  n \in T
    <2>1. ASSUME NEW m \in DOMAIN selects, m > n
          PROVE  Correct(m)
      <3>1. m \in n + 1 .. L
        BY <1>1, <2>1
      <3> QED
        BY <1>2, <3>1
    <2>2. ASSUME NEW outer \in Outer(db)
          PROVE  S[[select |-> n, outer |-> outer]]
                    = Wanted(selects[n].from, Own(n, selects[n]), outer, Permitted(db), db)
      <3> DEFINE at == [select |-> n, outer |-> outer]
                 found(a) == {scope \in Scopes(selects[a.select].from, a.outer, db) :
                                 Satisfies(scope, selects[a.select].where, S)}
      <3>1. at \in Levels(db) /\ at.select = n /\ at.outer = outer
        BY <1>1 DEF Levels
      <3>2. S = [a \in Levels(db) |-> found(a)]
        BY DEF Finds
      <3> HIDE DEF at
      <3>3. S[at] = found(at)
        <4> HIDE DEF found
        <4> QED
          BY <3>1, <3>2
      <3>4. n \in DOMAIN selects
        BY <1>1
      <3> HIDE DEF T, L
      <3>5. {scope \in Scopes(selects[n].from, outer, db) :
               Satisfies(scope, selects[n].where, S)}
              = Wanted(selects[n].from, Own(n, selects[n]), outer, Permitted(db), db)
        BY <2>1, <3>4, SelectStep
      <3> QED
        BY <3>1, <3>3, <3>5 DEF at
    <2> QED
      BY <2>2
  <1>3. 1 .. L \subseteq T
    <2> HIDE DEF T, L
    <2> QED
      BY <1>1, <1>2, DownwardInduction
  <1> QED
    BY <1>1, <1>3

(* The first SELECT is the statement, with nothing around it.              *)
LEMMA ReadySelects == Ready => SelectsThePermitted
  <1> SUFFICES ASSUME Ready, NEW db \in Database
               PROVE  Selected(db) = Wanted(statement.from, statement.where, <<>>, Permitted(db), db)
    BY DEF SelectsThePermitted, Wanted
  <1> DEFINE S == CHOOSE S : Finds(S, db)
  <1>1. Finds(S, db)
    BY FindsExists
  <1>2. Selected(db) = S[[select |-> 1, outer |-> <<>>]]
    BY DEF Selected, Finds, Levels
  <1> HIDE DEF S
  <1>3. 1 \in DOMAIN selects /\ selects[1].from = statement.from
    BY Indices DEF Ready, Shape
  <1>4. <<>> \in Outer(db)
    <2> DEFINE all == UNION {Exposes(selects[n].from) : n \in DOMAIN selects}
               rows == UNION {db[t] : t \in Table}
    <2>1. Outer(db) = UNION {[names -> rows] : names \in SUBSET all}
      BY DEF Outer
    <2> HIDE DEF all, rows
    <2>2. {} \in SUBSET all /\ <<>> \in [{} -> rows]
      OBVIOUS
    <2> QED
      BY <2>1, <2>2
  <1>5. Own(1, selects[1]) = statement.where
    BY DEF Own
  <1> QED
    BY <1>1, <1>2, <1>3, <1>4, <1>5, FindsWanted

(* The rows a rewritten statement returns are exactly those the policies   *)
(* permit, for all tables, columns, contents and statements, however       *)
(* policies follow one another, and for all answers made of comparisons    *)
(* that need not be turned round and hold no string with a quote in it:    *)
(* VisibleIsPermitted.  The induction is over the SELECTs, from the last   *)
(* to the first.                                                           *)
THEOREM VisibleHolds == Spec => []VisibleIsPermitted
  <1>1. Shape /\ Plugged /\ Leads => VisibleIsPermitted
    BY ReadySelects DEF VisibleIsPermitted, Ready
  <1> QED
    BY <1>1, ShapeHolds, PluggedHolds, ReasonHolds, PTL
=============================================================================
