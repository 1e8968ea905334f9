-------------------------- MODULE OPACompile_proofs --------------------------
(***************************************************************************)
(* Two facts about every condition the compiler accepts, for any terms the *)
(* agent may send: the three terms are all there, each in its place, and   *)
(* no table is named that the database would not find.                     *)
(***************************************************************************)
EXTENDS OPACompile, TLAPS

Kind == {"value", "operator", "column", "unknown", "error"}

Places == {0, 1, 2}

(* Three terms that get three different places get all places.             *)
LEMMA EveryPlaceIsTaken ==
    ASSUME NEW ts, DOMAIN ts = 1 .. 3, Fits(ts), NEW place \in Places
    PROVE  \E i \in 1 .. 3 : ts[i] = At(ts, place) /\ Index(ts, i) = place
  <1>1. /\ DOMAIN ts = 1 .. 3
        /\ \A i \in 1 .. 3 : Index(ts, i) \in Places
        /\ Index(ts, 1) # Index(ts, 2) /\ Index(ts, 1) # Index(ts, 3)
        /\ Index(ts, 2) # Index(ts, 3)
    <2>1. \A i \in 1 .. 3 : Index(ts, i) \in Places
      BY DEF Index, Places
    <2> QED
      BY <2>1 DEF Fits, Places
  <1>2. \E i \in 1 .. 3 : Index(ts, i) = place
    BY <1>1 DEF Places
  <1> QED
    BY <1>1, <1>2 DEF At

LEMMA TermsHaveKinds ==
    ASSUME NEW term, NEW tableName, NEW alias
    PROVE  CompileTerm(term, tableName, alias).kind \in Kind
  <1>1. \A v : Value(v).kind \in Kind /\ Failed.kind \in Kind
    BY DEF Value, Failed, Named, Kind
  <1>2. \A t, n : Named("column", t, n).kind \in Kind
    BY DEF Named, Kind
  <1>3. \A v : CompileVar(v).kind \in Kind
    BY DEF CompileVar, Failed, Named, Kind
  <1>4. \A x : CompileItem(x).kind \in Kind
    BY <1>1, <1>3 DEF CompileItem
  <1>5. \A parts : Refer(parts, tableName, alias).kind \in Kind
    BY <1>1, <1>2 DEF Refer, Kind
  <1>6. Garbled.kind \in Kind
    BY DEF Garbled, Named, Kind
  <1> QED
    BY <1>4, <1>5, <1>6 DEF CompileTerm, CompileRef

(* A condition that is accepted has its operator in the middle, and the    *)
(* two others around it, a value at the right (opa.go 83-118, 421-453):    *)
(* none of the terms is lost or overwritten by another.                    *)
THEOREM NoTermIsLost ==
    ASSUME NEW expression, NEW tableName, NEW alias, DOMAIN expression.terms = 1 .. 3,
           Fits(CompileTerms(expression, tableName, alias))
    PROVE  LET ts == CompileTerms(expression, tableName, alias)
           IN  /\ {ts[i] : i \in 1 .. 3} = {At(ts, place) : place \in Places}
               /\ At(ts, 1).kind = "operator"
               /\ At(ts, 0).kind \in {"column", "unknown"}
               /\ At(ts, 2).kind \in {"column", "value"}
  <1> DEFINE ts == CompileTerms(expression, tableName, alias)
  <1>1. DOMAIN ts = 1 .. 3 /\ Fits(ts)
    BY DEF CompileTerms
  <1>2. \A i \in 1 .. 3 : ts[i].kind \in Kind \ {"error"}
    BY <1>1, TermsHaveKinds DEF CompileTerms, Fits
  <1> HIDE DEF ts
  <1>3. \A i \in 1 .. 3 :
           /\ Index(ts, i) \in Places
           /\ Index(ts, i) = 1 <=> ts[i].kind = "operator"
           /\ Index(ts, i) = 2 => ts[i].kind \in {"value", "column"}
           /\ Index(ts, i) = 0 => ts[i].kind \in {"column", "unknown"}
    BY <1>2 DEF Index, Kind, Places
  <1>4. \A place \in Places : \E i \in 1 .. 3 : ts[i] = At(ts, place) /\ Index(ts, i) = place
    BY <1>1, EveryPlaceIsTaken
  <1>5. \A i, j \in 1 .. 3 : Index(ts, i) = Index(ts, j) => i = j
    BY <1>1 DEF Fits
  <1>6. \A i \in 1 .. 3 : ts[i] = At(ts, Index(ts, i))
    BY <1>3, <1>4, <1>5
  <1>7. {ts[i] : i \in 1 .. 3} = {At(ts, place) : place \in Places}
    BY <1>3, <1>4, <1>6
  <1> QED
    BY <1>3, <1>4, <1>7 DEF ts, Places

-----------------------------------------------------------------------------
(* What the statement calls the table that is asked about.                 *)
Known(tableName, alias) == IF alias = "" THEN tableName ELSE alias

(* Only a reference is a column.                                           *)
LEMMA ItemIsNoColumn == Garbled.kind # "column" /\ \A x : CompileItem(x).kind # "column"
  <1>1. \A v : Value(v).kind # "column" /\ Failed.kind # "column"
    BY DEF Value, Failed, Named
  <1>2. \A v : CompileVar(v).kind # "column"
    BY DEF CompileVar, Failed, Named
  <1>3. Garbled.kind # "column"
    BY DEF Garbled, Named
  <1> QED
    BY <1>1, <1>2, <1>3 DEF CompileItem

(* A reference that is a column has the table of its third part, or the    *)
(* alias in its place.                                                     *)
LEMMA ColumnOfItsTable ==
    ASSUME NEW parts, NEW tableName, NEW alias,
           Refer(parts, tableName, alias).kind = "column"
    PROVE  Refer(parts, tableName, alias).table = ByAlias(parts[3].value, tableName, alias)
  <1>1. Failed.kind # "column"
    BY DEF Failed, Named
  <1>2. \A t, n : Named("column", t, n).table = t
    BY DEF Named
  <1> QED
    BY <1>1, <1>2 DEF Refer

LEMMA OwnNameIsKnown ==
    ASSUME NEW term, NEW tableName, NEW alias,
           CompileTerm(term, tableName, alias).kind = "column",
           CompileTerm(term, tableName, alias).table = tableName
    PROVE  tableName = Known(tableName, alias)
  <1>1. CompileTerm(term, tableName, alias) = CompileRef(term.value, tableName, alias)
    BY ItemIsNoColumn DEF CompileTerm, InQuotes
  <1>2. \E third : tableName = ByAlias(third, tableName, alias)
    BY <1>1, ColumnOfItsTable DEF CompileRef
  <1> QED
    BY <1>2 DEF ByAlias, Known

(* Every table a compiled condition names is known where the condition     *)
(* goes (opa.go 63-67, 105-110, 182-196): it is the table asked about, by  *)
(* the name the statement gives it, or one of the extra tables, which get  *)
(* an EXISTS of their own.                                                 *)
THEOREM NoUnknownTable ==
    ASSUME NEW expression, NEW tableName, NEW alias,
           DOMAIN expression.terms = 1 .. 3,
           Fits(CompileTerms(expression, tableName, alias)),
           \A i \in 1 .. 3 : CompileTerms(expression, tableName, alias)[i].table # ""
                                \/ CompileTerms(expression, tableName, alias)[i].kind # "column"
    PROVE  Names(Condition(expression, tableName, alias))
              \subseteq ExtraTables(expression, tableName, alias) \cup {Known(tableName, alias)}
  <1> DEFINE ts == CompileTerms(expression, tableName, alias)
             c  == Condition(expression, tableName, alias)
  <1>1. /\ DOMAIN ts = 1 .. 3
        /\ \E i \in 1 .. 3 : ts[i] = c.left
        /\ \E i \in 1 .. 3 : ts[i] = c.right
    <2>1. DOMAIN ts = 1 .. 3 /\ Fits(ts)
      BY DEF CompileTerms
    <2>2. c.left = At(ts, 0) /\ c.right = At(ts, 2)
      BY DEF Condition
    <2> HIDE DEF ts, c
    <2>3. /\ \E i \in 1 .. 3 : ts[i] = At(ts, 0)
          /\ \E i \in 1 .. 3 : ts[i] = At(ts, 2)
      BY <2>1, EveryPlaceIsTaken DEF Places
    <2> QED
      BY <2>1, <2>2, <2>3
  <1>2. ASSUME NEW i \in 1 .. 3, ts[i].kind = "column"
        PROVE  ts[i].table \in ExtraTables(expression, tableName, alias)
                                   \cup {Known(tableName, alias)}
    <2>1. ts[i] = CompileTerm(expression.terms[i], tableName, alias)
      BY <1>1 DEF CompileTerms
    <2>2. CASE ts[i].table \notin {tableName, alias}
      BY <1>1, <1>2, <2>2 DEF ExtraTables
    <2>3. CASE ts[i].table = tableName
      BY <1>2, <2>1, <2>3, OwnNameIsKnown
    <2>4. CASE ts[i].table = alias
      BY <1>2, <2>4 DEF Known
    <2> QED
      BY <2>2, <2>3, <2>4
  <1> QED
    BY <1>1, <1>2 DEF Names
=============================================================================
