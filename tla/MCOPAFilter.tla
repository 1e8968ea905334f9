----------------------------- MODULE MCOPAFilter -----------------------------
(* Three tables of two columns.  The policy of pets may lead to owners and *)
(* clinics, that of owners to clinics or, in a circle, to pets.  Values,   *)
(* of rows and of the agent, are numbers whatever their type, so that they *)
(* compare; 3 stands for a string with a quote in it.                      *)
EXTENDS OPAMeaning

MCTable  == {"pets", "owners", "clinics"}
MCColumn == {"a", "b"}
Row      == [MCColumn -> 1 .. 2]

Item(s)    == [type |-> "string", value |-> s]
Var(s)     == [type |-> "var", value |-> s]
Num(n)     == [type |-> "number", value |-> n]
Str(n)     == [type |-> "string", value |-> n]
MCQuoting  == {3}
Data(path) == [type |-> "ref", value |-> <<Var("data")>> \o [i \in DOMAIN path |-> Item(path[i])]]
Col(t, c)  == Data(<<"tables", t, c>>)
Op(s)      == [type |-> "ref", value |-> <<Var(s)>>]

Is(op, x, y)  == [terms |-> <<Op(op), x, y>>, negated |-> FALSE]
Not(op, x, y) == [terms |-> <<Op(op), x, y>>, negated |-> TRUE]

Yes == <<(<<>>)>>
No  == <<>>
When(es) == <<es>>

Joined   == Is("eq", Col("pets", "a"), Col("owners", "a"))
ViaOwner == <<Joined, Is("gte", Col("owners", "b"), Num(2))>>
OwnOne   == <<Is("equal", Str(1), Col("pets", "b"))>>

PetsAnswers == {
    Yes, No, When(OwnOne), When(ViaOwner),
    <<ViaOwner, <<Joined>> \o OwnOne>>, <<OwnOne, <<Not("lt", Col("pets", "a"), Num(2))>>, <<Joined>> >>,
    When(<<Joined, Not("neq", Col("clinics", "b"), Col("owners", "b"))>>),
    When(<<Is("lt", Col("pets", "a"), Col("owners", "b"))>>),
    When(<<Is("lte", Num(2), Col("pets", "a"))>>) }

OwnersAnswers == {
    Yes, No, When(<<Is("eq", Col("owners", "b"), Num(1))>>),
    When(<<Is("eq", Col("owners", "a"), Col("clinics", "b"))>>),
    When(<<Joined>>) }

ClinicsAnswers == {Yes, When(<<Is("gt", Col("clinics", "a"), Num(1))>>)}

(* Answers that are not comparisons: two values, no operator, a column     *)
(* without a name, another root than data.tables, a variable; and a        *)
(* comparison with a string that has a quote in it.                        *)
Odd == { <<Is("eq", Num(1), Num(1))>>,
         <<[terms |-> <<Col("pets", "a"), Col("pets", "b"), Num(1)>>, negated |-> FALSE]>>,
         <<[terms |-> <<Op("eq"), Num(1)>>, negated |-> FALSE]>>,
         <<Is("eq", Data(<<"tables", "pets">>), Num(1))>>,
         <<Is("eq", Data(<<"input", "pets", "a">>), Num(1))>>,
         <<Is("plus", Col("pets", "a"), Num(1))>>,
         <<Is("eq", Var("data"), Num(1))>>,
         <<Is("eq", Col("pets", "a"), Str(3))>> }

Says(p, o, c) == [t \in MCTable |-> CASE t = "pets" -> p [] t = "owners" -> o [] OTHER -> c]

MCAnswers == {Says(p, o, c) : p \in PetsAnswers, o \in OwnersAnswers, c \in ClinicsAnswers}
             \cup {Says(<<OwnOne, q>>, Yes, Yes) : q \in Odd}

As(t, alias) == [table |-> t, alias |-> alias]
Column1(t)   == Named("column", t, <<"a">>)
OwnWhere(t)  == <<(<<[conditions |-> {[left |-> Column1(t), op |-> "=",
                                       right |-> Value(1), negated |-> FALSE]},
                      exists |-> <<>>]>>)>>

MCStatement == {
    [from |-> <<As("pets", "")>>, where |-> <<>>],
    [from |-> <<As("pets", "p")>>, where |-> OwnWhere("p")],
    [from |-> <<As("pets", "p"), As("pets", "q")>>, where |-> <<>>],
    [from |-> <<As("pets", ""), As("owners", "")>>, where |-> OwnWhere("owners")],
    [from |-> <<As("owners", "o"), As("pets", "p")>>, where |-> OwnWhere("o")],
    [from |-> <<As("pets", "owners")>>, where |-> <<>>] }

(* All rows of pets, since it is asked about row by row; no owner, one, or *)
(* two that differ in both columns; one clinic.                            *)
Owner(x, y) == [c \in MCColumn |-> IF c = "a" THEN x ELSE y]
Owners      == {S \in SUBSET Row : Cardinality(S) <= 1}
               \cup {{Owner(1, 1), Owner(2, 2)}, {Owner(1, 2), Owner(2, 1)}}

MCDatabase == {[t \in MCTable |-> CASE t = "pets" -> Row [] t = "owners" -> o [] OTHER -> {c}] :
                  o \in Owners, c \in Row}
=============================================================================
