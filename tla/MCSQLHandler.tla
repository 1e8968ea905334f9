----------------------------- MODULE MCSQLHandler -----------------------------
(* Two tables; a CTE that borrows the name of one of them, before or after *)
(* the table is used; a join, and one in parentheses beside a table;       *)
(* nested selects; DDL alone and with a select in it; a TRUNCATE.  Four    *)
(* statements are enough to name a CTE, use its name, be refused and try   *)
(* again.                                                                  *)
EXTENDS SQLHandler

CONSTANTS pets, owners, recent

MCName == {pets, owners, recent}

Plainly(t) == [kind |-> "table", name |-> t]
Parens     == [kind |-> "other"]
Select(ts) == [op |-> "select", from |-> [i \in DOMAIN ts |-> Plainly(ts[i])]]
With(ns)   == [op |-> "with", names |-> ns]
Truncate   == [op |-> "other"]

MCStatement == {
    <<Select(<<pets>>)>>,
    <<Select(<<pets, owners>>)>>,
    <<[op |-> "select", from |-> <<Parens, Plainly(pets)>>]>>,
    <<Truncate>>,
    <<With({recent}), Select(<<pets>>), Select(<<recent, owners>>)>>,
    <<With({pets}), Select(<<owners>>), Select(<<pets>>)>>,
    <<Select(<<pets>>), With({pets}), Select(<<pets, owners>>)>>,
    <<[op |-> "create"]>>,
    <<[op |-> "create"], Select(<<owners>>)>>,
    <<[op |-> "update"], Select(<<pets>>)>>,
    <<[op |-> "delete"]>> }

MCPolicies == {p \in [MCName -> Answers] : p[recent] = "deny"}
=============================================================================
