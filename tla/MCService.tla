------------------------------ MODULE MCService ------------------------------
(* Two names, two connections and a request beside them, two starts.  One  *)
(* database has a client of its own in the operator's lists.               *)
EXTENDS Service

CONSTANTS u1, u2, t1, t2, none, c1, c2, q1, sales, stock, salesId, salesSecret,
          baseId, baseSecret, otherId

MCUsername == {u1, u2}
MCTokens   == {t1, t2, none}
MCDatabase == {sales, stock}
MCConn     == {c1, c2}
MCRequest  == {q1}
MCCredential == {salesId, salesSecret, baseId, baseSecret, otherId, NoSecret}
MCBase     == [id |-> baseId, secret |-> baseSecret]

Pair(d, v) == [kind |-> "pair", database |-> d, value |-> v]
Empty      == [kind |-> "empty"]
Bad        == [kind |-> "bad"]

Plain == [ids |-> <<Pair(sales, salesId)>>, secrets |-> <<Pair(sales, salesSecret)>>,
          template |-> "unset", tls |-> FALSE, certificate |-> "unset", key |-> "unset",
          oidc |-> TRUE, fallback |-> TRUE, agent |-> "opa", type |-> "postgres", period |-> 1]

Served == {Plain,
           [Plain EXCEPT !.fallback = FALSE, !.template = "there",
                         !.ids = <<Pair(stock, otherId), Empty, Pair(sales, salesId)>>,
                         !.tls = TRUE, !.certificate = "there", !.key = "there"] }

Unserved == {[Plain EXCEPT !.oidc = FALSE, !.period = 0],
             [Plain EXCEPT !.agent = "off"], [Plain EXCEPT !.agent = "none"],
             [Plain EXCEPT !.type = "other"]}

Rejected == {[Plain EXCEPT !.ids = <<Pair(sales, salesId), Pair(sales, otherId)>>],
             [Plain EXCEPT !.ids = <<Bad>>],
             [Plain EXCEPT !.secrets = <<Pair(stock, salesSecret)>>],
             [Plain EXCEPT !.template = "missing"],
             [Plain EXCEPT !.tls = TRUE, !.certificate = "there"]}

MCOptions == Served \cup Unserved \cup Rejected
=============================================================================
