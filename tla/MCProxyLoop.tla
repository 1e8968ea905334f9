----------------------------- MODULE MCProxyLoop -----------------------------
(* Sessions with every combination of a token, the escape permission and a *)
(* SQL handler, of a client that waits for its answers; the set-up with    *)
(* everything, of one that pipelines two messages beside a database that   *)
(* speaks unasked once; one without tokens, of one that pipelines three;   *)
(* and one whose provider forgets the token.  Three messages are enough    *)
(* for a decision on one to meet the answer of the one before and the      *)
(* reading of the one after.                                               *)
EXTENDS ProxyLoop

Guarded   == [oidc |-> TRUE, allowEscape |-> FALSE, sqlHandler |-> TRUE,
              window |-> 1, tokenless |-> FALSE, messages |-> 3, notices |-> 0]
Pipelined == [Guarded EXCEPT !.window = 2]

All == {[Guarded EXCEPT !.oidc = o, !.allowEscape = a, !.sqlHandler = h] :
           o \in BOOLEAN, a \in BOOLEAN, h \in BOOLEAN}
       \cup {[Pipelined EXCEPT !.oidc = FALSE], [Pipelined EXCEPT !.messages = 2, !.notices = 1],
             [Guarded EXCEPT !.tokenless = TRUE]}

JustGuarded == {Guarded}
=============================================================================
