--------------------------- MODULE MCAuthentication ---------------------------
(* Two databases; one has an OIDC client of its own, the other falls back  *)
(* to the base client or has none.  The optional steps are combined freely *)
(* on the plain path; TLS, a missing fallback, a wrong password and OIDC   *)
(* switched off are each met once.                                         *)
EXTENDS Authentication

CONSTANTS sales, stock, base, salesClient

MCDatabase == {sales, stock}
MCClientID == {base, salesClient}

Plain == [tls |-> FALSE, certOK |-> TRUE, oidc |-> TRUE, fallback |-> TRUE,
          clients |-> [d \in {sales} |-> salesClient],
          script |-> TRUE, assume |-> TRUE, sqlHandler |-> TRUE, passwordOK |-> TRUE]

Tested == {[Plain EXCEPT !.script = s, !.assume = a, !.sqlHandler = h] :
              s \in BOOLEAN, a \in BOOLEAN, h \in BOOLEAN}
          \cup {[Plain EXCEPT !.tls = TRUE, !.certOK = c] : c \in BOOLEAN}
          \cup {[Plain EXCEPT !.fallback = FALSE], [Plain EXCEPT !.oidc = FALSE],
                [Plain EXCEPT !.passwordOK = FALSE]}

Full == {Plain}
=============================================================================
