-------------------------- MODULE MCConnectionState --------------------------
(* Three names, one non-empty pair besides the empty one, four instants.   *)
EXTENDS ConnectionState

CONSTANTS u1, u2, u3, t1, none

MCUsername  == {u1, u2, u3}
MCTokenPair == {t1, none}
=============================================================================
