---------------------------- MODULE LeaseRegistry ----------------------------
(***************************************************************************)
(* What the username registry promises to the rest of food-me: a username  *)
(* is handed out at most once; from then on a lookup answers with the      *)
(* tokens that were posted for it, until the name is withdrawn; and a      *)
(* withdrawn name never works again.                                       *)
(*                                                                         *)
(* There is no time, no map, no lock and no cleaner here: ConnectionState  *)
(* implements this with an expiry compared with the clock on each lookup   *)
(* and a background sweep.                                                 *)
(***************************************************************************)
CONSTANTS Username,   \* the names the API can generate
          TokenPair,  \* what can be posted: (access token, refresh token)
          NoTokens,   \* the pair of empty strings, GetTokens' "not found"
          Unused      \* a name that was never handed out; no pair

VARIABLE lease        \* lease[u]: what a lookup of u answers

TypeOK == lease \in [Username -> TokenPair \cup {Unused}]

Init == lease = [u \in Username |-> Unused]

(* A new name is handed out.  It may be worthless from the start: the      *)
(* posted pair may be empty and the configured lifetime may be zero.       *)
Grant(u) == /\ lease[u] = Unused
            /\ \E t \in TokenPair : lease' = [lease EXCEPT ![u] = t]

(* Any number of names handed out earlier stop working at once.            *)
Withdraw(S) == /\ \A u \in S : lease[u] # Unused
               /\ lease' = [u \in Username |-> IF u \in S THEN NoTokens ELSE lease[u]]

Next == \/ \E u \in Username : Grant(u)
        \/ \E S \in SUBSET Username : Withdraw(S)

Spec == Init /\ [][Next]_lease
=============================================================================
