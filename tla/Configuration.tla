---------------------------- MODULE Configuration ----------------------------
(***************************************************************************)
(* From the options to a configuration (internal/config.go 75-152): the    *)
(* two lists that give databases OIDC clients of their own, and the files  *)
(* that must be there.  Reading flags and the environment is a library's.  *)
(*                                                                         *)
(* An entry of a list is a record of its kind: "pair" for database=value   *)
(* (the value may hold further =), "empty" for nothing between two commas, *)
(* "bad" for an entry without =.                                           *)
(***************************************************************************)
EXTENDS Naturals, Sequences

CONSTANTS Database,    \* the names of databases
          Credential,  \* client IDs and secrets
          NoSecret     \* the empty string, for a client without a secret

ASSUME NoSecretAssumption == NoSecret \in Credential

Entry  == [kind : {"pair"}, database : Database, value : Credential]
          \cup [kind : {"empty", "bad"}]
Client == [id : Credential, secret : Credential]

(* 86-98, 102-114: one entry, after those before it.                       *)

(* Mutant: a database that comes up again overwrites.                      *)
ParseEntry_Last(m, e) ==
    IF ~ m.ok \/ e.kind = "empty" THEN m
    ELSE IF e.kind = "bad" THEN [m EXCEPT !.ok = FALSE]
    ELSE [m EXCEPT !.map = [d \in {e.database} \cup DOMAIN m.map |->
                               IF d = e.database THEN e.value ELSE m.map[d]]]

ParseEntry(m, e) ==
    IF ~ m.ok \/ e.kind = "empty" THEN m
    ELSE IF e.kind = "bad" \/ e.database \in DOMAIN m.map THEN [m EXCEPT !.ok = FALSE]
    ELSE [m EXCEPT !.map = [d \in {e.database} \cup DOMAIN m.map |->
                               IF d = e.database THEN e.value ELSE m.map[d]]]

ParseMapping(entries) ==
    LET after[n \in 0 .. Len(entries)] ==
            IF n = 0 THEN [ok |-> TRUE, map |-> <<>>] ELSE ParseEntry(after[n - 1], entries[n])
    IN  after[Len(entries)]

(* 116-125: a secret is optional, but one without a client is an error.    *)
DatabaseClients(options) ==
    LET ids     == ParseMapping(options.ids).map
        secrets == ParseMapping(options.secrets).map
    IN  [d \in DOMAIN ids |->
            [id |-> ids[d],
             secret |-> IF d \in DOMAIN secrets THEN secrets[d] ELSE NoSecret]]

MappingsFit(options) ==
    LET ids     == ParseMapping(options.ids)
        secrets == ParseMapping(options.secrets)
    IN  ids.ok /\ secrets.ok /\ DOMAIN secrets.map \subseteq DOMAIN ids.map

(* 127-148: files are unset, there, or missing.                            *)
FilesFit(options) ==
    /\ options.template # "missing"
    /\ options.tls => options.certificate = "there" /\ options.key = "there"

Accepted(options) == MappingsFit(options) /\ FilesFit(options)
=============================================================================
