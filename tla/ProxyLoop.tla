------------------------------ MODULE ProxyLoop ------------------------------
(***************************************************************************)
(* One session after its handshake (postgres.go 119-123): two goroutines   *)
(* share the client's and the database's sockets.  proxyUpstream reads the *)
(* client's messages one by one, checks the token, vets the statement and  *)
(* forwards it or answers with an error itself; proxyDownstream copies     *)
(* whatever bytes the database sends.  Both write to the client.           *)
(*                                                                         *)
(* Messages are numbered in the order the client sends them.  A response   *)
(* is a message copied in two chunks followed by a ReadyForQuery.          *)
(***************************************************************************)
EXTENDS Naturals, Sequences, FiniteSets, SequencesExt, FiniteSetsExt

CONSTANTS Configs,        \* the session set-ups considered
          Kinds,          \* the kinds of messages the client sends
          Arrivals        \* how a message may arrive: "whole", torn in "body" or in "size"

(* How the session was set up, oidc saying that h.oidcClient is not nil,   *)
(* and what its peers are like: how many unanswered messages the client    *)
(* allows itself (1 is lock-step); whether the provider may answer a       *)
(* refresh with status 200 and no access token; and two bounds: how many   *)
(* messages the client sends, and how many the database sends unasked.     *)
Config == [oidc : BOOLEAN, allowEscape : BOOLEAN, sqlHandler : BOOLEAN,
           window : Nat \ {0}, tokenless : BOOLEAN, messages : Nat, notices : Nat]

ASSUME LoopAssumption ==
    /\ Configs \subseteq Config
    /\ Kinds \subseteq {"query", "escape", "denied", "sync", "terminate"}
    /\ Arrivals \subseteq {"whole", "body", "size"}

VARIABLES
    conf,      \* the session's set-up and peers; never changes
    up,        \* where proxyUpstream is
    down,      \* where proxyDownstream is
    verdicts,  \* what became of each message the loop decided on
    message,   \* the message proxyUpstream holds
    wasValid,  \* was the token valid at some instant since that message was read?
    token,     \* h.oidcClient.AccessToken
    revoked,   \* does the provider refuse to refresh it?
    sent,      \* how many messages the client has sent
    toProxy,   \* those the proxy has not read
    client,    \* is the client still there?
    got,       \* everything the client received, in order
    db,        \* is the database still there?
    toDB,      \* messages forwarded, not yet served
    fromDB,    \* what the database sent and is not copied yet
    notices    \* how many messages it sent unasked

vars == <<conf, up, down, verdicts, message, wasValid, token, revoked,
          sent, toProxy, client, got, db, toDB, fromDB, notices>>
provider == <<token, revoked>>
network  == <<sent, toProxy, client, got, db, toDB, fromDB, notices>>

NoMessage == [id |-> 0, kind |-> "query", arrives |-> "whole"]
Frame(from, id, part) == [from |-> from, id |-> id, part |-> part]

(* The database's answer to message i, the proxy's, and a notice.          *)
Response(i) == <<Frame("db", i, "first"), Frame("db", i, "second"), Frame("db", i, "ready")>>
Refusal(i)  == <<Frame("proxy", i, "error"), Frame("proxy", i, "ready")>>
Notice      == <<Frame("db", 0, "first"), Frame("db", 0, "second")>>

Verdicts == {"forwarded", "token", "vetoed"}

TypeOK ==
    /\ conf \in Configs
    /\ up \in {"read", "check", "refresh", "vet", "forward", "error", "ready", "ended", "crashed"}
    /\ down \in {"copy", "ended", "crashed"}
    /\ verdicts \in Seq(Verdicts) /\ Len(verdicts) <= sent
    /\ message.id \in 0 .. sent /\ wasValid \in BOOLEAN
    /\ token \in {"valid", "expired", "empty"} /\ revoked \in BOOLEAN
    /\ sent \in 0 .. conf.messages /\ Len(toProxy) <= sent
    /\ client \in BOOLEAN /\ db \in BOOLEAN /\ notices \in 0 .. conf.notices
    /\ Len(toDB) <= sent /\ Len(got) <= 3 * sent + 2 * notices

Init ==
    /\ conf \in Configs
    /\ up = "read" /\ down = "copy"
    /\ verdicts = <<>> /\ message = NoMessage /\ wasValid = FALSE
    /\ token = "valid" /\ revoked = FALSE
    /\ sent = 0 /\ toProxy = <<>> /\ client = TRUE /\ got = <<>>
    /\ db = TRUE /\ toDB = <<>> /\ fromDB = <<>> /\ notices = 0

-----------------------------------------------------------------------------
(* The client.                                                             *)

Readies    == Cardinality({i \in DOMAIN got : got[i].part = "ready"})
Unanswered == sent - Readies

Connected == client /\ up \notin {"ended", "crashed"}

Send(kind, arrives) ==
    /\ Connected
    /\ sent < conf.messages /\ Unanswered < conf.window
    /\ sent' = sent + 1
    /\ toProxy' = Append(toProxy, [id |-> sent + 1, kind |-> kind, arrives |-> arrives])
    /\ UNCHANGED <<conf, up, down, verdicts, message, wasValid, provider,
                   client, got, db, toDB, fromDB, notices>>

ClientLeaves ==
    /\ Connected
    /\ client' = FALSE
    /\ UNCHANGED <<conf, up, down, verdicts, message, wasValid, provider,
                   sent, toProxy, got, db, toDB, fromDB, notices>>

-----------------------------------------------------------------------------
(* The token and the identity provider.                                    *)

TokenExpires == /\ conf.oidc /\ token = "valid"
                /\ token' = "expired"
                /\ UNCHANGED <<conf, up, down, verdicts, message, wasValid, revoked, network>>

AccessRevoked == /\ conf.oidc /\ ~ revoked
                 /\ revoked' = TRUE
                 /\ UNCHANGED <<conf, up, down, verdicts, message, wasValid, token, network>>

-----------------------------------------------------------------------------
(* proxyUpstream 842-905.                                                  *)

(* 844-858: readFullMessage.  An empty payload is taken for a close, and   *)
(* so is a body that read (224-244) got in two pieces: it returns nil and  *)
(* no error.  A torn size is nil as well, and indexing it panics.          *)
ReadMessage ==
    /\ up = "read" /\ toProxy # <<>>
    /\ LET m == Head(toProxy) IN
       /\ message' = m
       /\ wasValid' = (token = "valid")
       /\ up' = IF m.arrives = "size" THEN "crashed"
                ELSE IF m.arrives = "body" \/ m.kind \in {"sync", "terminate"} THEN "ended"
                ELSE "check"
       /\ down' = IF m.arrives = "size" THEN "crashed" ELSE down
    /\ toProxy' = Tail(toProxy)
    /\ UNCHANGED <<conf, verdicts, provider, sent, client, got, db, toDB, fromDB, notices>>

(* 847-853 *)
ClientClosed == /\ up = "read" /\ toProxy = <<>> /\ ~ client
                /\ up' = "ended"
                /\ UNCHANGED <<conf, down, verdicts, message, wasValid, provider, network>>

(* 861 *)
CheckToken == /\ up = "check"
              /\ up' = IF conf.oidc /\ token # "valid" THEN "refresh" ELSE "vet"
              /\ UNCHANGED <<conf, down, verdicts, message, wasValid, provider, network>>

Decide(verdict) == verdicts' = Append(verdicts, verdict)

(* Mutant: the error of the refresh is logged and forgotten.               *)
RefreshFails_Ignored == /\ up = "refresh"
                        /\ up' = "vet"
                        /\ UNCHANGED <<conf, down, verdicts, message, wasValid, provider, network>>

(* 863-871 with oidc.go 72-113: a failed refresh answers this message with *)
(* an error and goes on to the next one; an answer with status 200 is      *)
(* taken for a success whatever it says.                                   *)
RefreshFails == /\ up = "refresh"
                /\ up' = "error"
                /\ Decide("token")
                /\ UNCHANGED <<conf, down, message, wasValid, provider, network>>

Refreshed == /\ up = "refresh"
             /\ \/ ~ revoked /\ token' = "valid" /\ wasValid' = TRUE
                \/ conf.tokenless /\ token' = "empty" /\ UNCHANGED wasValid
             /\ up' = "vet"
             /\ UNCHANGED <<conf, down, verdicts, message, revoked, network>>

(* 873-897: the escape filter, then the SQL handler's opinion.             *)
Vetoed == \/ message.kind = "escape" /\ ~ conf.allowEscape
          \/ message.kind = "denied" /\ conf.sqlHandler

(* Mutant: the message is written to the database before it is vetted.     *)
Vet_Late == /\ up = "vet"
            /\ IF Vetoed THEN Decide("vetoed") /\ up' = "error"
                         ELSE Decide("forwarded") /\ up' = "read"
            /\ toDB' = IF db THEN Append(toDB, message) ELSE toDB
            /\ UNCHANGED <<conf, down, message, wasValid, provider,
                           sent, toProxy, client, got, db, fromDB, notices>>

Vet == /\ up = "vet"
       /\ \/ Vetoed /\ Decide("vetoed") /\ up' = "error"
          \/ ~ Vetoed /\ up' = "forward" /\ UNCHANGED verdicts
       /\ UNCHANGED <<conf, down, message, wasValid, provider, network>>

(* 899-903: to a database that closed, a write is lost or fails.           *)
Forward ==
    /\ up = "forward"
    /\ \/ /\ Decide("forwarded")
          /\ up' = "read"
          /\ toDB' = IF db THEN Append(toDB, message) ELSE toDB
       \/ /\ ~ db /\ up' = "ended"
          /\ UNCHANGED <<verdicts, toDB>>
    /\ UNCHANGED <<conf, down, message, wasValid, provider,
                   sent, toProxy, client, got, db, fromDB, notices>>

(* handleError 823-840: two writes, each of which may fail when the client *)
(* has left.                                                               *)
Answer(at, part, next) ==
    /\ up = at
    /\ \/ /\ up' = next
          /\ got' = IF client THEN Append(got, Frame("proxy", message.id, part)) ELSE got
       \/ /\ ~ client /\ up' = "ended" /\ UNCHANGED got
    /\ UNCHANGED <<conf, down, verdicts, message, wasValid, provider,
                   sent, toProxy, client, db, toDB, fromDB, notices>>

(* Mutants: an error without a ReadyForQuery; no continue after the error. *)
SendError_Alone        == Answer("error", "error", "read")
SendReady_FallsThrough == Answer("ready", "ready", "vet")

SendError == Answer("error", "error", "ready")
SendReady == Answer("ready", "ready", "read")

Upstream == \/ ReadMessage \/ ClientClosed \/ CheckToken \/ RefreshFails \/ Refreshed
            \/ Vet \/ Forward \/ SendError \/ SendReady

-----------------------------------------------------------------------------
(* proxyDownstream 795-821.                                                *)

Copy == /\ down = "copy" /\ fromDB # <<>> /\ up # "ended"
        /\ fromDB' = Tail(fromDB)
        /\ \/ /\ got' = IF client THEN Append(got, Head(fromDB)) ELSE got
              /\ UNCHANGED down
           \/ /\ ~ client
              /\ down' = "ended" /\ UNCHANGED got
        /\ UNCHANGED <<conf, up, verdicts, message, wasValid, provider,
                       sent, toProxy, client, db, toDB, notices>>

(* Mutant: Handle returns and leaves the database's socket open.           *)
CopyEnds_NoClose == /\ down = "copy" /\ ~ db /\ fromDB = <<>>
                    /\ down' = "ended"
                    /\ UNCHANGED <<conf, up, verdicts, message, wasValid, provider, network>>

(* The database closed, or Handle returned and its deferred Close calls    *)
(* (95, 103) pulled both sockets away.                                     *)
CopyEnds == /\ down = "copy"
            /\ up = "ended" \/ (~ db /\ fromDB = <<>>)
            /\ down' = "ended"
            /\ UNCHANGED <<conf, up, verdicts, message, wasValid, provider, network>>

Downstream == Copy \/ CopyEnds

-----------------------------------------------------------------------------
(* The database.                                                           *)

Serve == /\ db /\ toDB # <<>>
         /\ toDB' = Tail(toDB)
         /\ fromDB' = fromDB \o Response(Head(toDB).id)
         /\ UNCHANGED <<conf, up, down, verdicts, message, wasValid, provider,
                        sent, toProxy, client, got, db, notices>>

Notify == /\ db /\ notices < conf.notices /\ Connected
          /\ notices' = notices + 1
          /\ fromDB' = fromDB \o Notice
          /\ UNCHANGED <<conf, up, down, verdicts, message, wasValid, provider,
                         sent, toProxy, client, got, db, toDB>>

DatabaseCloses == /\ db /\ Connected
                  /\ db' = FALSE
                  /\ UNCHANGED <<conf, up, down, verdicts, message, wasValid, provider,
                                 sent, toProxy, client, got, toDB, fromDB, notices>>

-----------------------------------------------------------------------------
(* The session is over, or an idle client has sent all the model lets it.  *)
Rest == /\ up \in {"ended", "crashed"} \/ sent = conf.messages \/ Unanswered >= conf.window
        /\ UNCHANGED vars

Next == \/ Upstream \/ Downstream \/ Serve \/ Notify \/ DatabaseCloses
        \/ \E k \in Kinds, a \in Arrivals : Send(k, a)
        \/ ClientLeaves \/ TokenExpires \/ AccessRevoked
        \/ Rest

(* Both goroutines are scheduled, the database serves what it is sent and  *)
(* the provider answers (in the refresh step).  The client owes nothing.   *)
Fairness == WF_vars(Upstream) /\ WF_vars(Downstream) /\ WF_vars(Serve)

Spec     == Init /\ [][Next]_vars
FairSpec == Spec /\ Fairness

-----------------------------------------------------------------------------
(* Whatever reaches the database had a valid token behind it at some       *)
(* instant after the proxy read it (861-871): neither an expiry nor a      *)
(* revocation between two messages, nor a failed refresh, lets one         *)
(* through.  (The token may expire again before the write of line 899.)    *)
(* Excepted is a provider that says 200 and sends no token: oidc.go 111    *)
(* takes that for a success, and the message is forwarded.                 *)
ForwardedWasValid == up = "forward" /\ conf.oidc /\ ~ conf.tokenless => wasValid

WholeAnswer(i) == IF verdicts[i] = "forwarded" THEN Response(i) ELSE Refusal(i)
Responses  == [i \in DOMAIN verdicts |-> IF verdicts[i] = "forwarded" THEN Response(i) ELSE <<>>]

(* A client that waits for each answer, of a database that says nothing    *)
(* unasked, receives for its messages one whole answer each, in order,     *)
(* from the database or from the proxy: the two goroutines that write to   *)
(* it never get in each other's way (807, 814 against 827, 833).           *)
StreamIsWhole ==
    conf.window = 1 /\ conf.notices = 0 =>
        IsPrefix(got, FlattenSeq([i \in DOMAIN verdicts |-> WholeAnswer(i)]))

(* The frames that answer a message and come from the database.            *)
DatabaseAnswers(frames) ==
    FlattenSeq([i \in DOMAIN frames |->
        IF frames[i].from = "db" /\ frames[i].id # 0 THEN <<frames[i]>> ELSE <<>>])

(* Even to a client that pipelines, the database's own answers arrive      *)
(* complete, in the order of its messages, and for those messages only     *)
(* that the proxy forwarded: what was refused had no effect.               *)
DatabaseAnswersInOrder ==
    IsPrefix(DatabaseAnswers(got), FlattenSeq(Responses))

Longest == Max({c.messages : c \in Configs})

(* Every message is answered, unless the session ends or a peer leaves.    *)
EveryMessageAnswered ==
    \A i \in 1 .. Longest :
        sent >= i ~> (Readies >= i \/ up \in {"ended", "crashed"} \/ ~ client \/ ~ db)

(* No goroutine of a session whose client left stays behind, although only *)
(* proxyUpstream listens to the client and proxyDownstream is usually      *)
(* blocked on a database that has nothing to say.                          *)
GoroutinesEnd == ~ client ~> up \in {"ended", "crashed"} /\ down \in {"ended", "crashed"}

-----------------------------------------------------------------------------
(* What README 40 says of a message, and the loop does not do.             *)

(* "If it fails, the packet is then denied and the connection gets         *)
(* terminated": nothing is read after a message denied for its token.      *)
DeniedThenTerminated ==
    \A i \in DOMAIN verdicts : verdicts[i] = "token" => message.id = i

(* "otherwise the packets are proxied to the database": while both peers   *)
(* stay, only the client's own goodbye ends a session.                     *)
OnlyGoodbyeEnds == up = "ended" /\ client /\ db => message.kind = "terminate"
=============================================================================
