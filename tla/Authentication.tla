---------------------------- MODULE Authentication ----------------------------
(***************************************************************************)
(* One client connection, from the TCP accept to the moment the proxy      *)
(* declares it ready: PostgresHandler.Handle of internal/postgres.go up to *)
(* line 119, with the OIDC client of internal/oidc.go.  The handler is a   *)
(* single goroutine that converses with three peers which fail and answer  *)
(* on their own schedule: the client program, the database (the upstream)  *)
(* and the identity provider.                                              *)
(*                                                                         *)
(* Messages from the database arrive whole here and one at a time; what a  *)
(* client sends may be torn.  Nothing in the handler has a timeout.        *)
(***************************************************************************)
EXTENDS Naturals, Sequences

CONSTANTS Database,    \* database names a client may ask for
          ClientID,    \* OIDC clients known to the identity provider
          BaseClient,  \* conf.OIDCClientID
          None,        \* "nothing here": the empty string, the nil pointer
          Configs      \* the proxy configurations considered

(* clients maps some databases to a client of their own (config.go 116-119)*)
Config == [tls : BOOLEAN, certOK : BOOLEAN, oidc : BOOLEAN, fallback : BOOLEAN,
           clients : UNION {[S -> ClientID] : S \in SUBSET Database},
           script : BOOLEAN, assume : BOOLEAN, sqlHandler : BOOLEAN, passwordOK : BOOLEAN]

ASSUME ConfigAssumption == /\ Configs \subseteq Config
                           /\ BaseClient \in ClientID

VARIABLES
    conf,      \* the configuration of the process; never changes
    pc,        \* what the handler goroutine is about to do
    packet,    \* the client's startup packet, once read
    fresh,     \* has the access token the session holds not expired?
    oidc,      \* h.oidcClient: the client it acts for, the azp of its token
    userinfo,  \* h.userinfo, and whose token the provider vouched for
    ddl,       \* were the DDL permissions fetched (SetDDL)?
    plan,      \* statements executeQuery has still to send, and what follows
    told,      \* everything the client was sent, in order
    gone,      \* has the client closed its end?
    legs,      \* encryption: of the client leg, of the database leg, and offered
    db,        \* the database's side of the session
    request,   \* what the database has been sent and has not served
    replies    \* what the database has sent and the handler has not read

vars == <<conf, pc, packet, fresh, oidc, userinfo, ddl, plan,
          told, gone, legs, db, request, replies>>
handler == <<packet, oidc, userinfo, ddl, plan>>
peers   == <<fresh, gone, db>>

Superuser == "configured user"   \* conf.DestinationUsername
Claimed   == "claimed role"      \* the value of the username claim
Own       == "client's user"     \* the user name a token-less client gives

(* A startup packet: whether its user name leads to a pair of tokens,      *)
(* because it was posted to the API and is alive or because it spells both *)
(* out; the database it asks for; the OIDC clients the access token and    *)
(* the refresh token were issued for.                                      *)
Packet == [tokens : BOOLEAN, database : Database, azp : ClientID, refreshFor : ClientID]

(* What the database asks of a login: nothing, or an answer to a challenge.*)
Methods == {"ok", "cleartext", "md5", "md5zero", "gss", "sasl", "unknown"}

(* What the provider's userinfo says about the configured username claim,  *)
(* and the OIDC client of the token it was asked with.                     *)
Claims   == {"string", "missing", "notString"}
UserInfo == [claim : Claims, azp : ClientID]

(* What the database is sent.                                              *)
Statements == {"BEGIN", "script", "set session authorization", "END"}
Request == [kind : {"tls", "saslInitial"}]
           \cup [kind : {"startup"}, user : {Superuser, Own}, database : Database]
           \cup [kind : {"password"}, good : BOOLEAN]
           \cup [kind : {"query"}, statement : Statements]

ASSUME NoneAssumption == None \notin {Superuser, Claimed, "S"} \cup ClientID \cup Database
                                     \cup UserInfo \cup Request

Reading == {"challenge", "password", "saslFirst", "saslFinal", "metadata", "results"}
Telling == {"authok", "ready"}
Ended   == {"proxy", "closed", "unreachable", "crashed"}
Points  == {"dial", "greeting", "tls", "halfasked", "packet", "validity", "refresh", "userinfo", "login",
            "postauth", "assume", "statement", "setddl"} \cup Reading \cup Telling \cup Ended

(* The database's side: who logged in to what and as whom the session      *)
(* runs; the role a failed transaction restores; the challenge it sent;    *)
(* the transaction; as whom the script ran; was a login refused?           *)
Roles   == {None, Superuser, Claimed}
Session == [open : BOOLEAN, user : {None, Superuser}, database : Database \cup {None},
            role : Roles, saved : Roles, method : Methods \cup {None},
            txn : {"idle", "open", "failed"}, scriptAs : Roles, refused : BOOLEAN]

TypeOK ==
    /\ conf \in Configs
    /\ pc \in Points
    /\ packet \in Packet \cup {None}
    /\ fresh \in BOOLEAN /\ ddl \in BOOLEAN /\ gone \in BOOLEAN
    /\ oidc = None \/ oidc \in [client : ClientID, azp : ClientID \cup {None}]
    /\ userinfo \in UserInfo \cup {None}
    /\ Len(plan.todo) <= 3
    /\ legs \in [client : {"plain", "tls"}, db : {"plain", "tls"}, offered : {None, "S", "N", "other"}]
    /\ db \in Session
    /\ Len(told) <= 6 /\ Len(replies) <= 5

Init ==
    /\ conf \in Configs
    /\ pc = "dial"
    /\ packet = None /\ oidc = None /\ userinfo = None
    /\ fresh \in BOOLEAN
    /\ ddl = FALSE /\ gone = FALSE
    /\ plan = [todo |-> <<>>, next |-> "postauth"]
    /\ told = <<>>
    /\ legs = [client |-> "plain", db |-> "plain", offered |-> None]
    /\ db = [open |-> TRUE, user |-> None, database |-> None, role |-> None, saved |-> None, method |-> None,
             txn |-> "idle", scriptAs |-> None, refused |-> FALSE]
    /\ request = None
    /\ replies = <<>>

-----------------------------------------------------------------------------
(* Messages, and the ways a step of the handler ends.                      *)

M(op, val) == [op |-> op, val |-> val]
AuthOK     == M("R", "ok")
Idle       == M("Z", "I")

Tell(m) == told' = IF gone THEN told ELSE Append(told, m)

(* Mutant: both ends are closed without a word.                            *)
Fail_Silent(code) == /\ pc' = "closed"
                     /\ UNCHANGED <<conf, handler, peers, told, legs, request, replies>>

(* Handle, lines 107-117: the error is reported and both ends are closed.  *)
Fail(code) == /\ pc' = "closed"
              /\ Tell(M("E", code))
              /\ UNCHANGED <<conf, handler, peers, legs, request, replies>>

Goto(p) == pc' = p /\ UNCHANGED conf

(* A write to a peer that has left is lost or is an error, it depends on   *)
(* whether the kernel has already learnt that it left.                     *)
WriteFails(code)         == gone /\ Fail(code)
UpstreamWriteFails(code) == ~ db.open /\ Fail(code)

-----------------------------------------------------------------------------
(* Handle 97-103.                                                          *)
Dial == /\ pc = "dial"
        /\ \/ Goto("greeting")
           \/ Goto("unreachable")
        /\ UNCHANGED <<handler, peers, told, legs, request, replies>>

(* startup 132-149: a first packet of size 8 is relayed to the database.   *)
(* If its second half is torn, read reports neither bytes nor an error     *)
(* (236-242) and only the size is written: the database waits for the rest *)
(* and the handler for the database.                                       *)
AskTLS == /\ pc = "greeting" /\ ~ gone
          /\ \/ /\ Goto("tls")
                /\ request' = [kind |-> "tls"]
                /\ UNCHANGED <<handler, peers, told, legs, replies>>
             \/ /\ Goto("halfasked")
                /\ UNCHANGED <<handler, peers, told, legs, request, replies>>
             \/ UpstreamWriteFails("08000")

(* The database's one-byte answer; "other" is an error or an old server.   *)
OfferTLS(answer) ==
    /\ request # None /\ request.kind = "tls" /\ db.open
    /\ request' = None
    /\ replies' = Append(replies, M("tls", answer))
    /\ legs' = [legs EXCEPT !.offered = answer]
    /\ UNCHANGED <<conf, pc, handler, peers, told>>

(* Mutant: the database's leg is encrypted only together with the client's.*)
WrapUpstream_WithClient(answer) == answer = "S" /\ conf.tls

(* 175-184, and 187 whatever became of the client's leg.                   *)
WrapClient(answer)   == answer = "S" /\ conf.tls
WrapUpstream(answer) == answer = "S"

(* startup 160-193: who gets encrypted, and what the client is told.  With *)
(* no certificate configured the client is told 'N' whatever the database  *)
(* said; the leg to the database is encrypted all the same.                *)
NegotiateTLS ==
    /\ pc = "tls" /\ replies # <<>>
    /\ LET answer == Head(replies).val IN
       \/ /\ answer = "other" \/ (answer = "S" /\ conf.tls /\ ~ conf.certOK)
          /\ Fail("08000")
       \/ /\ answer = "N" \/ (answer = "S" /\ (conf.tls => conf.certOK))
          /\ Tell(M("tls", IF WrapClient(answer) THEN "S" ELSE "N"))
          /\ legs' = [legs EXCEPT !.client = IF WrapClient(answer) THEN "tls" ELSE "plain",
                                  !.db = IF WrapUpstream(answer) THEN "tls" ELSE "plain"]
          /\ replies' = Tail(replies)
          /\ Goto("packet")
          /\ UNCHANGED <<handler, peers, request>>
       \/ answer # "other" /\ WriteFails("08000")

(* 150-153: the database closes and the answer is not there.               *)
TLSAnswerMissing == /\ pc \in {"tls", "halfasked"} /\ replies = <<>> /\ ~ db.open
                    /\ Fail("08000")

-----------------------------------------------------------------------------
(* authenticate 264-339: the startup packet.                               *)

AwaitingPacket == pc \in {"greeting", "packet"}

(* The client leaves before its packet: startup's read fails.              *)
NoPacket == /\ AwaitingPacket /\ gone
            /\ Fail("08000")

(* Four bytes that arrive in two pieces: read returns nil for an error it  *)
(* does not report (236-242) and calculatePacketSize indexes into it.  A   *)
(* size below four makes the length of line 268 negative.  Either panics,  *)
(* and a panic in a goroutine takes the whole process down.                *)
BadSize == /\ AwaitingPacket /\ ~ gone
           /\ Goto("crashed")
           /\ UNCHANGED <<handler, peers, told, legs, request, replies>>

(* A packet that is torn after its size, or has fewer than two parameters. *)
MalformedPacket == /\ AwaitingPacket /\ ~ gone
                   /\ Fail("28000")

(* 286-308: without tokens the client talks to the database as itself.     *)
PassThrough(p) ==
    /\ AwaitingPacket /\ ~ gone
    /\ ~ p.tokens
    /\ \/ /\ packet' = p
          /\ request' = [kind |-> "startup", user |-> Own, database |-> p.database]
          /\ Goto("proxy")
          /\ UNCHANGED <<oidc, userinfo, ddl, plan, peers, told, legs, replies>>
       \/ UpstreamWriteFails("28000")

(* 317-330 *)
ClientFor(d) == IF d \in DOMAIN conf.clients THEN conf.clients[d]
                ELSE IF conf.fallback THEN BaseClient ELSE None

(* 312-315 and 323-326 *)
RefuseTokens(p) ==
    /\ AwaitingPacket /\ ~ gone
    /\ p.tokens
    /\ ~ conf.oidc \/ ClientFor(p.database) = None
    /\ Fail("28000")

(* 332: NewOIDCClient                                                      *)
AcceptTokens(p) ==
    /\ AwaitingPacket /\ ~ gone
    /\ p.tokens
    /\ conf.oidc /\ ClientFor(p.database) # None
    /\ packet' = p
    /\ oidc' = [client |-> ClientFor(p.database), azp |-> p.azp]
    /\ Goto("validity")
    /\ UNCHANGED <<userinfo, ddl, plan, peers, told, legs, request, replies>>

(* Mutant: a token of any client will do.                                  *)
IsAccessTokenValid_AnyClient == fresh

(* oidc.go 37-70 *)
IsAccessTokenValid == oidc.azp = oidc.client /\ fresh

CheckToken == /\ pc = "validity"
              /\ Goto(IF IsAccessTokenValid THEN "userinfo" ELSE "refresh")
              /\ UNCHANGED <<handler, peers, told, legs, request, replies>>

(* oidc.go 72-113.  The provider gives new tokens only to the client the   *)
(* refresh token was issued for.  An answer without an access_token counts *)
(* as a success and leaves the empty token; a new token is not re-checked. *)
RefreshAccessToken ==
    /\ pc = "refresh"
    /\ \/ Fail("28000")
       \/ /\ \/ /\ packet.refreshFor = oidc.client
                /\ oidc' = [oidc EXCEPT !.azp = oidc.client]
                /\ fresh' = TRUE
             \/ /\ oidc' = [oidc EXCEPT !.azp = None]
                /\ UNCHANGED fresh
          /\ Goto("userinfo")
          /\ UNCHANGED <<packet, userinfo, ddl, plan, gone, db, told, legs, request, replies>>

(* oidc.go 115-147: the provider answers for a token it issued to any of   *)
(* its clients, as long as it has not expired.                             *)
GetUserInfo ==
    /\ pc = "userinfo"
    /\ \/ Fail("28000")
       \/ /\ oidc.azp # None /\ fresh
          /\ \E c \in Claims : userinfo' = [claim |-> c, azp |-> oidc.azp]
          /\ Goto("login")
          /\ UNCHANGED <<packet, oidc, ddl, plan, peers, told, legs, request, replies>>

-----------------------------------------------------------------------------
(* auth 402-457 and the exchanges it chooses from.                         *)

Ask(r)   == request = None /\ request' = r
Reply    == Head(replies)
Read     == replies # <<>> /\ replies' = Tail(replies)

(* 405-420: the configured user asks for the client's database.            *)
Login == /\ pc = "login"
         /\ Ask([kind |-> "startup", user |-> Superuser, database |-> packet.database])
         /\ Goto("challenge")
         /\ UNCHANGED <<handler, peers, told, legs, replies>>

(* Is the answer to a password challenge the one the database computes?    *)
(* auth takes the MD5 salt from the pieces of the message between zero     *)
(* bytes (435-447): a salt with a zero byte in it is cut short, and the    *)
(* hash of a good password is then wrong.                                  *)
GoodAnswer(method) == conf.passwordOK /\ method # "md5zero"

(* 429-456: trust, one of the three supported methods, or an error.        *)
Challenge ==
    /\ pc = "challenge" /\ replies # <<>>
    /\ \/ /\ Reply.op # "R" \/ Reply.val \in {"gss", "unknown"}
          /\ Fail("28000")
       \/ /\ Reply = AuthOK
          /\ Read /\ Goto("authok")
          /\ UNCHANGED <<handler, peers, told, legs, request>>
       \/ /\ Reply.op = "R" /\ Reply.val \in {"cleartext", "md5", "md5zero"}
          /\ Read
          /\ Ask([kind |-> "password", good |-> GoodAnswer(Reply.val)])
          /\ Goto("password")
          /\ UNCHANGED <<handler, peers, told, legs>>
       \/ /\ Reply = M("R", "sasl")
          /\ Read
          /\ Ask([kind |-> "saslInitial"])
          /\ Goto("saslFirst")
          /\ UNCHANGED <<handler, peers, told, legs>>

(* Mutant: the proof is computed and never sent.                           *)
SASLContinue_NoProof ==
    /\ pc = "saslFirst" /\ replies # <<>>
    /\ Read /\ Goto("saslFinal")
    /\ UNCHANGED <<handler, peers, told, legs, request>>

(* 575-605: the server's first SCRAM message, and the proof in return.     *)
(* Anything else is an error, and so is a message the library rejects.     *)
SASLContinue ==
    /\ pc = "saslFirst" /\ replies # <<>>
    /\ \/ Fail("28000")
       \/ /\ Reply = M("R", "continue")
          /\ Read
          /\ Ask([kind |-> "password", good |-> GoodAnswer("sasl")])
          /\ Goto("saslFinal")
          /\ UNCHANGED <<handler, peers, told, legs>>

(* 607-626: the server's signature, which may not verify.                  *)
SASLFinal ==
    /\ pc = "saslFinal" /\ replies # <<>>
    /\ \/ Fail("28000")
       \/ /\ Reply = M("R", "final")
          /\ Read /\ Goto("password")
          /\ UNCHANGED <<handler, peers, told, legs, request>>

(* 491-502, 532-542, 628-638: nothing but AuthenticationOk will do.        *)
PasswordVerdict ==
    /\ pc = "password" /\ replies # <<>>
    /\ \/ /\ Reply # AuthOK
          /\ Fail("28000")
       \/ /\ Reply = AuthOK
          /\ Read /\ Goto("authok")
          /\ UNCHANGED <<handler, peers, told, legs, request>>

(* 354-358 *)
SendAuthOK == /\ pc = "authok"
              /\ \/ /\ Tell(AuthOK)
                    /\ Goto("metadata")
                    /\ UNCHANGED <<handler, peers, legs, request, replies>>
                 \/ WriteFails("28000")

(* Mutants: a statement's end is taken for the end of its answers; the     *)
(* database's own ReadyForQuery is passed on with the metadata.            *)
ReadUntilReady_Complete(at, downstream, next) ==
    /\ pc = at /\ replies # <<>>
    /\ \/ Reply.op = "E" /\ Fail("28000")
       \/ /\ Reply.op \in {"C", "Z"}
          /\ Read /\ Goto(next)
          /\ UNCHANGED <<handler, peers, told, legs, request>>
       \/ /\ Reply.op \notin {"E", "C", "Z"}
          /\ Read
          /\ IF downstream THEN Tell(Reply) ELSE UNCHANGED told
          /\ UNCHANGED <<conf, pc, handler, peers, legs, request>>

ReadUntilReady_Relayed(at, downstream, next) ==
    /\ pc = at /\ replies # <<>>
    /\ \/ Reply.op = "E" /\ Fail("28000")
       \/ /\ Reply.op # "E"
          /\ Read
          /\ IF downstream THEN Tell(Reply) ELSE UNCHANGED told
          /\ Goto(IF Reply.op = "Z" THEN next ELSE at)
          /\ UNCHANGED <<handler, peers, legs, request>>

(* readUntilReadyForQuery 641-661: one message of it.  The login's         *)
(* metadata is passed on to the client, the answers to the proxy's own     *)
(* statements are dropped.                                                 *)
ReadUntilReady(at, downstream, next) ==
    /\ pc = at /\ replies # <<>>
    /\ \/ /\ Reply.op = "E"
          /\ Fail("28000")
       \/ /\ Reply.op = "Z"
          /\ Read /\ Goto(next)
          /\ UNCHANGED <<handler, peers, told, legs, request>>
       \/ /\ Reply.op \notin {"E", "Z"}
          /\ Read
          /\ IF downstream THEN Tell(Reply) ELSE UNCHANGED told
          /\ UNCHANGED <<conf, pc, handler, peers, legs, request>>
       \/ /\ Reply.op \notin {"E", "Z"} /\ downstream
          /\ WriteFails("28000")

RelayMetadata == ReadUntilReady("metadata", TRUE, "postauth")

(* The database is gone and everything it said is read.                    *)
ReadFails == /\ pc \in Reading /\ replies = <<>> /\ ~ db.open
             /\ Fail("28000")

-----------------------------------------------------------------------------
(* executeQuery 717-768, and what authenticate runs through it.            *)

(* Mutants: the transaction is never ended; it is ended twice.             *)
Transaction_Open(statement)  == <<"BEGIN", statement>>
Transaction_Twice(statement) == <<"BEGIN", statement, "END", "END">>

Transaction(statement) == <<"BEGIN", statement, "END">>

Execute(statement, next) ==
    /\ plan' = [todo |-> Transaction(statement), next |-> next]
    /\ Goto("statement")
    /\ UNCHANGED <<packet, oidc, userinfo, ddl, peers, told, legs, request, replies>>

SendStatement ==
    /\ pc = "statement"
    /\ Ask([kind |-> "query", statement |-> Head(plan.todo)])
    /\ plan' = [plan EXCEPT !.todo = Tail(@)]
    /\ Goto("results")
    /\ UNCHANGED <<packet, oidc, userinfo, ddl, peers, told, legs, replies>>

ReadResults ==
    ReadUntilReady("results", FALSE, IF plan.todo = <<>> THEN plan.next ELSE "statement")

Skip(from, to) == /\ pc = from /\ Goto(to)
                  /\ UNCHANGED <<handler, peers, told, legs, request, replies>>

(* Mutant: the role is assumed before the script had its turn.             *)
PostAuth_RoleFirst == Skip("postauth", "assume")

(* 366-373 and 690-715: the script is a template, which may fail to expand.*)
PostAuth == \/ ~ conf.script /\ Skip("postauth", "assume")
            \/ /\ pc = "postauth" /\ conf.script
               /\ Execute("script", "assume") \/ Fail("28000")

(* 375-382 and 770-793 *)
AssumeUserSession ==
    \/ ~ conf.assume /\ Skip("assume", "setddl")
    \/ /\ pc = "assume" /\ conf.assume
       /\ \/ userinfo.claim = "string" /\ Execute("set session authorization", "setddl")
          \/ userinfo.claim # "string" /\ Fail("28000")

(* 384-391: three questions to the permission agent, any of which may fail.*)
SetDDL == \/ ~ conf.sqlHandler /\ Skip("setddl", "ready")
          \/ /\ pc = "setddl" /\ conf.sqlHandler
             /\ \/ /\ ddl' = TRUE
                   /\ Goto("ready")
                   /\ UNCHANGED <<packet, oidc, userinfo, plan, peers, told, legs, request, replies>>
                \/ Fail("28000")

(* 393-399 *)
SendReady == /\ pc = "ready"
             /\ \/ /\ Tell(Idle)
                   /\ Goto("proxy")
                   /\ UNCHANGED <<handler, peers, legs, request, replies>>
                \/ WriteFails("28000")

-----------------------------------------------------------------------------
(* The database.                                                           *)

Serve(answer, session) == /\ request # None /\ db.open
                          /\ request' = None
                          /\ replies' = replies \o answer
                          /\ db' = session
                          /\ UNCHANGED <<conf, pc, handler, fresh, gone, told, legs>>

LogIn(d) == [db EXCEPT !.user = Superuser, !.database = d, !.role = Superuser]
Welcome  == <<AuthOK, M("S", Superuser), M("K", "key"), Idle>>
Error    == M("E", None)

(* It accepts the login, challenges it, or refuses it; and an accepted     *)
(* login may still fail, for instance when the database does not exist.    *)
ServeStartup ==
    /\ request # None /\ request.kind = "startup" /\ request.user = Superuser
    /\ \/ Serve(Welcome, LogIn(request.database))
       \/ Serve(<<AuthOK, Error>>, [db EXCEPT !.database = request.database])
       \/ Serve(<<Error>>, [db EXCEPT !.database = request.database])
       \/ \E m \in Methods \ {"ok"} :
             Serve(<<M("R", m)>>, [db EXCEPT !.method = m, !.database = request.database])

ServeSASLInitial ==
    /\ request # None /\ request.kind = "saslInitial"
    /\ \/ Serve(<<M("R", "continue")>>, db)
       \/ Serve(<<Error>>, db)

ServePassword ==
    /\ request # None /\ request.kind = "password"
    /\ IF request.good
       THEN LET signature == IF db.method = "sasl" THEN <<M("R", "final")>> ELSE <<>> IN
            \/ Serve(signature \o Welcome, LogIn(db.database))
            \/ Serve(signature \o <<AuthOK, Error>>, db)
       ELSE Serve(<<Error>>, [db EXCEPT !.refused = TRUE])

Done == <<M("C", "complete"), Idle>>

(* A statement of the proxy's.  Changing the session's user is reported    *)
(* in a ParameterStatus; an error aborts the transaction; ending an        *)
(* aborted transaction, or failing to commit, restores what was set in it. *)
ServeQuery ==
    /\ request # None /\ request.kind = "query"
    /\ \/ /\ request.statement = "BEGIN"
          /\ Serve(Done, [db EXCEPT !.txn = "open", !.saved = db.role])
       \/ /\ request.statement = "script"
          /\ Serve(<<M("N", "notice")>> \o Done, [db EXCEPT !.scriptAs = db.role])
       \/ /\ request.statement = "set session authorization"
          /\ Serve(<<M("S", Claimed)>> \o Done, [db EXCEPT !.role = Claimed])
       \/ /\ request.statement \in {"script", "set session authorization"}
          /\ Serve(<<Error, Idle>>, [db EXCEPT !.txn = "failed"])
       \/ /\ request.statement = "END"
          /\ Serve(Done, [db EXCEPT !.txn = "idle",
                                   !.role = IF db.txn = "failed" THEN db.saved ELSE @])
       \/ /\ request.statement = "END"
          /\ Serve(<<Error, Idle>>, [db EXCEPT !.txn = "idle", !.role = db.saved])

DatabaseCloses == /\ db.open /\ pc \notin Ended
                  /\ db' = [db EXCEPT !.open = FALSE]
                  /\ UNCHANGED <<conf, pc, handler, fresh, gone, told, legs, request, replies>>

-----------------------------------------------------------------------------
(* The client leaves; the token reaches its expiry, which nothing looks at *)
(* any more once the userinfo is there.                                    *)
ClientLeaves == /\ ~ gone /\ pc \notin Ended
                /\ gone' = TRUE
                /\ UNCHANGED <<conf, pc, handler, fresh, db, told, legs, request, replies>>

TokenExpires == /\ fresh /\ userinfo = None /\ pc \notin Ended
                /\ fresh' = FALSE
                /\ UNCHANGED <<conf, pc, handler, gone, db, told, legs, request, replies>>

-----------------------------------------------------------------------------
ClientSpeaks == \/ AskTLS
                \/ MalformedPacket
                \/ BadSize
                \/ \E p \in Packet : PassThrough(p) \/ RefuseTokens(p) \/ AcceptTokens(p)

DatabaseServes == \/ \E answer \in {"S", "N", "other"} : OfferTLS(answer)
                  \/ ServeStartup \/ ServeSASLInitial \/ ServePassword \/ ServeQuery

Handler == \/ Dial \/ NegotiateTLS \/ TLSAnswerMissing \/ NoPacket
           \/ CheckToken \/ RefreshAccessToken \/ GetUserInfo
           \/ Login \/ Challenge \/ SASLContinue \/ SASLFinal \/ PasswordVerdict
           \/ SendAuthOK \/ RelayMetadata \/ ReadFails
           \/ SendStatement \/ ReadResults
           \/ PostAuth \/ AssumeUserSession \/ SetDDL \/ SendReady

(* The handshake is over: ProxyLoop takes it from here, or nobody does.    *)
Over == pc \in Ended /\ UNCHANGED vars

Next == Handler \/ ClientSpeaks \/ DatabaseServes
        \/ DatabaseCloses \/ ClientLeaves \/ TokenExpires \/ Over

(* The goroutine is scheduled; the database answers what it was asked or   *)
(* closes; the provider answers (its answer is part of the handler's step).*)
(* Nothing makes the client speak.                                         *)
Fairness == WF_vars(Handler) /\ WF_vars(DatabaseServes)

Spec     == Init /\ [][Next]_vars
FairSpec == Spec /\ Fairness

-----------------------------------------------------------------------------
(* The configured user is logged in only for somebody the provider vouched *)
(* for, with a token of the OIDC client that belongs to the database asked *)
(* for (postgres.go 319-346).  The provider itself answers userinfo for    *)
(* the tokens of all its clients: what ties the token to the database is   *)
(* the azp check, and the refresh that replaces a token failing it.        *)
VouchedForTheDatabase ==
    db.user = Superuser =>
        /\ conf.oidc
        /\ userinfo # None
        /\ db.database = packet.database
        /\ userinfo.azp = ClientFor(db.database)

(* When the proxy says ReadyForQuery, everything it was configured to do   *)
(* has been done and has stuck: the script was run, by the configured      *)
(* user; the session has the role of the claim, or the configured user's;  *)
(* the DDL permissions are known; no transaction is open; no answer is     *)
(* waiting that would be taken for the answer to the client's first query. *)
ReadyMeansPrepared ==
    pc = "proxy" /\ oidc # None =>
        /\ conf.script => db.scriptAs = Superuser
        /\ db.role = IF conf.assume THEN Claimed ELSE Superuser
        /\ conf.sqlHandler => ddl
        /\ db.txn = "idle"
        /\ request = None /\ replies = <<>>

(* The post-auth script precedes the role (README 94): no state has the    *)
(* role without the script's effects, or the script run under the role.    *)
ScriptBeforeRole ==
    /\ db.scriptAs \in {None, Superuser}
    /\ db.role = Claimed /\ conf.script => db.scriptAs = Superuser

(* Whoever speaks next has nothing unread: a statement is sent only when   *)
(* the previous one's answers, up to ReadyForQuery, have been consumed.    *)
(* Otherwise its failure would be noticed too late or not at all.          *)
InSync == pc \in {"login", "statement"} => request = None /\ replies = <<>>

(* The two legs are encrypted exactly as the two ends were led to believe: *)
(* the client's iff it was told 'S', the database's iff it offered 'S' by  *)
(* the time anything else is sent to it (startup 160-193).                 *)
LegsAsAnswered ==
    /\ ~ gone => (legs.client = "tls" <=> \E i \in DOMAIN told : told[i] = M("tls", "S"))
    /\ request # None /\ request.kind # "tls" => (legs.db = "tls" <=> legs.offered = "S")

(* What the client sees is a PostgreSQL server's side of a login: at most  *)
(* one TLS answer, first; metadata and ReadyForQuery only after            *)
(* AuthenticationOk; nothing after ReadyForQuery or an error.              *)
ServerLikeTranscript ==
    \A j \in DOMAIN told :
        /\ told[j].op = "tls" => j = 1
        /\ told[j].op \in {"S", "K", "N", "Z"} => \E i \in 1 .. j - 1 : told[i] = AuthOK
        /\ told[j] = AuthOK => \A i \in 1 .. j - 1 : told[i].op = "tls"
        /\ told[j].op \in {"Z", "E"} => j = Len(told)

(* A refused client that is still there is told why before it is hung up   *)
(* on; it is never told ReadyForQuery and refused, nor refused and served. *)
RefusalIsTold ==
    /\ pc = "closed" /\ ~ gone => told # <<>> /\ told[Len(told)].op = "E"
    /\ pc = "proxy" /\ oidc # None /\ ~ gone => told # <<>> /\ told[Len(told)] = Idle

(* Once the startup packet is in, the handshake ends: proxy and database   *)
(* never wait for each other.                                              *)
HandshakeEnds == packet # None ~> pc \in Ended

(* README 39: "if everything is A-OK, the proxy will authenticate to the   *)
(* database as the configured user".  A configured password that is right  *)
(* is never refused by the database.                                       *)
RightPasswordIsAccepted == conf.passwordOK => ~ db.refused
=============================================================================
