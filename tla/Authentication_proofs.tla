------------------------ MODULE Authentication_proofs ------------------------
(***************************************************************************)
(* The handshake, for any databases, clients and configurations.           *)
(*                                                                         *)
(* The configured user, usually a superuser, is logged in to a database    *)
(* only for somebody the provider vouched for with a token of that         *)
(* database's OIDC client (IInv).  Around that invariant come three more,  *)
(* which rest on each other: proxy and database never talk past each other *)
(* (Conversation), the session in the database is as far as the handler's  *)
(* plan says (Steady and Progress), and the client was told a server's     *)
(* side of a login, over legs that are as it was told (Transcript and      *)
(* Encryption).  Together they are inductive (HandshakeInv).               *)
(***************************************************************************)
EXTENDS Authentication, TLAPS

-----------------------------------------------------------------------------
(* The inductive invariant of the identity.  The handshake is cut in       *)
(* three: before the packet is read, while the identity is verified, and   *)
(* from the login on.                                                      *)

Verifying == {"validity", "refresh", "userinfo"}
Acting    == {"login", "challenge", "password", "saslFirst", "saslFinal", "authok", "metadata",
              "postauth", "assume", "statement", "results", "setddl", "ready"}

(* The provider vouched for the user, to the client of the database asked. *)
Vouched == /\ packet \in Packet
           /\ conf.oidc
           /\ userinfo \in UserInfo
           /\ userinfo.azp = ClientFor(packet.database)

Requested(kinds) == request # None /\ request.kind \in kinds

Shapes == /\ conf \in Configs
          /\ db \in Session
          /\ plan = [todo |-> plan.todo, next |-> plan.next]
          /\ plan.next \in {"postauth", "assume", "setddl"}

(* Nothing passes between proxy and database until the login, except the   *)
(* one question and its answer while TLS is negotiated.                    *)
Silence == /\ pc \in Verifying \cup {"dial", "greeting", "packet", "login"} =>
                 request = None /\ replies = <<>> /\ db.database = None
           /\ pc = "tls" =>
                 /\ db.database = None
                 /\ \/ request = [kind |-> "tls"] /\ replies = <<>>
                    \/ request = None /\ replies # <<>> /\ Tail(replies) = <<>>
           /\ Requested({"tls"}) => pc \notin Acting

(* The session acts for the client of the database asked for, and a token  *)
(* that made it to the userinfo request is that client's or is empty.      *)
Entitled == pc \in Verifying =>
                /\ packet \in Packet
                /\ conf.oidc
                /\ oidc \in [client : ClientID, azp : ClientID \cup {None}]
                /\ oidc.client = ClientFor(packet.database)
                /\ pc = "userinfo" => oidc.azp \in {None, oidc.client}

(* Whatever is under way with the database is on behalf of that user.      *)
OnBehalf == /\ pc \in Acting => Vouched
            /\ Requested({"startup"}) /\ request.user = Superuser =>
                  Vouched /\ request.database = packet.database
            /\ Requested({"password", "saslInitial", "query"}) => db.database # None
            /\ pc \in Acting \ {"login", "challenge"} => db.database # None
            /\ pc = "challenge" /\ replies # <<>> => db.database # None
            /\ db.database # None => Vouched /\ db.database = packet.database
            /\ db.user = Superuser => db.database # None

IInv == Shapes /\ Silence /\ Entitled /\ OnBehalf

-----------------------------------------------------------------------------
(* It holds at the beginning: everything is empty.                         *)
LEMMA Initially == Init => IInv
  <1> SUFFICES ASSUME Init PROVE IInv
    OBVIOUS
  <1>1. db \in Session
    BY DEF Init, Session, Roles, Methods, Superuser
  <1>2. conf \in Configs /\ plan = [todo |-> plan.todo, next |-> plan.next] /\ plan.next = "postauth"
    BY DEF Init
  <1>3. /\ pc = "dial" /\ request = None /\ replies = <<>>
        /\ db.database = None /\ db.user # Superuser
    BY NoneAssumption DEF Init
  <1> QED
    BY <1>1, <1>2, <1>3 DEF IInv, Shapes, Silence, Entitled, OnBehalf, Verifying, Acting, Requested

(* A step that ends the handler or leaves it where it is, and changes      *)
(* nothing but what the client is told.                                    *)
LEMMA FailKeeps == ASSUME IInv, NEW code, Fail(code) PROVE IInv'
  BY DEF Fail, handler, peers, IInv, Shapes, Silence, Entitled, OnBehalf, Vouched, ClientFor,
     Verifying, Acting, Requested

(* Nor does a step that changes nothing.                                   *)
LEMMA StutterKeeps == ASSUME IInv, UNCHANGED vars PROVE IInv'
  BY DEF vars, IInv, Shapes, Silence, Entitled, OnBehalf, Vouched, ClientFor,
     Verifying, Acting, Requested

(* A configured client, or the base client, is a client of the provider.   *)
LEMMA ClientsAreKnown ==
    ASSUME conf \in Configs, NEW d, ClientFor(d) # None PROVE ClientFor(d) \in ClientID
  BY ConfigAssumption DEF ClientFor, Config

(* The client's and the proxy's steps until the packet is read.            *)
LEMMA OpeningKeeps ==
    ASSUME IInv,
           \/ Dial \/ AskTLS \/ NegotiateTLS \/ TLSAnswerMissing \/ NoPacket
           \/ BadSize \/ MalformedPacket
    PROVE  IInv'
  <1> USE DEF IInv, Shapes, Silence, Entitled, OnBehalf, Vouched, ClientFor, Verifying, Acting,
              Requested, handler, peers, Goto
  <1>1. CASE Dial
    BY <1>1 DEF Dial
  <1>2. CASE AskTLS
    BY <1>2, FailKeeps DEF AskTLS, UpstreamWriteFails
  <1>3. CASE NegotiateTLS
    BY <1>3, FailKeeps DEF NegotiateTLS, WriteFails
  <1>4. CASE TLSAnswerMissing \/ NoPacket \/ MalformedPacket
    BY <1>4, FailKeeps DEF TLSAnswerMissing, NoPacket, MalformedPacket
  <1>5. CASE BadSize
    BY <1>5 DEF BadSize, AwaitingPacket
  <1> QED
    BY <1>1, <1>2, <1>3, <1>4, <1>5

(* The packet, with and without tokens.                                    *)
LEMMA PacketKeeps ==
    ASSUME IInv, NEW p \in Packet, PassThrough(p) \/ RefuseTokens(p) \/ AcceptTokens(p)
    PROVE  IInv'
  <1> USE DEF IInv, Shapes, Silence, Entitled, OnBehalf, Vouched, Verifying, Acting,
              Requested, peers, Goto
  <1>1. CASE PassThrough(p)
    <2>1. CASE UpstreamWriteFails("28000")
      BY <2>1, FailKeeps DEF UpstreamWriteFails
    <2>2. CASE ~ UpstreamWriteFails("28000")
      <3>1. /\ pc \in {"greeting", "packet"} /\ pc' = "proxy"
            /\ request' = [kind |-> "startup", user |-> Own, database |-> p.database]
            /\ UNCHANGED <<conf, db, plan, replies>>
        BY <1>1, <2>2 DEF PassThrough, AwaitingPacket
      <3> QED
        BY <3>1 DEF Own, Superuser
    <2> QED
      BY <2>1, <2>2
  <1>2. CASE RefuseTokens(p)
    BY <1>2, FailKeeps DEF RefuseTokens
  <1>3. CASE AcceptTokens(p)
    BY <1>3, ClientsAreKnown DEF AcceptTokens, AwaitingPacket, Packet, ClientFor
  <1> QED
    BY <1>1, <1>2, <1>3

(* The OIDC client's three steps.                                          *)
LEMMA VerificationKeeps ==
    ASSUME IInv, CheckToken \/ RefreshAccessToken \/ GetUserInfo
    PROVE  IInv'
  <1> USE DEF IInv, Shapes, Silence, Entitled, OnBehalf, Vouched, ClientFor, Verifying, Acting,
              Requested, handler, peers, Goto
  <1>1. CASE CheckToken
    BY <1>1 DEF CheckToken, IsAccessTokenValid
  <1>2. CASE RefreshAccessToken
    BY <1>2, FailKeeps DEF RefreshAccessToken
  <1>3. CASE GetUserInfo
    BY <1>3, FailKeeps DEF GetUserInfo, UserInfo
  <1> QED
    BY <1>1, <1>2, <1>3

(* The login and its exchanges.                                            *)
LEMMA LoginKeeps ==
    ASSUME IInv, Login \/ Challenge \/ SASLContinue \/ SASLFinal \/ PasswordVerdict
    PROVE  IInv'
  <1> USE DEF IInv, Shapes, Silence, Entitled, OnBehalf, Vouched, ClientFor, Verifying, Acting,
              Requested, handler, peers, Goto, Ask, Read
  <1>1. CASE Login
    BY <1>1 DEF Login
  <1>2. CASE Challenge
    BY <1>2, FailKeeps DEF Challenge
  <1>3. CASE SASLContinue
    BY <1>3, FailKeeps DEF SASLContinue
  <1>4. CASE SASLFinal \/ PasswordVerdict
    BY <1>4, FailKeeps DEF SASLFinal, PasswordVerdict
  <1> QED
    BY <1>1, <1>2, <1>3, <1>4

(* A statement is sent: only the plan and the request change.              *)
LEMMA SendStatementKeeps == ASSUME IInv, SendStatement PROVE IInv'
  <1>1. plan' = [todo |-> Tail(plan.todo), next |-> plan.next]
    BY DEF SendStatement, IInv, Shapes
  <1>2. plan' = [todo |-> plan'.todo, next |-> plan'.next] /\ plan'.next = plan.next
    BY <1>1
  <1>3. /\ pc = "statement" /\ pc' = "results"
        /\ request'.kind = "query"
        /\ UNCHANGED <<conf, packet, oidc, userinfo, db, replies>>
    BY DEF SendStatement, Ask, Goto, peers
  <1>4. Vouched /\ Vouched'
    BY <1>3 DEF IInv, OnBehalf, Acting, Vouched, ClientFor
  <1>5. db.database # None /\ db.database = packet.database
    BY <1>3 DEF IInv, OnBehalf, Acting
  <1>6. Shapes'
    BY <1>2, <1>3 DEF IInv, Shapes
  <1>7. ~ Requested({"tls"})' /\ ~ Requested({"startup"})'
    BY <1>3 DEF Requested
  <1>8. Silence' /\ Entitled'
    BY <1>3, <1>7 DEF Silence, Entitled, Verifying
  <1>9. OnBehalf'
    BY <1>3, <1>4, <1>5, <1>7 DEF OnBehalf
  <1> QED
    BY <1>6, <1>8, <1>9 DEF IInv

(* Statements are planned: only the plan changes.                          *)
LEMMA ExecuteKeeps ==
    ASSUME IInv, pc \in {"postauth", "assume"},
           NEW statement, NEW next \in {"assume", "setddl"}, Execute(statement, next)
    PROVE  IInv'
  <1>1. plan' = [todo |-> plan'.todo, next |-> plan'.next] /\ plan'.next = next
    BY DEF Execute
  <1>2. /\ pc' = "statement"
        /\ UNCHANGED <<conf, packet, oidc, userinfo, db, request, replies>>
    BY DEF Execute, Goto, peers
  <1>3. Shapes' /\ Silence' /\ Entitled'
    BY <1>1, <1>2 DEF IInv, Shapes, Silence, Entitled, Verifying, Acting, Requested
  <1>4. OnBehalf'
    BY <1>2 DEF IInv, OnBehalf, Vouched, ClientFor, Acting, Requested
  <1> QED
    BY <1>3, <1>4 DEF IInv

(* What follows the login.                                                 *)
LEMMA PreparationKeeps ==
    ASSUME IInv,
           \/ SendAuthOK \/ RelayMetadata \/ ReadFails \/ SendStatement \/ ReadResults
           \/ PostAuth \/ AssumeUserSession \/ SetDDL \/ SendReady
    PROVE  IInv'
  <1> USE DEF IInv, Shapes, Silence, Entitled, OnBehalf, Vouched, ClientFor, Verifying, Acting,
              Requested, handler, peers, Goto, Skip, WriteFails
  <1>1. CASE SendAuthOK \/ SendReady
    BY <1>1, FailKeeps DEF SendAuthOK, SendReady
  <1>2. CASE RelayMetadata
    BY <1>2, FailKeeps DEF RelayMetadata, ReadUntilReady, Read
  <1>3. CASE ReadResults
    BY <1>3, FailKeeps DEF ReadResults, ReadUntilReady, Read
  <1>4. CASE ReadFails
    BY <1>4, FailKeeps DEF ReadFails
  <1>5. CASE SendStatement
    BY <1>5, SendStatementKeeps
  <1>6. CASE PostAuth
    <2>1. CASE ~ conf.script /\ Skip("postauth", "assume")
      BY <2>1
    <2>2. CASE pc = "postauth" /\ Execute("script", "assume")
      BY <2>2, ExecuteKeeps
    <2>3. CASE Fail("28000")
      BY <2>3, FailKeeps
    <2> QED
      BY <1>6, <2>1, <2>2, <2>3 DEF PostAuth
  <1>7. CASE AssumeUserSession
    <2>1. CASE ~ conf.assume /\ Skip("assume", "setddl")
      BY <2>1
    <2>2. CASE pc = "assume" /\ Execute("set session authorization", "setddl")
      BY <2>2, ExecuteKeeps
    <2>3. CASE Fail("28000")
      BY <2>3, FailKeeps
    <2> QED
      BY <1>7, <2>1, <2>2, <2>3 DEF AssumeUserSession
  <1>8. CASE SetDDL
    BY <1>8, FailKeeps DEF SetDDL
  <1> QED
    BY <1>1, <1>2, <1>3, <1>4, <1>5, <1>6, <1>7, <1>8

(* The database serves a request that was made for the user.               *)
LEMMA ServeKeeps ==
    ASSUME IInv, Vouched, Requested({"startup", "saslInitial", "password", "query"}),
           NEW answer, NEW session \in Session,
           session.database # None, session.database = packet.database,
           Serve(answer, session)
    PROVE  IInv'
  BY DEF Serve, handler, IInv, Shapes, Silence, Entitled, OnBehalf, Vouched, ClientFor,
     Verifying, Acting, Requested

(* The database's steps.                                                   *)
LEMMA DatabaseKeeps ==
    ASSUME IInv, DatabaseServes \/ DatabaseCloses
    PROVE  IInv'
  <1>1. ASSUME NEW answer \in {"S", "N", "other"}, OfferTLS(answer)
        PROVE  IInv'
    BY <1>1 DEF OfferTLS, handler, peers, IInv, Shapes, Silence, Entitled, OnBehalf, Vouched,
       ClientFor, Verifying, Acting, Requested
  <1>2. CASE ServeStartup
    <2>1. /\ Vouched /\ Requested({"startup", "saslInitial", "password", "query"})
          /\ request.database = packet.database /\ request.database \in Database
      BY <1>2 DEF ServeStartup, IInv, OnBehalf, Vouched, Requested, Packet
    <2>2. request.database # None /\ db \in Session
      BY <2>1, NoneAssumption DEF IInv, Shapes
    <2>3. LogIn(request.database) \in Session /\ LogIn(request.database).database = request.database
      BY <2>1, <2>2 DEF LogIn, Session, Roles
    <2>4. /\ [db EXCEPT !.database = request.database] \in Session
          /\ [db EXCEPT !.database = request.database].database = request.database
      BY <2>1, <2>2 DEF Session
    <2>5. \A m \in Methods :
             /\ [db EXCEPT !.method = m, !.database = request.database] \in Session
             /\ [db EXCEPT !.method = m, !.database = request.database].database = request.database
      BY <2>1, <2>2 DEF Session
    <2>6. CASE Serve(Welcome, LogIn(request.database))
      BY <2>1, <2>2, <2>3, <2>6, ServeKeeps
    <2>7. CASE \/ Serve(<<AuthOK, Error>>, [db EXCEPT !.database = request.database])
               \/ Serve(<<Error>>, [db EXCEPT !.database = request.database])
      BY <2>1, <2>2, <2>4, <2>7, ServeKeeps
    <2>8. ASSUME NEW m \in Methods \ {"ok"},
                 Serve(<<M("R", m)>>, [db EXCEPT !.method = m, !.database = request.database])
          PROVE  IInv'
      BY <2>1, <2>2, <2>5, <2>8, ServeKeeps
    <2> QED
      BY <1>2, <2>6, <2>7, <2>8 DEF ServeStartup
  <1>3. ASSUME ServeSASLInitial \/ ServePassword \/ ServeQuery
        PROVE  /\ Vouched /\ Requested({"startup", "saslInitial", "password", "query"})
               /\ db \in Session /\ db.database # None /\ db.database = packet.database
    BY <1>3 DEF ServeSASLInitial, ServePassword, ServeQuery, IInv, Shapes, OnBehalf, Requested
  <1>4. CASE ServeSASLInitial
    BY <1>3, <1>4, ServeKeeps DEF ServeSASLInitial
  <1>5. CASE ServePassword
    <2>1. LogIn(db.database) \in Session /\ LogIn(db.database).database = db.database
      BY <1>3, <1>5 DEF LogIn, Session, Roles
    <2>2. /\ [db EXCEPT !.refused = TRUE] \in Session
          /\ [db EXCEPT !.refused = TRUE].database = db.database
      BY <1>3, <1>5 DEF Session
    <2>3. PICK answer : \/ Serve(answer, LogIn(db.database))
                        \/ Serve(answer, db)
                        \/ Serve(answer, [db EXCEPT !.refused = TRUE])
      BY <1>5 DEF ServePassword
    <2> QED
      BY <1>3, <1>5, <2>1, <2>2, <2>3, ServeKeeps
  <1>6. CASE ServeQuery
    <2>1. ASSUME NEW answer, NEW session \in Session, session.database = db.database,
                 Serve(answer, session)
          PROVE  IInv'
      BY <1>3, <1>6, <2>1, ServeKeeps
    <2> DEFINE opened     == [db EXCEPT !.txn = "open", !.saved = db.role]
               ran        == [db EXCEPT !.scriptAs = db.role]
               assumed    == [db EXCEPT !.role = Claimed]
               failed     == [db EXCEPT !.txn = "failed"]
               committed  == [db EXCEPT !.txn = "idle",
                                        !.role = IF db.txn = "failed" THEN db.saved ELSE @]
               rolledBack == [db EXCEPT !.txn = "idle", !.role = db.saved]
    <2>2. \A session \in {opened, ran, assumed, failed, committed, rolledBack} :
             session \in Session /\ session.database = db.database
      BY ZenonT(60), <1>3, <1>6 DEF Session, Roles
    <2>3. PICK answer, session : /\ Serve(answer, session)
                                 /\ session \in {opened, ran, assumed, failed, committed, rolledBack}
      BY <1>6, Zenon DEF ServeQuery
    <2> HIDE DEF opened, ran, assumed, failed, committed, rolledBack
    <2>4. session \in Session /\ session.database = db.database
      BY <2>2, <2>3
    <2> QED
      BY <2>1, <2>3, <2>4
  <1>7. CASE DatabaseCloses
    BY <1>7 DEF DatabaseCloses, Session, handler, IInv, Shapes, Silence, Entitled, OnBehalf, Vouched,
       ClientFor, Verifying, Acting, Requested
  <1> QED
    BY <1>1, <1>2, <1>4, <1>5, <1>6, <1>7 DEF DatabaseServes

(* No step leaves the invariant.                                           *)
LEMMA Inductive == IInv /\ [Next]_vars => IInv'
  <1> SUFFICES ASSUME IInv, [Next]_vars PROVE IInv'
    OBVIOUS
  <1>1. CASE ClientLeaves \/ TokenExpires
    BY <1>1 DEF ClientLeaves, TokenExpires, handler, IInv, Shapes, Silence, Entitled, OnBehalf,
       Vouched, ClientFor, Verifying, Acting, Requested
  <1>2. CASE ClientSpeaks
    BY <1>2, OpeningKeeps, PacketKeeps DEF ClientSpeaks
  <1>3. CASE Handler
    BY <1>3, OpeningKeeps, VerificationKeeps, LoginKeeps, PreparationKeeps DEF Handler
  <1>4. CASE DatabaseServes \/ DatabaseCloses
    BY <1>4, DatabaseKeeps
  <1>5. CASE Over \/ UNCHANGED vars
    BY <1>5, StutterKeeps DEF Over
  <1> QED
    BY <1>1, <1>2, <1>3, <1>4, <1>5 DEF Next

-----------------------------------------------------------------------------
(* What may be asked of the database, and what it may answer.              *)

(* The answers to a login, and what is left of a good one once             *)
(* AuthenticationOk is read, and then message by message.                  *)
Refusal   == <<Error>>
Rejection == <<AuthOK, Error>>
Metadata  == <<M("S", Superuser), M("K", "key"), Idle>>
KeyData   == <<M("K", "key"), Idle>>
Ending    == <<Idle>>
Signed(s) == <<M("R", "final")>> \o s
Verdicts  == {Welcome, Rejection, Refusal}
Proofs    == {Signed(Welcome), Signed(Rejection), Refusal}
Remaining == {Metadata, KeyData, Ending, Refusal}
Welcoming == {Welcome, Signed(Welcome), Metadata, KeyData, Ending}

(* Of the answer to a statement.                                           *)
Noticed   == <<M("N", "notice")>> \o Done
Reported  == <<M("S", Claimed)>> \o Done
Successes == {Noticed, Reported, Done, Ending}
Failure   == <<Error, Idle>>

Legs == [client : {"plain", "tls"}, db : {"plain", "tls"}, offered : {None, "S", "N", "other"}]

Quiet == request = None /\ replies = <<>>

(* Points at which nothing is under way between proxy and database.        *)
QuietPoints == {"dial", "greeting", "packet", "login", "postauth", "assume", "statement",
                "setddl", "ready"} \cup Verifying

(* The question that is asked at a point, and its answers.                 *)
Asking(kind, answers) == IF request = None THEN replies \in answers
                         ELSE request.kind = kind /\ replies = <<>>

(* The two never talk past each other: wherever the handler is, either its *)
(* question is open and everything before is read, or the answer is there, *)
(* or what is left of it.                                                  *)
Conversation ==
    /\ request \in Request \cup {None} /\ legs \in Legs
    /\ request # None => replies = <<>>
    /\ Len(replies) <= 5
    /\ pc \in QuietPoints \/ (pc = "proxy" /\ oidc # None) => Quiet
    /\ pc = "tls" => Asking("tls", {<<M("tls", legs.offered)>>})
    /\ pc = "challenge" =>
          Asking("startup", Verdicts \cup {<<M("R", m)>> : m \in (Methods \ {"ok"}) \cap {db.method}})
    /\ pc = "saslFirst" => Asking("saslInitial", {<<M("R", "continue")>>, Refusal})
    /\ pc = "saslFinal" => Asking("password", Proofs)
    /\ pc = "password" => Asking("password", Verdicts)
    /\ pc = "authok" => request = None /\ replies \in {Metadata, Refusal}
    /\ pc = "metadata" => request = None /\ replies \in Remaining
    /\ pc = "results" => Asking("query", Successes \cup {Failure})
    /\ pc \in {"saslFirst", "saslFinal"} => db.method = "sasl"
    /\ pc = "password" /\ request # None => db.method # "sasl"

-----------------------------------------------------------------------------
(* The session in the database.                                            *)

Body(next) == IF next = "assume" THEN "script" ELSE "set session authorization"

Scripted == conf.script => db.scriptAs = Superuser

(* What the session is like when the handler turns to the point named.     *)
Before(point) ==
    /\ point \in {"postauth", "assume"} => db.role = Superuser
    /\ point = "setddl" => db.role = IF conf.assume THEN Claimed ELSE Superuser
    /\ point \in {"assume", "setddl"} => Scripted

(* What is still to be sent of a transaction.                              *)
NotBegun(next) == Transaction(Body(next))
Begun(next)    == <<Body(next), "END">>
ToEnd          == <<"END">>

(* It says how far the transaction is.                                     *)
Within(todo, next) ==
    /\ todo \in {NotBegun(next), Begun(next), ToEnd, <<>>}
    /\ todo = NotBegun(next) => db.txn = "idle" /\ db.role = Superuser
    /\ todo = Begun(next) => db.txn = "open" /\ db.role = Superuser
    /\ todo = ToEnd => db.txn = "open" /\ Before(next)
    /\ todo = <<>> => db.txn = "idle" /\ Before(next)

(* The statement that was just sent, and the session it was sent to.       *)
Sent(todo, next) ==
    /\ todo \in {Begun(next), ToEnd, <<>>}
    /\ todo = Begun(next) => request.statement = "BEGIN" /\ db.role = Superuser
    /\ todo = ToEnd => request.statement = Body(next) /\ db.txn = "open" /\ db.role = Superuser
    /\ todo = <<>> => request.statement = "END" /\ db.txn = "open" /\ Before(next)

Transacting ==
    /\ plan.next \in {"assume", "setddl"}
    /\ plan.next = "setddl" => conf.assume /\ Scripted
    /\ pc = "statement" => plan.todo # <<>> /\ Within(plan.todo, plan.next)
    /\ pc = "results" => IF request # None THEN Sent(plan.todo, plan.next)
                         ELSE replies # Failure => Within(plan.todo, plan.next)

(* Whatever becomes of the handler, a statement that is still to be served *)
(* meets the session it was meant for.                                     *)
Steady ==
    /\ db.scriptAs \in {None, Superuser} /\ db.saved \in {None, Superuser}
    /\ db.role = Claimed => Scripted
    /\ Requested({"query"}) =>
          /\ request.statement \in {"BEGIN", "script"} => db.role = Superuser
          /\ request.statement = "set session authorization" => Scripted

Progress ==
    /\ pc \in {"dial", "greeting", "tls", "packet", "login"} \cup Verifying => db.txn = "idle"
    /\ pc \in {"challenge", "saslFirst", "saslFinal", "password", "authok", "metadata"} =>
          /\ db.txn = "idle"
          /\ replies \in Welcoming => db.role = Superuser
    /\ pc \in {"postauth", "assume", "setddl"} => db.txn = "idle" /\ Before(pc)
    /\ pc = "ready" \/ (pc = "proxy" /\ oidc # None) =>
          db.txn = "idle" /\ Before("setddl") /\ (conf.sqlHandler => ddl)
    /\ pc \in {"statement", "results"} => Transacting
    /\ pc \in {"dial", "greeting", "tls", "packet"} => oidc = None

SInv == Steady /\ Progress

-----------------------------------------------------------------------------
(* What the client was told.                                               *)

Word == [op  : {"tls", "R", "S", "K", "Z", "E"},
         val : {"S", "N", "ok", "key", "I", Superuser, "08000", "28000"}]

Unstarted  == {"dial", "greeting", "tls", "halfasked"}
Unadmitted == {"packet", "login", "challenge", "saslFirst", "saslFinal", "password", "authok"}
              \cup Verifying

(* What can be said of the transcript as a whole.                          *)
Unfinished == \A i \in DOMAIN told : told[i].op \notin {"Z", "E"}
OnlyTLS    == Len(told) <= 1 /\ \A i \in DOMAIN told : told[i].op = "tls"
Admitted   == \E i \in DOMAIN told : told[i] = AuthOK
ToldS      == \E i \in DOMAIN told : told[i] = M("tls", "S")
EndsIn(op) == told # <<>> /\ told[Len(told)].op = op

Transcript ==
    /\ told \in Seq(Word) /\ ServerLikeTranscript
    /\ Len(told) <= IF pc \in Ended THEN 5 ELSE 4
    /\ pc = "closed" /\ ~ gone => EndsIn("E")
    /\ pc = "proxy" /\ oidc # None /\ ~ gone => told # <<>> /\ told[Len(told)] = Idle
    /\ pc \notin Ended => Unfinished
    /\ pc \in Unstarted => told = <<>> /\ legs.client = "plain"
    /\ pc \in Unadmitted => OnlyTLS
    /\ pc \in Acting \ Unadmitted /\ ~ gone => Admitted
    /\ pc = "metadata" => Len(told) + Len(replies) <= 5

(* The database's leg is as it was offered.                                *)
Matched == legs.db = "tls" <=> legs.offered = "S"

Encryption ==
    /\ ~ gone => (legs.client = "tls" <=> ToldS)
    /\ request # None /\ request.kind # "tls" => Matched
    /\ pc \in {"dial", "greeting"} => legs.offered = None /\ legs.db = "plain"
    /\ pc \in {"packet"} \cup Verifying \cup Acting => Matched

TInv == Transcript /\ Encryption

Types ==
    /\ pc \in Points
    /\ packet \in Packet \cup {None}
    /\ fresh \in BOOLEAN /\ ddl \in BOOLEAN /\ gone \in BOOLEAN
    /\ oidc = None \/ oidc \in [client : ClientID, azp : ClientID \cup {None}]
    /\ userinfo \in UserInfo \cup {None}
    /\ Len(plan.todo) <= 3

-----------------------------------------------------------------------------
(* Messages and sequences of them.                                         *)

(* A sequence with one more element in front.                              *)
LEMMA Prefixed ==
    ASSUME NEW S, NEW a \in S, NEW s \in Seq(S)
    PROVE  LET r == <<a>> \o s
           IN  r # <<>> /\ Head(r) = a /\ Tail(r) = s /\ Len(r) = 1 + Len(s) /\ <<>> \o r = r
  <1> DEFINE r == <<a>> \o s
  <1>1. r \in Seq(S) /\ Len(r) = 1 + Len(s) /\ r[1] = a /\ \A i \in 1 .. Len(s) : r[i + 1] = s[i]
    OBVIOUS
  <1> HIDE DEF r
  <1>2. /\ r # <<>> /\ Head(r) = a /\ <<>> \o r = r
        /\ Tail(r) \in Seq(S) /\ Len(Tail(r)) = Len(s)
        /\ \A i \in 1 .. Len(s) : Tail(r)[i] = s[i]
    BY <1>1
  <1>3. Tail(r) = s
    BY <1>2
  <1> QED
    BY <1>1, <1>2, <1>3 DEF r

(* What reading a message leaves.                                          *)
ReadsAs(s, first, rest) == s # <<>> /\ Head(s) = first /\ Tail(s) = rest

(* Which message is which.                                                 *)
LEMMA Wording ==
    /\ Error.op = "E" /\ AuthOK.op = "R" /\ AuthOK.val = "ok" /\ Idle.op = "Z"
    /\ \A val : M("R", val).op = "R" /\ M("R", val).val = val /\ M("S", val).op = "S"
    /\ M("K", "key").op = "K" /\ M("C", "complete").op = "C" /\ M("N", "notice").op = "N"
    /\ \A val : M("R", val) = AuthOK => val = "ok"
  BY DEF M, AuthOK, Idle, Error

(* Reading a tuple.                                                        *)
LEMMA Tuples ==
    ASSUME NEW a, NEW b, NEW c, NEW d
    PROVE  /\ ReadsAs(<<a>>, a, <<>>) /\ ReadsAs(<<a, b>>, a, <<b>>)
           /\ ReadsAs(<<a, b, c>>, a, <<b, c>>) /\ ReadsAs(<<a, b, c, d>>, a, <<b, c, d>>)
  BY DEF ReadsAs

(* Reading the short answers.                                              *)
LEMMA Reading1 ==
    /\ ReadsAs(Refusal, Error, <<>>) /\ ReadsAs(Rejection, AuthOK, Refusal)
    /\ ReadsAs(Welcome, AuthOK, Metadata) /\ ReadsAs(Metadata, M("S", Superuser), KeyData)
    /\ ReadsAs(KeyData, M("K", "key"), Ending) /\ ReadsAs(Ending, Idle, <<>>)
    /\ ReadsAs(Done, M("C", "complete"), Ending) /\ ReadsAs(Failure, Error, Ending)
    /\ \A m : ReadsAs(<<m>>, m, <<>>)
  BY Tuples DEF Refusal, Rejection, Welcome, Metadata, KeyData, Ending, Done, Failure

(* Reading the answers that have something in front of another.            *)
LEMMA Reading2 ==
    /\ ReadsAs(Signed(Welcome), M("R", "final"), Welcome)
    /\ ReadsAs(Signed(Rejection), M("R", "final"), Rejection)
    /\ ReadsAs(Noticed, M("N", "notice"), Done) /\ ReadsAs(Reported, M("S", Claimed), Done)
  <1> DEFINE S == {M("R", "final"), M("N", "notice"), M("S", Claimed), M("S", Superuser),
                   M("K", "key"), M("C", "complete"), AuthOK, Error, Idle}
  <1>1. Welcome \in Seq(S) /\ Rejection \in Seq(S) /\ Done \in Seq(S)
    BY DEF Welcome, Rejection, Done
  <1>2. M("R", "final") \in S /\ M("N", "notice") \in S /\ M("S", Claimed) \in S
    OBVIOUS
  <1> HIDE DEF S
  <1>3. \A a \in S, s \in Seq(S) : ReadsAs(<<a>> \o s, a, s)
    BY Prefixed DEF ReadsAs
  <1> QED
    BY <1>1, <1>2, <1>3 DEF Signed, Noticed, Reported

(* An answer is what is there to read when nothing was.                    *)
CanAnswer(s) == <<>> \o s = s /\ Len(s) <= 5

(* Every answer, when there was nothing to read before it.                 *)
LEMMA FirstAnswer ==
    /\ \A s \in Verdicts \cup Proofs \cup {Noticed, Reported, Done, Failure} : CanAnswer(s)
    /\ \A m : CanAnswer(<<m>>) /\ Append(<<>>, m) = <<m>>
  <1> DEFINE S == {M("R", "final"), M("N", "notice"), M("S", Claimed), M("S", Superuser),
                   M("K", "key"), M("C", "complete"), AuthOK, Error, Idle}
  <1> DEFINE Fits(s) == s \in Seq(S) /\ Len(s) <= 4
  <1>1. \A s \in {Welcome, Rejection, Refusal, Done, Failure} : Fits(s)
    <2>1. ASSUME NEW a \in S, NEW b \in S, NEW c \in S, NEW d \in S
          PROVE  Fits(<<a>>) /\ Fits(<<a, b>>) /\ Fits(<<a, b, c, d>>)
      <3> HIDE DEF S
      <3> QED
        OBVIOUS
    <2>2. /\ AuthOK \in S /\ Error \in S /\ Idle \in S /\ M("S", Superuser) \in S
          /\ M("K", "key") \in S /\ M("C", "complete") \in S
      OBVIOUS
    <2> HIDE DEF S, Fits
    <2> QED
      BY <2>1, <2>2 DEF Welcome, Rejection, Done, Refusal, Failure
  <1>2. M("R", "final") \in S /\ M("N", "notice") \in S /\ M("S", Claimed) \in S
    OBVIOUS
  <1>3. \A m : CanAnswer(<<m>>) /\ Append(<<>>, m) = <<m>>
    BY DEF CanAnswer
  <1> HIDE DEF S
  <1>4. ASSUME NEW a \in S, NEW s \in Seq(S), Len(s) <= 4
        PROVE  CanAnswer(<<a>> \o s)
    BY <1>4, Prefixed DEF CanAnswer
  <1>5. \A s \in Seq(S) : Len(s) <= 4 => CanAnswer(s)
    BY DEF CanAnswer
  <1>6. \A s \in {Welcome, Rejection, Refusal, Done, Failure} : CanAnswer(s)
    BY <1>1, <1>5
  <1>7. /\ CanAnswer(Signed(Welcome)) /\ CanAnswer(Signed(Rejection))
        /\ CanAnswer(Noticed) /\ CanAnswer(Reported)
    BY <1>1, <1>2, <1>4 DEF Signed, Noticed, Reported
  <1> QED
    BY <1>3, <1>6, <1>7 DEF Verdicts, Proofs

(* What is left after AuthenticationOk is short.                           *)
LEMMA Short == \A s \in Remaining : Len(s) <= 3
  <1>1. ASSUME NEW a, NEW b, NEW c
        PROVE  Len(<<a>>) <= 3 /\ Len(<<a, b>>) <= 3 /\ Len(<<a, b, c>>) <= 3
    OBVIOUS
  <1>2. Len(Metadata) <= 3 /\ Len(KeyData) <= 3 /\ Len(Ending) <= 3 /\ Len(Refusal) <= 3
    BY <1>1 DEF Metadata, KeyData, Ending, Refusal
  <1> QED
    BY <1>2 DEF Remaining

-----------------------------------------------------------------------------
(* What is left of a transaction, statement by statement.                  *)
LEMMA Left ==
    ASSUME NEW next
    PROVE  /\ ReadsAs(NotBegun(next), "BEGIN", Begun(next))
           /\ ReadsAs(Begun(next), Body(next), ToEnd)
           /\ ReadsAs(ToEnd, "END", <<>>)
           /\ Begun(next) # ToEnd /\ NotBegun(next) # Begun(next) /\ NotBegun(next) # ToEnd
           /\ Body(next) \in {"script", "set session authorization"}
  <1>1. Body(next) \in {"script", "set session authorization"}
    BY DEF Body
  <1>2. /\ ReadsAs(NotBegun(next), "BEGIN", Begun(next))
        /\ ReadsAs(Begun(next), Body(next), ToEnd)
        /\ ReadsAs(ToEnd, "END", <<>>)
    BY Tuples DEF NotBegun, Begun, ToEnd, Transaction
  <1>3. \A a, b, c, d, e, f : <<a>> # <<b, c>> /\ <<a>> # <<d, e, f>> /\ <<b, c>> # <<d, e, f>>
    OBVIOUS
  <1> QED
    BY <1>1, <1>2, <1>3 DEF NotBegun, Begun, ToEnd, Transaction

JInv == IInv /\ Conversation /\ SInv

(* A handler that has failed converses with nobody.                        *)
LEMMA FailTalks == ASSUME Conversation, NEW code, Fail(code) PROVE Conversation'
  BY DEF Fail, handler, peers, Conversation, Quiet, QuietPoints, Verifying

(* Until the packet is read only TLS is talked about.                      *)
LEMMA OpeningTalks ==
    ASSUME JInv,
           \/ Dial \/ AskTLS \/ NegotiateTLS \/ TLSAnswerMissing \/ NoPacket
           \/ BadSize \/ MalformedPacket
    PROVE  Conversation'
  <1> USE DEF JInv, Conversation, Quiet, QuietPoints, Verifying, Asking, handler, peers, Goto
  <1>1. CASE Dial
    BY <1>1 DEF Dial
  <1>2. CASE AskTLS
    <2>1. [kind |-> "tls"] \in Request
      BY DEF Request
    <2> QED
      BY <1>2, <2>1, NoneAssumption, FailTalks DEF AskTLS, UpstreamWriteFails
  <1>3. CASE NegotiateTLS
    <2>1. pc = "tls" /\ replies # <<>>
      BY <1>3 DEF NegotiateTLS
    <2>2. request = None /\ replies = <<M("tls", legs.offered)>>
      BY <2>1
    <2>3. Tail(replies) = <<>>
      BY <2>2, Reading1 DEF ReadsAs
    <2>4. CASE /\ legs' \in Legs
               /\ Goto("packet") /\ replies' = Tail(replies) /\ UNCHANGED <<handler, peers, request>>
      BY <2>1, <2>2, <2>3, <2>4
    <2>5. ASSUME NEW client \in {"plain", "tls"}, NEW database \in {"plain", "tls"},
                 legs' = [legs EXCEPT !.client = client, !.db = database]
          PROVE  legs' \in Legs
      BY <2>5 DEF Legs
    <2> QED
      BY <1>3, <2>4, <2>5, FailTalks DEF NegotiateTLS, WriteFails
  <1>4. CASE TLSAnswerMissing \/ NoPacket \/ MalformedPacket
    BY <1>4, FailTalks DEF TLSAnswerMissing, NoPacket, MalformedPacket
  <1>5. CASE BadSize
    BY <1>5 DEF BadSize, AwaitingPacket
  <1> QED
    BY <1>1, <1>2, <1>3, <1>4, <1>5

(* Only a token-less client's packet goes to the database.                 *)
LEMMA PacketTalks ==
    ASSUME JInv, NEW p \in Packet, PassThrough(p) \/ RefuseTokens(p) \/ AcceptTokens(p)
    PROVE  Conversation'
  <1> USE DEF JInv, Conversation, Quiet, QuietPoints, Verifying, peers, Goto
  <1>1. CASE PassThrough(p)
    <2>1. [kind |-> "startup", user |-> Own, database |-> p.database] \in Request
      BY DEF Request, Packet
    <2>2. oidc = None
      BY <1>1 DEF PassThrough, AwaitingPacket, SInv, Progress
    <2>3. CASE UpstreamWriteFails("28000")
      BY <2>3, FailTalks DEF UpstreamWriteFails
    <2> QED
      BY <1>1, <2>1, <2>2, <2>3 DEF PassThrough, AwaitingPacket
  <1>2. CASE RefuseTokens(p)
    BY <1>2, FailTalks DEF RefuseTokens
  <1>3. CASE AcceptTokens(p)
    BY <1>3 DEF AcceptTokens, AwaitingPacket
  <1> QED
    BY <1>1, <1>2, <1>3

(* The identity is verified without the database.                          *)
LEMMA VerificationTalks ==
    ASSUME JInv, CheckToken \/ RefreshAccessToken \/ GetUserInfo
    PROVE  Conversation'
  <1> USE DEF JInv, Conversation, Quiet, QuietPoints, Verifying, handler, peers, Goto
  <1>1. CASE CheckToken
    BY <1>1 DEF CheckToken
  <1>2. CASE RefreshAccessToken
    BY <1>2, FailTalks DEF RefreshAccessToken
  <1>3. CASE GetUserInfo
    BY <1>3, FailTalks DEF GetUserInfo
  <1> QED
    BY <1>1, <1>2, <1>3

(* One question at a time, through every exchange of a login.              *)
LEMMA LoginTalks ==
    ASSUME JInv, Login \/ Challenge \/ SASLContinue \/ SASLFinal \/ PasswordVerdict
    PROVE  Conversation'
  <1> USE DEF JInv, Quiet, QuietPoints, Verifying, handler, peers, Goto
  <1>1. CASE Login
    <2>1. packet \in Packet
      BY <1>1 DEF Login, IInv, OnBehalf, Vouched, Acting
    <2>2. [kind |-> "startup", user |-> Superuser, database |-> packet.database] \in Request
      BY <2>1 DEF Request, Packet
    <2> QED
      BY <1>1, <2>2, NoneAssumption DEF Login, Ask, Conversation, Asking
  <1>2. CASE Challenge
    <2>1. pc = "challenge" /\ replies # <<>> /\ request = None
      BY <1>2 DEF Challenge, Conversation, Asking
    <2>2. replies \in Verdicts \/ \E m \in Methods \ {"ok"} : m = db.method /\ replies = <<M("R", m)>>
      BY <2>1 DEF Conversation, Asking
    <2>3. CASE Reply = AuthOK /\ Read /\ Goto("authok") /\ UNCHANGED <<handler, peers, told, legs, request>>
      <3>1. Tail(replies) \in {Metadata, Refusal}
        BY SMTT(60), <2>2, <2>3, Reading1, Wording DEF Verdicts, ReadsAs, Reply
      <3>2. Len(Tail(replies)) <= 5
        BY <3>1, Short DEF Remaining
      <3> QED
        BY <2>1, <2>3, <3>1, <3>2 DEF Read, Conversation
    <2>4. CASE /\ Reply.op = "R" /\ Reply.val \in {"cleartext", "md5", "md5zero"}
               /\ Read
               /\ Ask([kind |-> "password", good |-> GoodAnswer(Reply.val)])
               /\ Goto("password")
               /\ UNCHANGED <<handler, peers, told, legs>>
      <3>3. PICK m \in Methods \ {"ok"} : m = db.method /\ replies = <<M("R", m)>>
        BY <2>2, <2>4, Reading1, Wording DEF Verdicts, ReadsAs, Reply
      <3>1. Tail(replies) = <<>> /\ db.method # "sasl"
        BY <3>3, <2>4, Reading1, Wording DEF ReadsAs, Reply
      <3>2. [kind |-> "password", good |-> GoodAnswer(Reply.val)] \in Request
        BY DEF Request, GoodAnswer
      <3> QED
        BY <2>1, <2>4, <3>1, <3>2, NoneAssumption DEF Read, Ask, Conversation, Asking
    <2>5. CASE /\ Reply = M("R", "sasl")
               /\ Read
               /\ Ask([kind |-> "saslInitial"])
               /\ Goto("saslFirst")
               /\ UNCHANGED <<handler, peers, told, legs>>
      <3>3. Head(replies).op = "R" /\ Head(replies).val = "sasl"
        BY <2>5, Wording DEF Reply
      <3>4. PICK m \in Methods \ {"ok"} : m = db.method /\ replies = <<M("R", m)>>
        BY <2>2, <3>3, Reading1, Wording DEF Verdicts, ReadsAs
      <3>1. Tail(replies) = <<>> /\ db.method = "sasl"
        BY <3>3, <3>4, Reading1, Wording DEF ReadsAs
      <3>2. [kind |-> "saslInitial"] \in Request
        BY DEF Request
      <3> QED
        BY <2>1, <2>5, <3>1, <3>2, NoneAssumption DEF Read, Ask, Conversation, Asking
    <2> QED
      BY <1>2, <2>3, <2>4, <2>5, FailTalks DEF Challenge
  <1>3. CASE SASLContinue
    <2>1. pc = "saslFirst" /\ replies # <<>> /\ request = None
      BY <1>3 DEF SASLContinue, Conversation, Asking
    <2>2. CASE /\ Reply = M("R", "continue")
               /\ Read
               /\ Ask([kind |-> "password", good |-> GoodAnswer("sasl")])
               /\ Goto("saslFinal")
               /\ UNCHANGED <<handler, peers, told, legs>>
      <3>1. Tail(replies) = <<>> /\ db.method = "sasl"
        BY <2>1, <2>2, Reading1 DEF Conversation, Asking, ReadsAs
      <3>2. [kind |-> "password", good |-> GoodAnswer("sasl")] \in Request
        BY DEF Request, GoodAnswer
      <3> QED
        BY <2>1, <2>2, <3>1, <3>2, NoneAssumption DEF Read, Ask, Conversation, Asking
    <2> QED
      BY <1>3, <2>2, FailTalks DEF SASLContinue
  <1>4. CASE SASLFinal
    <2>1. pc = "saslFinal" /\ replies # <<>> /\ request = None
      BY <1>4 DEF SASLFinal, Conversation, Asking
    <2>2. CASE /\ Reply = M("R", "final")
               /\ Read /\ Goto("password")
               /\ UNCHANGED <<handler, peers, told, legs, request>>
      <3>3. replies \in Proofs
        BY <2>1 DEF Conversation, Asking
      <3>4. Head(replies).op = "R"
        BY <2>2, Wording DEF Reply
      <3>1. Tail(replies) \in {Welcome, Rejection}
        BY <3>3, <3>4, Reading1, Reading2, Wording DEF Proofs, ReadsAs
      <3>2. Len(Tail(replies)) <= 5
        BY <3>1, FirstAnswer DEF Verdicts, CanAnswer
      <3> QED
        BY <2>1, <2>2, <3>1, <3>2 DEF Read, Conversation, Asking, Verdicts
    <2> QED
      BY <1>4, <2>2, FailTalks DEF SASLFinal
  <1>5. CASE PasswordVerdict
    <2>1. pc = "password" /\ replies # <<>> /\ request = None
      BY <1>5 DEF PasswordVerdict, Conversation, Asking
    <2>2. CASE /\ Reply = AuthOK
               /\ Read /\ Goto("authok")
               /\ UNCHANGED <<handler, peers, told, legs, request>>
      <3>1. Tail(replies) \in {Metadata, Refusal}
        BY ZenonT(60), <2>1, <2>2, Reading1, Wording DEF Conversation, Asking, Verdicts, ReadsAs, Reply
      <3>2. Len(Tail(replies)) <= 5
        BY <3>1, Short DEF Remaining
      <3> QED
        BY <2>1, <2>2, <3>1, <3>2 DEF Read, Conversation
    <2> QED
      BY <1>5, <2>2, FailTalks DEF PasswordVerdict
  <1> QED
    BY <1>1, <1>2, <1>3, <1>4, <1>5

(* What reading on finds.                                                  *)
LEMMA ReadingOn ==
    /\ \A s \in Remaining : /\ Head(s).op = "E" <=> s = Refusal
                            /\ Head(s).op = "Z" => s = Ending
                            /\ Head(s).op \notin {"E", "Z"} =>
                                  s \in {Metadata, KeyData} /\ Tail(s) \in {KeyData, Ending}
    /\ \A s \in Successes \cup {Failure} :
          /\ Head(s).op = "E" <=> s = Failure
          /\ Head(s).op = "Z" => s = Ending
          /\ Head(s).op \notin {"E", "Z"} => Tail(s) \in {Done, Ending} /\ s # Failure
    /\ Tail(Ending) = <<>>
    /\ Failure \notin Successes /\ Refusal \notin {Metadata, KeyData, Ending}
  <1>1. /\ Head(Refusal).op = "E" /\ Head(Failure).op = "E" /\ Head(Ending).op = "Z"
        /\ Head(Metadata).op = "S" /\ Tail(Metadata) = KeyData
        /\ Head(KeyData).op = "K" /\ Tail(KeyData) = Ending /\ Tail(Ending) = <<>>
        /\ Head(Noticed).op = "N" /\ Tail(Noticed) = Done
        /\ Head(Reported).op = "S" /\ Tail(Reported) = Done
        /\ Head(Done).op = "C" /\ Tail(Done) = Ending
    BY SMTT(60), Reading1, Reading2, Wording DEF ReadsAs
  <1>2. ASSUME NEW s \in Remaining
        PROVE  /\ Head(s).op = "E" <=> s = Refusal
               /\ Head(s).op = "Z" => s = Ending
               /\ Head(s).op \notin {"E", "Z"} =>
                     s \in {Metadata, KeyData} /\ Tail(s) \in {KeyData, Ending}
    BY <1>1 DEF Remaining
  <1>3. ASSUME NEW s \in Successes \cup {Failure}
        PROVE  /\ Head(s).op = "E" <=> s = Failure
               /\ Head(s).op = "Z" => s = Ending
               /\ Head(s).op \notin {"E", "Z"} => Tail(s) \in {Done, Ending} /\ s # Failure
    BY <1>1 DEF Successes
  <1>4. Failure \notin Successes /\ Refusal \notin {Metadata, KeyData, Ending}
    BY <1>1 DEF Successes
  <1> QED
    BY <1>1, <1>2, <1>3, <1>4

(* A statement is a question.                                              *)
LEMMA SendStatementTalks == ASSUME JInv, SendStatement PROVE Conversation'
  <1>1. pc = "statement" /\ plan.todo # <<>> /\ Within(plan.todo, plan.next)
    BY DEF SendStatement, JInv, SInv, Progress, Transacting
  <1>2. Head(plan.todo) \in Statements
    BY <1>1, Left DEF Within, ReadsAs, Statements
  <1>3. [kind |-> "query", statement |-> Head(plan.todo)] \in Request
    BY <1>2 DEF Request
  <1> QED
    BY <1>1, <1>3, NoneAssumption
    DEF SendStatement, JInv, Conversation, Asking, Quiet, QuietPoints, Verifying, Ask, Goto, peers

(* After the login: what is read is an answer to what was asked.           *)
LEMMA PreparationTalks ==
    ASSUME JInv,
           \/ SendAuthOK \/ RelayMetadata \/ ReadFails \/ SendStatement \/ ReadResults
           \/ PostAuth \/ AssumeUserSession \/ SetDDL \/ SendReady
    PROVE  Conversation'
  <1> USE DEF JInv, Quiet, QuietPoints, Verifying, handler, peers, Goto
  <1>1. CASE SendAuthOK
    BY <1>1, FailTalks DEF SendAuthOK, WriteFails, Conversation, Remaining
  <1>2. CASE SendReady
    BY <1>2, FailTalks DEF SendReady, WriteFails, Conversation
  <1>3. CASE RelayMetadata
    <2>1. pc = "metadata" /\ request = None /\ replies \in Remaining
      BY <1>3 DEF RelayMetadata, ReadUntilReady, Conversation
    <2>2. CASE /\ Reply.op = "Z"
               /\ Read /\ Goto("postauth")
               /\ UNCHANGED <<handler, peers, told, legs, request>>
      <3>1. Tail(replies) = <<>>
        BY <2>1, <2>2, ReadingOn DEF Reply
      <3> QED
        BY <2>1, <2>2, <3>1 DEF Read, Conversation
    <2>3. CASE /\ Reply.op \notin {"E", "Z"}
               /\ Read
               /\ UNCHANGED <<conf, pc, handler, peers, legs, request>>
      <3>1. Tail(replies) \in Remaining
        BY <2>1, <2>3, ReadingOn DEF Reply, Remaining
      <3>2. Len(Tail(replies)) <= 5
        BY <2>1, <2>3, ReadingOn, FirstAnswer, Short DEF Reply, Remaining, CanAnswer
      <3> QED
        BY <2>1, <2>3, <3>1, <3>2 DEF Read, Conversation
    <2> QED
      BY <1>3, <2>2, <2>3, FailTalks DEF RelayMetadata, ReadUntilReady, WriteFails
  <1>4. CASE ReadResults
    <2>1. /\ pc = "results" /\ request = None /\ replies \in Successes \cup {Failure}
          /\ plan.next \in {"assume", "setddl"}
      BY <1>4 DEF ReadResults, ReadUntilReady, Conversation, Asking, SInv, Progress, Transacting
    <2> DEFINE next == IF plan.todo = <<>> THEN plan.next ELSE "statement"
    <2>2. next \in {"assume", "setddl", "statement"}
      BY <2>1
    <2>3. CASE /\ Reply.op = "Z"
               /\ Read /\ Goto(next)
               /\ UNCHANGED <<handler, peers, told, legs, request>>
      <3>1. Tail(replies) = <<>>
        BY <2>1, <2>3, ReadingOn DEF Reply
      <3> HIDE DEF next
      <3> QED
        BY <2>1, <2>2, <2>3, <3>1 DEF Read, Conversation
    <2>4. CASE /\ Reply.op \notin {"E", "Z"}
               /\ Read
               /\ UNCHANGED <<conf, pc, handler, peers, legs, request>>
      <3>1. Tail(replies) \in {Done, Ending}
        BY <2>1, <2>4, ReadingOn DEF Reply
      <3>2. Len(Tail(replies)) <= 5
        BY <3>1, FirstAnswer, Short DEF CanAnswer, Remaining
      <3> QED
        BY <2>1, <2>4, <3>1, <3>2 DEF Read, Conversation, Asking, Successes
    <2> QED
      BY <1>4, <2>3, <2>4, FailTalks DEF ReadResults, ReadUntilReady
  <1>5. CASE ReadFails
    BY <1>5, FailTalks DEF ReadFails
  <1>6. CASE SendStatement
    BY <1>6, SendStatementTalks
  <1>7. CASE PostAuth
    BY <1>7, FailTalks DEF PostAuth, Skip, Execute, Conversation
  <1>8. CASE AssumeUserSession
    BY <1>8, FailTalks DEF AssumeUserSession, Skip, Execute, Conversation
  <1>9. CASE SetDDL
    BY <1>9, FailTalks DEF SetDDL, Skip, Conversation
  <1> QED
    BY <1>1, <1>2, <1>3, <1>4, <1>5, <1>6, <1>7, <1>8, <1>9

(* An answer of the kind the handler waits for, if it still waits.         *)
LEMMA ServeTalks ==
    ASSUME JInv, request # None, NEW answer, CanAnswer(answer), NEW session,
           Serve(answer, session), pc \notin {"tls", "authok", "metadata"},
           pc = "challenge" =>
              answer \in Verdicts \cup {<<M("R", m)>> : m \in (Methods \ {"ok"}) \cap {session.method}},
           pc = "saslFirst" => answer \in {<<M("R", "continue")>>, Refusal},
           pc = "saslFinal" => answer \in Proofs,
           pc = "password" => answer \in Verdicts,
           pc = "results" => answer \in Successes \cup {Failure},
           pc \in {"saslFirst", "saslFinal"} => session.method = "sasl"
    PROVE  Conversation'
  <1>1. replies' = answer /\ Len(replies') <= 5
    BY DEF Serve, JInv, Conversation, CanAnswer
  <1>2. request' = None /\ db' = session /\ UNCHANGED <<pc, oidc, legs>> /\ legs' \in Legs
    BY DEF Serve, handler, JInv, Conversation
  <1>3. pc \notin QuietPoints /\ ~ (pc = "proxy" /\ oidc # None)
    BY DEF JInv, Conversation, Quiet
  <1> QED
    BY <1>1, <1>2, <1>3 DEF Conversation, Asking, Quiet, QuietPoints, Verifying

(* The database answers what it was asked.                                 *)
LEMMA DatabaseTalks ==
    ASSUME JInv, DatabaseServes \/ DatabaseCloses
    PROVE  Conversation'
  <1> USE DEF JInv
  <1>1. ASSUME NEW answer \in {"S", "N", "other"}, OfferTLS(answer)
        PROVE  Conversation'
    <2>1. /\ request # None /\ request' = None /\ replies' = <<M("tls", answer)>>
          /\ legs'.offered = answer /\ legs' \in Legs
          /\ pc' = pc /\ oidc' = oidc /\ db' = db
      BY <1>1, FirstAnswer DEF OfferTLS, handler, peers, Conversation, CanAnswer, Legs
    <2>2. request.kind = "tls" /\ pc \notin Acting
      BY <1>1, <2>1 DEF OfferTLS, IInv, Silence, Requested
    <2>3. Len(replies') <= 5
      BY <2>1
    <2> QED
      BY <2>1, <2>2, <2>3 DEF Conversation, Asking, Quiet, QuietPoints, Verifying, Acting
  <1>2. CASE ServeStartup
    <2>1. request # None /\ request.kind = "startup"
      BY <1>2 DEF ServeStartup
    <2>2. pc \notin {"tls", "authok", "metadata", "saslFirst", "saslFinal", "password", "results"}
      BY <2>1 DEF Conversation, Asking
    <2>3. ASSUME NEW session, NEW answer \in Verdicts, Serve(answer, session)
          PROVE  Conversation'
      BY <2>1, <2>2, <2>3, FirstAnswer, ServeTalks
    <2>4. ASSUME NEW m \in Methods \ {"ok"},
                 Serve(<<M("R", m)>>, [db EXCEPT !.method = m, !.database = request.database])
          PROVE  Conversation'
      <3> DEFINE session == [db EXCEPT !.method = m, !.database = request.database]
      <3>1. session.method = m
        BY DEF IInv, Shapes, Session
      <3> HIDE DEF session
      <3> QED
        BY <2>1, <2>2, <2>4, <3>1, FirstAnswer, ServeTalks DEF session
    <2> QED
      BY <1>2, <2>3, <2>4 DEF ServeStartup, Verdicts, Rejection, Refusal
  <1>3. CASE ServeSASLInitial
    <2>1. request # None /\ request.kind = "saslInitial"
      BY <1>3 DEF ServeSASLInitial
    <2>2. pc \notin {"tls", "authok", "metadata", "challenge", "saslFinal", "password", "results"}
      BY <2>1 DEF Conversation, Asking
    <2>3. ASSUME NEW answer \in {<<M("R", "continue")>>, Refusal}, Serve(answer, db)
          PROVE  Conversation'
      <3>1. CanAnswer(answer)
        BY <2>3, FirstAnswer DEF Refusal
      <3> QED
        BY <2>1, <2>2, <2>3, <3>1, ServeTalks DEF Conversation
    <2> QED
      BY <1>3, <2>3 DEF ServeSASLInitial, Refusal
  <1>4. CASE ServePassword
    <2>1. request # None /\ request.kind = "password"
      BY <1>4 DEF ServePassword
    <2>2. pc \notin {"tls", "authok", "metadata", "challenge", "saslFirst", "results"}
      BY <2>1 DEF Conversation, Asking
    <2>3. db \in Session /\ (pc = "saslFinal" => db.method = "sasl") /\ (pc = "password" => db.method # "sasl")
      BY <2>1 DEF IInv, Shapes, Conversation
    <2>4. ASSUME NEW session, session.method = db.method, NEW answer,
                 answer \in IF db.method = "sasl" THEN Proofs ELSE Verdicts, Serve(answer, session)
          PROVE  Conversation'
      BY <2>1, <2>2, <2>3, <2>4, FirstAnswer, ServeTalks
    <2>5. CASE ~ request.good
      <3>1. [db EXCEPT !.refused = TRUE].method = db.method
        BY <2>3 DEF Session
      <3>2. Serve(Refusal, [db EXCEPT !.refused = TRUE])
        BY <1>4, <2>5 DEF ServePassword, Refusal
      <3> QED
        BY <2>4, <3>1, <3>2 DEF Proofs, Verdicts
    <2>6. CASE request.good
      <3>1. LogIn(db.database).method = db.method
        BY <2>3 DEF Session, LogIn
      <3>2. CASE db.method = "sasl"
        <4>1. Serve(Signed(Welcome), LogIn(db.database)) \/ Serve(Signed(Rejection), db)
          BY <1>4, <2>6, <3>2 DEF ServePassword, Signed, Rejection
        <4> QED
          BY <2>4, <3>1, <3>2, <4>1 DEF Proofs
      <3>3. CASE db.method # "sasl"
        <4>1. <<>> \o Welcome = Welcome /\ <<>> \o <<AuthOK, Error>> = Rejection
          BY FirstAnswer DEF CanAnswer, Verdicts, Rejection
        <4>2. Serve(Welcome, LogIn(db.database)) \/ Serve(Rejection, db)
          BY <1>4, <2>6, <3>3, <4>1 DEF ServePassword
        <4> QED
          BY <2>4, <3>1, <3>3, <4>2 DEF Verdicts
      <3> QED
        BY <3>2, <3>3
    <2> QED
      BY <2>5, <2>6
  <1>5. CASE ServeQuery
    <2>1. request # None /\ request.kind = "query"
      BY <1>5 DEF ServeQuery
    <2>2. pc \notin {"tls", "authok", "metadata", "challenge", "saslFirst", "saslFinal", "password"}
      BY <2>1 DEF Conversation, Asking
    <2>3. ASSUME NEW session, NEW answer \in {Noticed, Reported, Done, Failure}, Serve(answer, session)
          PROVE  Conversation'
      BY <2>1, <2>2, <2>3, FirstAnswer, ServeTalks DEF Successes
    <2>4. \E session, answer : answer \in {Noticed, Reported, Done, Failure} /\ Serve(answer, session)
      BY <1>5, Zenon DEF ServeQuery, Noticed, Reported, Failure
    <2> QED
      BY <2>3, <2>4
  <1>6. CASE DatabaseCloses
    <2>1. db'.method = db.method
      BY <1>6 DEF DatabaseCloses, IInv, Shapes, Session
    <2> QED
      BY <1>6, <2>1 DEF DatabaseCloses, handler, Conversation, Asking, Quiet
  <1> QED
    BY <1>1, <1>2, <1>3, <1>4, <1>5, <1>6 DEF DatabaseServes

(* Proxy and database never talk past each other.                          *)
LEMMA ConversationKept == ASSUME JInv, [Next]_vars PROVE Conversation'
  <1>1. CASE ClientLeaves \/ TokenExpires \/ Over \/ UNCHANGED vars
    BY <1>1 DEF ClientLeaves, TokenExpires, Over, vars, handler, JInv, Conversation, Asking, Quiet
  <1> QED
    BY <1>1, OpeningTalks, PacketTalks, VerificationTalks, LoginTalks, PreparationTalks, DatabaseTalks
    DEF Next, Handler, ClientSpeaks

-----------------------------------------------------------------------------
(* The session meets what is asked of it.                                  *)

(* Only what is left of a good answer is the rest of one.                  *)
LEMMA OnlyTheWelcomed ==
    /\ \A s \in Verdicts \cup Proofs \cup Remaining : Tail(s) \in Welcoming => s \in Welcoming
    /\ <<>> \notin Welcoming /\ Refusal \notin Welcoming
    /\ Rejection \notin Welcoming /\ Signed(Rejection) \notin Welcoming
    /\ \A m : <<M("R", m)>> \notin Welcoming
  <1>1. /\ Head(Refusal).op = "E" /\ Tail(Refusal) = <<>>
        /\ Head(Rejection).op = "R" /\ Tail(Rejection) = Refusal
        /\ Head(Signed(Rejection)).op = "R" /\ Tail(Signed(Rejection)) = Rejection
        /\ Tail(Welcome) = Metadata /\ Tail(Signed(Welcome)) = Welcome
        /\ Head(Welcome).op = "R" /\ Head(Signed(Welcome)).op = "R"
        /\ Head(Metadata).op = "S" /\ Head(KeyData).op = "K" /\ Head(Ending).op = "Z"
        /\ \A m : Head(<<M("R", m)>>).op = "R" /\ Tail(<<M("R", m)>>) = <<>>
    BY SMTT(60), Reading1, Reading2, Wording DEF ReadsAs
  <1>2. <<>> \notin Welcoming
    BY Reading1, Reading2 DEF ReadsAs, Welcoming
  <1>3. Refusal \notin Welcoming
    BY <1>1 DEF Welcoming
  <1>4. Rejection \notin Welcoming
    BY <1>1 DEF Welcoming
  <1>5. Signed(Rejection) \notin Welcoming
    BY <1>1 DEF Welcoming
  <1>6. \A m : <<M("R", m)>> \notin Welcoming
    BY <1>1, <1>2 DEF Welcoming
  <1>7. ASSUME NEW s \in Verdicts \cup Proofs \cup Remaining, Tail(s) \in Welcoming PROVE s \in Welcoming
    BY <1>1, <1>2, <1>3, <1>4, <1>7 DEF Verdicts, Proofs, Remaining, Welcoming
  <1> QED
    BY <1>2, <1>3, <1>4, <1>5, <1>6, <1>7

(* A step that neither touches the session nor sends it a statement.       *)
LEMMA SteadyOn ==
    ASSUME Steady, UNCHANGED <<conf, db>>, ~ Requested({"query"})' \/ UNCHANGED request
    PROVE  Steady'
  BY DEF Steady, Scripted, Requested

(* A handler that has failed leaves the session to itself.                 *)
LEMMA FailProgresses == ASSUME SInv, NEW code, Fail(code) PROVE SInv'
  BY SteadyOn DEF Fail, handler, peers, SInv, Progress, Verifying

(* Before the packet is read there is no session to speak of.              *)
LEMMA OpeningProgresses ==
    ASSUME JInv,
           \/ Dial \/ AskTLS \/ NegotiateTLS \/ TLSAnswerMissing \/ NoPacket
           \/ BadSize \/ MalformedPacket
    PROVE  SInv'
  <1> USE DEF JInv, SInv, Progress, Verifying, handler, peers, Goto
  <1>1. CASE Dial
    BY <1>1, SteadyOn DEF Dial
  <1>2. CASE AskTLS
    BY <1>2, SteadyOn, FailProgresses DEF AskTLS, UpstreamWriteFails, Requested
  <1>3. CASE NegotiateTLS
    <2>1. pc = "tls"
      BY <1>3 DEF NegotiateTLS
    <2>2. CASE Goto("packet") /\ UNCHANGED <<handler, peers, request>>
      BY <2>1, <2>2, SteadyOn
    <2> QED
      BY <1>3, <2>2, FailProgresses DEF NegotiateTLS, WriteFails
  <1>4. CASE TLSAnswerMissing \/ NoPacket \/ MalformedPacket
    BY <1>4, FailProgresses DEF TLSAnswerMissing, NoPacket, MalformedPacket
  <1>5. CASE BadSize
    BY <1>5, SteadyOn DEF BadSize, AwaitingPacket
  <1> QED
    BY <1>1, <1>2, <1>3, <1>4, <1>5

(* Nor when it is read.                                                    *)
LEMMA PacketProgresses ==
    ASSUME JInv, NEW p \in Packet, PassThrough(p) \/ RefuseTokens(p) \/ AcceptTokens(p)
    PROVE  SInv'
  <1> USE DEF JInv, SInv, Progress, Verifying, peers, Goto
  <1>1. CASE PassThrough(p)
    BY <1>1, SteadyOn, FailProgresses DEF PassThrough, UpstreamWriteFails, AwaitingPacket, Requested
  <1>2. CASE RefuseTokens(p)
    BY <1>2, FailProgresses DEF RefuseTokens
  <1>3. CASE AcceptTokens(p)
    BY <1>3, SteadyOn DEF AcceptTokens, AwaitingPacket
  <1> QED
    BY <1>1, <1>2, <1>3

(* Nor while the identity is verified.                                     *)
LEMMA VerificationProgresses ==
    ASSUME JInv, CheckToken \/ RefreshAccessToken \/ GetUserInfo
    PROVE  SInv'
  <1> USE DEF JInv, SInv, Progress, Verifying, handler, peers, Goto
  <1>1. CASE CheckToken
    BY <1>1, SteadyOn DEF CheckToken
  <1>2. CASE RefreshAccessToken
    BY <1>2, FailProgresses, SteadyOn DEF RefreshAccessToken
  <1>3. CASE GetUserInfo
    BY <1>3, FailProgresses, SteadyOn DEF GetUserInfo
  <1> QED
    BY <1>1, <1>2, <1>3

(* In the login an answer is only read; it was good if what is left is.    *)
LEMMA ReadingProgresses ==
    ASSUME JInv, pc \in {"challenge", "saslFirst", "saslFinal", "password", "authok", "metadata"},
           pc' \in {"challenge", "saslFirst", "saslFinal", "password", "authok", "metadata"},
           UNCHANGED <<conf, db>>, ~ Requested({"query"})' \/ UNCHANGED request,
           replies' \in Welcoming => replies \in Welcoming
    PROVE  SInv'
  BY SteadyOn DEF JInv, SInv, Progress, Verifying

(* The exchanges of a login.                                               *)
LEMMA LoginProgresses ==
    ASSUME JInv, Login \/ Challenge \/ SASLContinue \/ SASLFinal \/ PasswordVerdict
    PROVE  SInv'
  <1> USE DEF JInv, handler, peers, Goto
  <1>1. CASE Login
    <2>1. replies' = <<>>
      BY <1>1 DEF Login, Conversation, Quiet, QuietPoints
    <2> QED
      BY <1>1, <2>1, OnlyTheWelcomed, SteadyOn DEF Login, Ask, Requested, SInv, Progress, Verifying
  <1>2. CASE Challenge
    <2>1. pc = "challenge" /\ replies # <<>> /\ request = None
      BY <1>2 DEF Challenge, Conversation, Asking
    <2>2. \/ replies \in Verdicts
          \/ \E m : replies = <<M("R", m)>>
      BY <2>1 DEF Conversation, Asking
    <2>3. Tail(replies) \in Welcoming => replies \in Welcoming
      BY ZenonT(60), <2>2, OnlyTheWelcomed, Reading1 DEF ReadsAs
    <2>4. CASE /\ Read /\ UNCHANGED <<handler, peers, told, legs>>
               /\ Goto("authok") /\ UNCHANGED request
      BY <2>1, <2>3, <2>4, ReadingProgresses DEF Read
    <2>5. CASE /\ Read /\ UNCHANGED <<handler, peers, told, legs>>
               /\ Goto("password") /\ Ask([kind |-> "password", good |-> GoodAnswer(Reply.val)])
      BY <2>1, <2>3, <2>5, ReadingProgresses DEF Read, Ask, Requested
    <2>6. CASE /\ Read /\ UNCHANGED <<handler, peers, told, legs>>
               /\ Goto("saslFirst") /\ Ask([kind |-> "saslInitial"])
      BY <2>1, <2>3, <2>6, ReadingProgresses DEF Read, Ask, Requested
    <2> QED
      BY <1>2, <2>4, <2>5, <2>6, FailProgresses DEF Challenge
  <1>3. CASE SASLContinue
    <2>1. pc = "saslFirst" /\ replies # <<>> /\ request = None
      BY <1>3 DEF SASLContinue, Conversation, Asking
    <2>2. Tail(replies) = <<>>
      BY <2>1, Reading1 DEF Conversation, Asking, ReadsAs
    <2> QED
      BY <1>3, <2>1, <2>2, OnlyTheWelcomed, FailProgresses, ReadingProgresses
      DEF SASLContinue, Read, Ask, Requested
  <1>4. CASE SASLFinal
    <2>1. pc = "saslFinal" /\ replies \in Proofs
      BY <1>4 DEF SASLFinal, Conversation, Asking
    <2> QED
      BY <1>4, <2>1, OnlyTheWelcomed, FailProgresses, ReadingProgresses DEF SASLFinal, Read
  <1>5. CASE PasswordVerdict
    <2>1. pc = "password" /\ replies \in Verdicts
      BY <1>5 DEF PasswordVerdict, Conversation, Asking
    <2> QED
      BY <1>5, <2>1, OnlyTheWelcomed, FailProgresses, ReadingProgresses DEF PasswordVerdict, Read
  <1> QED
    BY <1>1, <1>2, <1>3, <1>4, <1>5

(* A transaction is planned for a session that has what comes before it.   *)
LEMMA ExecuteProgresses ==
    ASSUME JInv, pc \in {"postauth", "assume"}, NEW next \in {"assume", "setddl"},
           Execute(Body(next), next), db.role = Superuser,
           next = "setddl" => conf.assume /\ Scripted
    PROVE  SInv'
  <1>1. plan'.todo = NotBegun(next) /\ plan'.next = next /\ NotBegun(next) # <<>>
    BY Left DEF Execute, NotBegun, ReadsAs
  <1>2. pc' = "statement" /\ db.txn = "idle" /\ UNCHANGED <<conf, db, request>>
    BY DEF Execute, Goto, peers, JInv, SInv, Progress
  <1>3. Within(NotBegun(next), next)'
    BY <1>2, Left DEF Within, ReadsAs
  <1>4. Transacting'
    BY <1>1, <1>2, <1>3 DEF Transacting, Scripted
  <1>5. Steady'
    BY <1>2, SteadyOn DEF JInv, SInv
  <1> QED
    BY <1>2, <1>4, <1>5 DEF SInv, Progress, Verifying

(* The next statement goes to a session that is ready for it.              *)
LEMMA SendStatementProgresses == ASSUME JInv, SendStatement PROVE SInv'
  <1> DEFINE next == plan.next
  <1>1. pc = "statement" /\ plan.todo # <<>> /\ Within(plan.todo, next) /\ Transacting
    BY DEF SendStatement, JInv, SInv, Progress, Transacting
  <1> DEFINE statement == Head(plan.todo)
  <1>2. /\ pc' = "results" /\ request' = [kind |-> "query", statement |-> statement]
        /\ UNCHANGED <<conf, db>>
    BY DEF SendStatement, Ask, Goto, peers
  <1>3. plan'.todo = Tail(plan.todo) /\ plan'.next = next
    BY DEF SendStatement, JInv, IInv, Shapes
  <1>4. next \in {"assume", "setddl"} /\ (next = "setddl" => conf.assume /\ Scripted)
    BY <1>1 DEF Transacting
  <1>5. /\ Head(NotBegun(next)) = "BEGIN" /\ Tail(NotBegun(next)) = Begun(next)
        /\ Head(Begun(next)) = Body(next) /\ Tail(Begun(next)) = ToEnd
        /\ Head(ToEnd) = "END" /\ Tail(ToEnd) = <<>>
        /\ Begun(next) # ToEnd /\ Begun(next) # <<>> /\ ToEnd # <<>>
        /\ Body(next) \in {"script", "set session authorization"}
    BY Left DEF ReadsAs
  <1>6. \/ plan.todo = NotBegun(next) /\ statement = "BEGIN" /\ Tail(plan.todo) = Begun(next)
        \/ plan.todo = Begun(next) /\ statement = Body(next) /\ Tail(plan.todo) = ToEnd
        \/ plan.todo = ToEnd /\ statement = "END" /\ Tail(plan.todo) = <<>>
    BY <1>1, <1>5 DEF Within
  <1>7. request' # None /\ request'.statement = statement
    <2>1. statement \in Statements
      BY <1>5, <1>6 DEF Statements
    <2>2. [kind |-> "query", statement |-> statement] \in Request
      BY <2>1 DEF Request
    <2> QED
      BY <1>2, <2>2, NoneAssumption
  <1> HIDE DEF next, statement
  <1>8. Sent(plan.todo, plan.next)'
    <2>1. Body(next) = Body(plan.next)' /\ Begun(next) = Begun(plan.next)' /\ ToEnd' = ToEnd
      BY <1>3 DEF Body, Begun, ToEnd
    <2>2. (plan.next)' = next /\ (plan.todo)' = Tail(plan.todo) /\ (request.statement)' = statement
      BY <1>3, <1>7
    <2> QED
      BY <1>1, <1>2, <1>5, <1>6, <2>1, <2>2 DEF Sent, Within, Before, Scripted
  <1>9. Transacting'
    BY <1>2, <1>3, <1>4, <1>7, <1>8 DEF Transacting, Scripted
  <1>10. Steady'
    BY <1>1, <1>2, <1>4, <1>5, <1>6, <1>7 DEF JInv, SInv, Steady, Within, Scripted, Requested, Body
  <1> QED
    BY <1>2, <1>9, <1>10 DEF SInv, Progress, Verifying

(* After the login: what is next finds the session as it should be.        *)
LEMMA PreparationProgresses ==
    ASSUME JInv,
           \/ SendAuthOK \/ RelayMetadata \/ ReadFails \/ SendStatement \/ ReadResults
           \/ PostAuth \/ AssumeUserSession \/ SetDDL \/ SendReady
    PROVE  SInv'
  <1> USE DEF JInv, handler, peers, Goto
  <1>1. CASE SendAuthOK
    BY <1>1, FailProgresses, ReadingProgresses DEF SendAuthOK, WriteFails
  <1>2. CASE SendReady
    BY <1>2, FailProgresses, SteadyOn DEF SendReady, WriteFails, SInv, Progress, Before, Scripted, Verifying
  <1>3. CASE RelayMetadata
    <2>1. pc = "metadata" /\ request = None /\ replies \in Remaining
      BY <1>3 DEF RelayMetadata, ReadUntilReady, Conversation
    <2>2. CASE /\ Reply.op = "Z"
               /\ Read /\ Goto("postauth")
               /\ UNCHANGED <<handler, peers, told, legs, request>>
      <3>1. replies = Ending
        BY <2>1, <2>2, ReadingOn DEF Reply
      <3> QED
        BY <2>1, <2>2, <3>1, SteadyOn DEF Welcoming, SInv, Progress, Before, Verifying
    <2>3. CASE /\ Reply.op \notin {"E", "Z"}
               /\ Read
               /\ UNCHANGED <<conf, pc, handler, peers, legs, request>>
      BY <2>1, <2>3, OnlyTheWelcomed, ReadingProgresses DEF Read
    <2> QED
      BY <1>3, <2>2, <2>3, FailProgresses DEF RelayMetadata, ReadUntilReady, WriteFails
  <1>4. CASE ReadResults
    <2>1. /\ pc = "results" /\ request = None /\ replies \in Successes \cup {Failure}
          /\ Transacting
      BY <1>4 DEF ReadResults, ReadUntilReady, Conversation, Asking, SInv, Progress
    <2>2. CASE Reply.op = "Z" /\ UNCHANGED <<conf, oidc, plan, ddl, db, request>>
               /\ pc' = IF plan.todo = <<>> THEN plan.next ELSE "statement"
      <3>1. replies # Failure
        BY <2>1, <2>2, ReadingOn DEF Reply
      <3>2. Within(plan.todo, plan.next) /\ plan.next \in {"assume", "setddl"}
        BY <2>1, <3>1 DEF Transacting
      <3>3. Within(plan.todo, plan.next)'
        BY <2>2, <3>2 DEF Within, Before, Scripted
      <3>4. CASE plan.todo = <<>>
        <4>1. pc' \in {"assume", "setddl"} /\ db.txn = "idle" /\ Before(pc')
          BY <2>2, <3>2, <3>4 DEF Within
        <4>2. Before(pc)'
          BY <2>2, <4>1 DEF Before, Scripted
        <4> QED
          BY <2>2, <4>1, <4>2, SteadyOn DEF SInv, Progress, Verifying
      <3>5. CASE plan.todo # <<>>
        <4>1. Transacting'
          BY <2>1, <2>2, <3>3, <3>5 DEF Transacting, Scripted
        <4> QED
          BY <2>2, <3>5, <4>1, SteadyOn DEF SInv, Progress, Verifying
      <3> QED
        BY <3>4, <3>5
    <2>3. CASE /\ Reply.op \notin {"E", "Z"}
               /\ UNCHANGED <<conf, pc, oidc, plan, ddl, db, request>>
      <3>1. replies # Failure
        BY <2>1, <2>3, ReadingOn DEF Reply
      <3>2. Within(plan.todo, plan.next)
        BY <2>1, <3>1 DEF Transacting
      <3>3. Within(plan.todo, plan.next)'
        BY <2>3, <3>2 DEF Within, Before, Scripted
      <3>4. Transacting'
        BY <2>1, <2>3, <3>3 DEF Transacting, Scripted
      <3> QED
        BY <2>1, <2>3, <3>4, SteadyOn DEF SInv, Progress, Verifying
    <2> QED
      BY <1>4, <2>2, <2>3, FailProgresses DEF ReadResults, ReadUntilReady
  <1>5. CASE ReadFails
    BY <1>5, FailProgresses DEF ReadFails
  <1>6. CASE SendStatement
    BY <1>6, SendStatementProgresses
  <1>7. CASE PostAuth
    <2>1. pc = "postauth" /\ db.txn = "idle" /\ db.role = Superuser
      BY <1>7 DEF PostAuth, Skip, SInv, Progress, Before
    <2>2. CASE ~ conf.script /\ Skip("postauth", "assume")
      BY <2>1, <2>2, SteadyOn DEF Skip, SInv, Progress, Before, Scripted, Verifying
    <2>3. CASE Execute("script", "assume")
      BY <2>1, <2>3, ExecuteProgresses DEF Body
    <2> QED
      BY <1>7, <2>2, <2>3, FailProgresses DEF PostAuth
  <1>8. CASE AssumeUserSession
    <2>1. pc = "assume" /\ db.txn = "idle" /\ db.role = Superuser /\ Scripted
      BY <1>8 DEF AssumeUserSession, Skip, SInv, Progress, Before
    <2>2. CASE ~ conf.assume /\ Skip("assume", "setddl")
      BY <2>1, <2>2, SteadyOn DEF Skip, SInv, Progress, Before, Scripted, Verifying
    <2>3. CASE conf.assume /\ Execute("set session authorization", "setddl")
      BY <2>1, <2>3, ExecuteProgresses DEF Body
    <2> QED
      BY <1>8, <2>2, <2>3, FailProgresses DEF AssumeUserSession
  <1>9. CASE SetDDL
    BY <1>9, FailProgresses, SteadyOn DEF SetDDL, Skip, SInv, Progress, Before, Scripted, Verifying
  <1> QED
    BY <1>1, <1>2, <1>3, <1>4, <1>5, <1>6, <1>7, <1>8, <1>9

(* An answer that leaves the session as far as it was, or logs it in.      *)
LEMMA LoginServedProgresses ==
    ASSUME JInv, request # None, request.kind \in {"startup", "saslInitial", "password"},
           NEW answer, CanAnswer(answer), NEW session, Serve(answer, session),
           session.txn = db.txn, session.saved = db.saved, session.scriptAs = db.scriptAs,
           session.role = Superuser \/ (session.role = db.role /\ answer \notin Welcoming)
    PROVE  SInv'
  <1>1. /\ request' = None /\ replies' = answer /\ db' = session
        /\ UNCHANGED <<conf, pc, oidc, ddl>>
    BY DEF Serve, handler, JInv, Conversation, CanAnswer
  <1>2. /\ pc \notin QuietPoints \cup {"tls", "results", "authok", "metadata"}
        /\ pc = "proxy" => oidc = None
    BY DEF JInv, Conversation, Asking, Quiet
  <1>3. Superuser # Claimed
    BY DEF Superuser, Claimed
  <1>4. Steady'
    BY <1>1, <1>3 DEF JInv, SInv, Steady, Scripted, Requested
  <1>5. Progress'
    BY <1>1, <1>2 DEF JInv, SInv, Progress, QuietPoints, Verifying
  <1> QED
    BY <1>4, <1>5 DEF SInv

(* A statement served is one step of the transaction.                      *)
LEMMA ServeQueryProgresses == ASSUME JInv, ServeQuery PROVE SInv'
  <1> DEFINE next == plan.next
  <1>1. request # None /\ request.kind = "query" /\ db \in Session
    BY DEF ServeQuery, JInv, IInv, Shapes
  <1>2. /\ request' = None /\ pc \notin {"tls", "challenge", "saslFirst", "saslFinal", "password", "authok", "metadata"}
        /\ pc \notin QuietPoints /\ (pc = "proxy" => oidc = None)
        /\ UNCHANGED <<conf, pc, oidc, ddl, plan>>
    BY <1>1 DEF ServeQuery, Serve, handler, JInv, Conversation, Asking, Quiet
  <1>3. pc = "results" => Transacting /\ Sent(plan.todo, next)
    BY <1>1 DEF JInv, SInv, Progress, Transacting
  <1>4. /\ Begun(next) # ToEnd /\ Begun(next) # <<>> /\ ToEnd # <<>>
        /\ NotBegun(next) # ToEnd /\ NotBegun(next) # Begun(next) /\ NotBegun(next) # <<>>
        /\ Body(next) \in {"script", "set session authorization"}
        /\ Superuser # Claimed /\ None # Claimed
    BY Left, NoneAssumption DEF ReadsAs, Superuser, Claimed
  <1>5. /\ Begun(plan.next)' = Begun(next) /\ NotBegun(plan.next)' = NotBegun(next) /\ ToEnd' = ToEnd
        /\ (plan.next)' = next /\ (plan.todo)' = plan.todo
    BY <1>2
  <1>6. ASSUME Steady', Scripted => Scripted',
               pc = "results" /\ replies' # Failure => Within(plan.todo, plan.next)'
        PROVE  SInv'
    <2>1. pc = "results" => Transacting'
      BY <1>2, <1>3, <1>5, <1>6 DEF Transacting
    <2> QED
      BY <1>2, <1>6, <2>1 DEF SInv, Progress, QuietPoints, Verifying
  <1>7. CASE /\ request.statement = "BEGIN"
             /\ db' = [db EXCEPT !.txn = "open", !.saved = db.role]
    <2>1. /\ db'.txn = "open" /\ db'.saved = Superuser /\ db'.role = Superuser
          /\ db'.scriptAs = db.scriptAs
      BY <1>1, <1>7 DEF JInv, SInv, Steady, Requested, Session
    <2>2. pc = "results" => plan.todo = Begun(next)
      BY <1>3, <1>4, <1>7 DEF Sent
    <2>3. pc = "results" => Within(plan.todo, plan.next)'
      BY <1>4, <1>5, <2>1, <2>2 DEF Within
    <2> QED
      BY <1>2, <1>4, <1>6, <2>1, <2>3 DEF JInv, SInv, Steady, Scripted, Requested
  <1>8. CASE /\ request.statement = "script"
             /\ db' = [db EXCEPT !.scriptAs = db.role]
    <2>1. /\ db'.txn = db.txn /\ db'.saved = db.saved /\ db'.role = Superuser
          /\ db'.scriptAs = Superuser
      BY <1>1, <1>8 DEF JInv, SInv, Steady, Requested, Session
    <2>2. pc = "results" => plan.todo = ToEnd /\ next # "setddl" /\ db.txn = "open"
      BY <1>3, <1>4, <1>8 DEF Sent, Body
    <2>3. pc = "results" => Within(plan.todo, plan.next)'
      BY <1>2, <1>4, <1>5, <2>1, <2>2 DEF Within, Before, Scripted
    <2> QED
      BY <1>2, <1>4, <1>6, <2>1, <2>3 DEF JInv, SInv, Steady, Scripted, Requested
  <1>9. CASE /\ request.statement = "set session authorization"
             /\ db' = [db EXCEPT !.role = Claimed]
    <2>1. /\ db'.txn = db.txn /\ db'.saved = db.saved /\ db'.role = Claimed
          /\ db'.scriptAs = db.scriptAs
      BY <1>1, <1>9 DEF Session
    <2>2. Scripted
      BY <1>1, <1>9 DEF JInv, SInv, Steady, Requested
    <2>3. pc = "results" => plan.todo = ToEnd /\ next = "setddl" /\ db.txn = "open" /\ conf.assume
      BY <1>3, <1>4, <1>9 DEF Sent, Body, Transacting
    <2>4. pc = "results" => Within(plan.todo, plan.next)'
      BY <1>2, <1>4, <1>5, <2>1, <2>2, <2>3 DEF Within, Before, Scripted
    <2> QED
      BY <1>2, <1>4, <1>6, <2>1, <2>2, <2>4 DEF JInv, SInv, Steady, Scripted, Requested
  <1>10. CASE /\ request.statement = "END" /\ replies' # Failure
              /\ db' = [db EXCEPT !.txn = "idle",
                                  !.role = IF db.txn = "failed" THEN db.saved ELSE @]
    <2>1. /\ db'.txn = "idle" /\ db'.saved = db.saved /\ db'.scriptAs = db.scriptAs
          /\ db'.role = IF db.txn = "failed" THEN db.saved ELSE db.role
      BY <1>1, <1>10 DEF Session
    <2>2. pc = "results" => plan.todo = <<>> /\ db.txn = "open" /\ Before(next)
      BY <1>3, <1>4, <1>10 DEF Sent
    <2>3. pc = "results" => Within(plan.todo, plan.next)'
      BY <1>2, <1>4, <1>5, <2>1, <2>2 DEF Within, Before, Scripted
    <2> QED
      BY <1>2, <1>4, <1>6, <2>1, <2>3 DEF JInv, SInv, Steady, Scripted, Requested
  <1>11. CASE /\ replies' = Failure
              /\ \/ db' = [db EXCEPT !.txn = "failed"]
                 \/ db' = [db EXCEPT !.txn = "idle", !.role = db.saved]
    <2>1. /\ db'.saved = db.saved /\ db'.scriptAs = db.scriptAs
          /\ db'.role \in {db.role, db.saved}
      BY <1>1, <1>11 DEF Session
    <2> QED
      BY <1>2, <1>4, <1>6, <1>11, <2>1 DEF JInv, SInv, Steady, Scripted, Requested
  <1>12. ASSUME NEW answer \in {Done, Failure}, NEW session, Serve(answer, session)
         PROVE  db' = session /\ replies' = answer
    <2>1. <<>> \o answer = answer
      BY FirstAnswer DEF CanAnswer
    <2> QED
      BY <1>1, <1>12, <2>1 DEF Serve, JInv, Conversation
  <1>13. Done # Failure
    BY ReadingOn DEF Successes
  <1>14. /\ \/ request.statement = "BEGIN" /\ Serve(Done, [db EXCEPT !.txn = "open", !.saved = db.role])
            \/ request.statement = "script" /\ db' = [db EXCEPT !.scriptAs = db.role]
            \/ request.statement = "set session authorization" /\ db' = [db EXCEPT !.role = Claimed]
            \/ Serve(Failure, [db EXCEPT !.txn = "failed"])
            \/ /\ request.statement = "END"
               /\ Serve(Done, [db EXCEPT !.txn = "idle",
                                        !.role = IF db.txn = "failed" THEN db.saved ELSE @])
            \/ Serve(Failure, [db EXCEPT !.txn = "idle", !.role = db.saved])
    BY Zenon DEF ServeQuery, Serve, Failure
  <1> QED
    BY <1>7, <1>8, <1>9, <1>10, <1>11, <1>12, <1>13, <1>14

(* The database's steps.                                                   *)
LEMMA DatabaseProgresses ==
    ASSUME JInv, DatabaseServes \/ DatabaseCloses
    PROVE  SInv'
  <1> USE DEF JInv
  <1>0. db \in Session
    BY DEF IInv, Shapes
  <1>1. ASSUME NEW answer \in {"S", "N", "other"}, OfferTLS(answer)
        PROVE  SInv'
    <2>1. /\ replies' = <<M("tls", answer)>> /\ request' = None /\ request.kind = "tls"
          /\ UNCHANGED <<conf, pc, oidc, ddl, plan, db>> /\ pc \notin Acting
      BY <1>1, FirstAnswer DEF OfferTLS, handler, peers, Conversation, IInv, Silence, Requested
    <2>2. Steady'
      BY <2>1, SteadyOn DEF SInv, Requested
    <2> QED
      BY <2>1, <2>2 DEF SInv, Progress, Acting, Before, Scripted
  <1>2. CASE ServeStartup
    <2>1. request # None /\ request.kind = "startup"
      BY <1>2 DEF ServeStartup
    <2>2. /\ LogIn(request.database).role = Superuser
          /\ LogIn(request.database).txn = db.txn /\ LogIn(request.database).saved = db.saved
          /\ LogIn(request.database).scriptAs = db.scriptAs
      BY <1>0 DEF LogIn, Session
    <2>3. ASSUME NEW d, NEW m
          PROVE  \A session \in {[db EXCEPT !.database = d], [db EXCEPT !.method = m, !.database = d]} :
                    /\ session.role = db.role /\ session.txn = db.txn
                    /\ session.saved = db.saved /\ session.scriptAs = db.scriptAs
      BY <1>0 DEF Session
    <2>4. CASE Serve(Welcome, LogIn(request.database))
      BY <2>1, <2>2, <2>4, FirstAnswer, LoginServedProgresses DEF Verdicts
    <2>5. ASSUME NEW answer \in {Rejection, Refusal}, Serve(answer, [db EXCEPT !.database = request.database])
          PROVE  SInv'
      BY <2>1, <2>3, <2>5, FirstAnswer, OnlyTheWelcomed, LoginServedProgresses DEF Verdicts
    <2>6. ASSUME NEW m, Serve(<<M("R", m)>>, [db EXCEPT !.method = m, !.database = request.database])
          PROVE  SInv'
      BY <2>1, <2>3, <2>6, FirstAnswer, OnlyTheWelcomed, LoginServedProgresses
    <2> QED
      BY <1>2, <2>4, <2>5, <2>6 DEF ServeStartup, Rejection, Refusal
  <1>3. CASE ServeSASLInitial
    <2>1. request # None /\ request.kind = "saslInitial"
      BY <1>3 DEF ServeSASLInitial
    <2>2. ASSUME NEW answer \in {<<M("R", "continue")>>, Refusal}, Serve(answer, db)
          PROVE  SInv'
      <3>1. CanAnswer(answer) /\ answer \notin Welcoming
        BY FirstAnswer, OnlyTheWelcomed DEF Refusal
      <3> QED
        BY <2>1, <2>2, <3>1, LoginServedProgresses
    <2> QED
      BY <1>3, <2>2 DEF ServeSASLInitial, Refusal
  <1>4. CASE ServePassword
    <2>1. request # None /\ request.kind = "password"
      BY <1>4 DEF ServePassword
    <2>2. CASE ~ request.good
      <3> DEFINE session == [db EXCEPT !.refused = TRUE]
      <3>1. /\ session.role = db.role /\ session.txn = db.txn
            /\ session.saved = db.saved /\ session.scriptAs = db.scriptAs
        BY <1>0 DEF Session
      <3>2. Serve(Refusal, session)
        BY <1>4, <2>2 DEF ServePassword, Refusal
      <3> HIDE DEF session
      <3> QED
        BY <2>1, <3>1, <3>2, FirstAnswer, OnlyTheWelcomed, LoginServedProgresses DEF Verdicts
    <2>3. ASSUME NEW answer \in {Welcome, Signed(Welcome)}, Serve(answer, LogIn(db.database))
          PROVE  SInv'
      <3>1. /\ LogIn(db.database).role = Superuser /\ LogIn(db.database).txn = db.txn
            /\ LogIn(db.database).saved = db.saved /\ LogIn(db.database).scriptAs = db.scriptAs
        BY <1>0 DEF LogIn, Session
      <3> QED
        BY <2>1, <2>3, <3>1, FirstAnswer, LoginServedProgresses DEF Verdicts, Proofs
    <2>4. ASSUME NEW answer \in {Rejection, Signed(Rejection)}, Serve(answer, db)
          PROVE  SInv'
      BY <2>1, <2>4, FirstAnswer, OnlyTheWelcomed, LoginServedProgresses DEF Verdicts, Proofs
    <2>5. <<>> \o Welcome = Welcome /\ <<>> \o <<AuthOK, Error>> = Rejection
      BY FirstAnswer DEF CanAnswer, Verdicts, Rejection
    <2>6. CASE request.good
      BY <1>4, <2>3, <2>4, <2>5, <2>6 DEF ServePassword, Signed, Rejection
    <2> QED
      BY <2>2, <2>6
  <1>5. CASE ServeQuery
    BY <1>5, ServeQueryProgresses
  <1>6. CASE DatabaseCloses
    <2>1. /\ db'.txn = db.txn /\ db'.saved = db.saved /\ db'.role = db.role
          /\ db'.scriptAs = db.scriptAs
          /\ UNCHANGED <<conf, pc, oidc, ddl, plan, request, replies>>
      BY <1>0, <1>6 DEF DatabaseCloses, Session, handler
    <2>2. Steady'
      BY <2>1 DEF SInv, Steady, Scripted, Requested
    <2>3. Transacting => Transacting'
      BY <2>1 DEF Transacting, Within, Sent, Before, Scripted
    <2> QED
      BY <2>1, <2>2, <2>3 DEF SInv, Progress, Before, Scripted, Verifying
  <1> QED
    BY <1>1, <1>2, <1>3, <1>4, <1>5, <1>6 DEF DatabaseServes

(* The session is always as far as the plan says.                          *)
LEMMA ProgressKept == ASSUME JInv, [Next]_vars PROVE SInv'
  <1>1. CASE ClientLeaves \/ TokenExpires \/ Over \/ UNCHANGED vars
    <2>1. UNCHANGED <<conf, pc, oidc, ddl, plan, db, request, replies>>
      BY <1>1 DEF ClientLeaves, TokenExpires, Over, vars, handler
    <2>2. Transacting => Transacting'
      BY <2>1 DEF Transacting, Within, Sent, Before, Scripted
    <2> QED
      BY <2>1, <2>2, SteadyOn DEF JInv, SInv, Progress, Before, Scripted, Verifying
  <1> QED
    BY <1>1, OpeningProgresses, PacketProgresses, VerificationProgresses, LoginProgresses,
       PreparationProgresses, DatabaseProgresses
    DEF Next, Handler, ClientSpeaks

-----------------------------------------------------------------------------
(* The client's side of it.                                                *)

(* One more message.                                                       *)
LEMMA OneMore ==
    ASSUME told \in Seq(Word), ServerLikeTranscript, Unfinished,
           NEW m \in Word, told' = Append(told, m),
           m.op = "tls" => told = <<>>,
           m.op \in {"S", "K", "N", "Z"} => Admitted,
           m = AuthOK => OnlyTLS
    PROVE  /\ told' \in Seq(Word) /\ ServerLikeTranscript'
           /\ Len(told') = Len(told) + 1
           /\ m.op \notin {"Z", "E"} => Unfinished'
           /\ m.op = "tls" => OnlyTLS'
           /\ Admitted \/ m = AuthOK => Admitted'
           /\ ToldS' <=> ToldS \/ m = M("tls", "S")
           /\ EndsIn(m.op)' /\ told' # <<>> /\ told'[Len(told')] = m
  <1>1. /\ told' \in Seq(Word) /\ Len(told') = Len(told) + 1 /\ Len(told) \in Nat
        /\ DOMAIN told = 1 .. Len(told) /\ DOMAIN told' = 1 .. Len(told) + 1
        /\ \A i \in 1 .. Len(told) : told'[i] = told[i]
        /\ told'[Len(told) + 1] = m /\ told' # <<>>
    OBVIOUS
  <1> DEFINE n == Len(told)
  <1>2. told' \in Seq(Word) /\ Len(told') = n + 1 /\ EndsIn(m.op)' /\ told'[Len(told')] = m
    BY <1>1 DEF EndsIn
  <1>3. m.op \notin {"Z", "E"} => Unfinished'
    BY <1>1 DEF Unfinished
  <1>4. m.op = "tls" => OnlyTLS'
    BY <1>1 DEF OnlyTLS
  <1>5. Admitted \/ m = AuthOK => Admitted'
    BY <1>1 DEF Admitted
  <1>6. ToldS' <=> ToldS \/ m = M("tls", "S")
    BY <1>1 DEF ToldS
  <1>7. ASSUME NEW j \in DOMAIN told'
        PROVE  /\ told'[j].op = "tls" => j = 1
               /\ told'[j].op \in {"S", "K", "N", "Z"} => \E i \in 1 .. j - 1 : told'[i] = AuthOK
               /\ told'[j] = AuthOK => \A i \in 1 .. j - 1 : told'[i].op = "tls"
               /\ told'[j].op \in {"Z", "E"} => j = Len(told')
    <2>1. CASE j = n + 1
      <3>1. m.op = "tls" => j = 1
        BY <1>1, <2>1
      <3>2. m.op \in {"S", "K", "N", "Z"} => \E i \in 1 .. j - 1 : told'[i] = AuthOK
        BY <1>1, <2>1 DEF Admitted
      <3>3. m = AuthOK => \A i \in 1 .. j - 1 : told'[i].op = "tls"
        BY <1>1, <2>1 DEF OnlyTLS
      <3> QED
        BY <1>1, <2>1, <3>1, <3>2, <3>3
    <2>2. CASE j \in 1 .. n
      <3>1. told'[j] = told[j] /\ \A i \in 1 .. j - 1 : told'[i] = told[i]
        BY <1>1, <2>2
      <3>2. told[j].op \notin {"Z", "E"}
        BY <1>1, <2>2 DEF Unfinished
      <3>3. /\ told[j].op = "tls" => j = 1
            /\ told[j].op \in {"S", "K", "N", "Z"} => \E i \in 1 .. j - 1 : told[i] = AuthOK
            /\ told[j] = AuthOK => \A i \in 1 .. j - 1 : told[i].op = "tls"
        BY <1>1, <2>2 DEF ServerLikeTranscript
      <3> QED
        BY <3>1, <3>2, <3>3
    <2> QED
      BY <1>1, <2>1, <2>2
  <1> QED
    BY <1>1, <1>2, <1>3, <1>4, <1>5, <1>6, <1>7 DEF ServerLikeTranscript

(* No more messages.                                                       *)
LEMMA NoMore ==
    ASSUME UNCHANGED told
    PROVE  /\ (ServerLikeTranscript <=> ServerLikeTranscript')
           /\ (Unfinished <=> Unfinished') /\ (OnlyTLS <=> OnlyTLS')
           /\ (Admitted <=> Admitted') /\ (ToldS <=> ToldS')
           /\ (EndsIn("E") <=> EndsIn("E")')
  BY DEF ServerLikeTranscript, Unfinished, OnlyTLS, Admitted, ToldS, EndsIn

(* A failure is told, unless nobody is there to be told.                   *)
LEMMA FailIsTold ==
    ASSUME TInv, pc \notin Ended, NEW code \in {"08000", "28000"}, Fail(code)
    PROVE  TInv'
  <1>1. pc' = "closed" /\ UNCHANGED <<legs, request, gone>>
    BY DEF Fail, peers
  <1>2. CASE gone
    <2>1. told' = told
      BY <1>2 DEF Fail, Tell
    <2> QED
      BY <1>1, <1>2, <2>1, NoMore
      DEF TInv, Transcript, Encryption, Matched, Ended, Unstarted, Unadmitted, Acting, Verifying
  <1>3. CASE ~ gone
    <2> DEFINE m == M("E", code)
    <2>1. m \in Word /\ m.op = "E" /\ m # AuthOK /\ m # M("tls", "S")
      BY DEF Word, M, AuthOK
    <2>2. told' = Append(told, m)
      BY <1>3 DEF Fail, Tell
    <2> HIDE DEF m
    <2>3. /\ told' \in Seq(Word) /\ ServerLikeTranscript' /\ Len(told') = Len(told) + 1
          /\ EndsIn("E")' /\ (ToldS' <=> ToldS)
      BY <2>1, <2>2, OneMore DEF TInv, Transcript
    <2>4. Len(told) <= 4 /\ Len(told) \in Nat
      BY DEF TInv, Transcript
    <2> QED
      BY <1>1, <1>3, <2>3, <2>4
      DEF TInv, Transcript, Encryption, Matched, Ended, Unstarted, Unadmitted, Acting, Verifying
  <1> QED
    BY <1>2, <1>3

(* Steps that say nothing: where they may lead.                            *)
Later(from, to) ==
    /\ from \notin Ended
    /\ to \in {"crashed", "unreachable"} \cup Unstarted \cup Unadmitted \cup Acting
    /\ to \in Unstarted => from \in Unstarted
    /\ to \in Unadmitted => from \in Unadmitted \cup {"greeting"}
    /\ to \in Acting \ Unadmitted => from \in Acting \ Unadmitted
    /\ to = "metadata" => from = "metadata"
    /\ to \in {"dial", "greeting"} => from \in {"dial", "greeting"}

(* Where they lead, transcript and legs are as they should be.             *)
LEMMA NothingTold ==
    ASSUME TInv, Later(pc, pc') \/ UNCHANGED <<pc, oidc>>, UNCHANGED <<told, legs>>, gone => gone',
           request' \in {request, None} \/ pc \in Verifying \cup Acting
           \/ (request' # None /\ request'.kind = "tls"),
           pc' = "metadata" => UNCHANGED replies
    PROVE  TInv'
  <1>1. /\ told' \in Seq(Word) /\ Len(told) \in Nat
        /\ Len(told) <= IF pc \in Ended THEN 5 ELSE 4
    BY DEF TInv, Transcript
  <1>2. told = <<>> => OnlyTLS
    BY DEF OnlyTLS
  <1>3. Transcript'
    BY <1>1, <1>2, NoMore
    DEF TInv, Transcript, Later, Ended, Unstarted, Unadmitted, Acting, Verifying
  <1>4. pc = "greeting" => Matched
    BY NoneAssumption DEF TInv, Encryption, Matched
  <1>5. Encryption'
    BY <1>4, NoMore
    DEF TInv, Encryption, Matched, Later, Ended, Unstarted, Unadmitted, Acting, Verifying
  <1> QED
    BY <1>3, <1>5 DEF TInv

(* The TLS answer, which is the first message, and the failures before it. *)
LEMMA OpeningTold ==
    ASSUME JInv, TInv,
           \/ Dial \/ AskTLS \/ NegotiateTLS \/ TLSAnswerMissing \/ NoPacket
           \/ BadSize \/ MalformedPacket
    PROVE  TInv'
  <1> USE DEF handler, peers, Goto
  <1>1. CASE Dial
    BY <1>1, NothingTold DEF Dial, Later, Ended, Unstarted, Unadmitted, Acting, Verifying
  <1>2. CASE AskTLS
    <2>1. [kind |-> "tls"] \in Request
      BY DEF Request
    <2>2. CASE UpstreamWriteFails("08000")
      BY <1>2, <2>2, FailIsTold DEF AskTLS, UpstreamWriteFails, Ended
    <2> QED
      BY <1>2, <2>1, <2>2, NoneAssumption, NothingTold
      DEF AskTLS, Later, Ended, Unstarted, Unadmitted, Acting, Verifying
  <1>3. CASE NegotiateTLS
    <2> DEFINE answer == Head(replies).val
    <2>1. pc = "tls" /\ replies # <<>> /\ pc \notin Ended
      BY <1>3 DEF NegotiateTLS, Ended
    <2>2. answer = legs.offered /\ request = None /\ legs \in Legs
      BY <2>1, Reading1 DEF JInv, Conversation, Asking, ReadsAs, M
    <2>3. told = <<>> /\ told \in Seq(Word) /\ ServerLikeTranscript /\ Unfinished /\ ~ ToldS
      BY <2>1 DEF TInv, Transcript, Unstarted, Ended, ToldS
    <2> DEFINE word == IF WrapClient(answer) THEN "S" ELSE "N"
    <2>4. CASE /\ Tell(M("tls", word))
               /\ legs' = [legs EXCEPT !.client = IF WrapClient(answer) THEN "tls" ELSE "plain",
                                       !.db = IF WrapUpstream(answer) THEN "tls" ELSE "plain"]
               /\ Goto("packet") /\ UNCHANGED <<handler, peers, request>>
      <3>1. /\ legs'.client = (IF word = "S" THEN "tls" ELSE "plain")
            /\ legs'.offered = legs.offered
            /\ legs'.db = (IF legs'.offered = "S" THEN "tls" ELSE "plain")
        BY <2>2, <2>4 DEF Legs, WrapUpstream
      <3>2. Encryption' \/ ~ (~ gone => (word = "S" <=> ToldS'))
        BY <2>2, <2>4, <3>1 DEF Encryption, Matched
      <3>3. CASE gone
        <4>1. told' = told /\ OnlyTLS /\ Len(told) <= 4
          BY <2>3, <2>4, <3>3 DEF Tell, OnlyTLS
        <4> QED
          BY <2>3, <2>4, <3>2, <3>3, <4>1, NoMore
          DEF TInv, Transcript, Ended, Unstarted, Unadmitted, Acting, Verifying
      <3>4. CASE ~ gone
        <4> DEFINE m == M("tls", word)
        <4>1. /\ m \in Word /\ m.op = "tls" /\ m # AuthOK
              /\ (m = M("tls", "S") <=> word = "S") /\ word \in {"S", "N"}
          BY DEF Word, M, AuthOK
        <4>2. told' = Append(told, m)
          BY <2>4, <3>4 DEF Tell
        <4> HIDE DEF m, word
        <4>3. /\ told' \in Seq(Word) /\ ServerLikeTranscript' /\ Len(told') = Len(told) + 1
              /\ Unfinished' /\ OnlyTLS' /\ (ToldS' <=> word = "S")
          BY <2>3, <4>1, <4>2, OneMore
        <4>4. Len(told') <= 4
          BY <2>3, <4>3
        <4> QED
          BY <2>4, <3>2, <4>3, <4>4
          DEF TInv, Transcript, Ended, Unstarted, Unadmitted, Acting, Verifying
      <3> QED
        BY <3>3, <3>4
    <2> QED
      BY <1>3, <2>1, <2>4, FailIsTold DEF NegotiateTLS, WriteFails
  <1>4. CASE TLSAnswerMissing \/ NoPacket \/ MalformedPacket
    BY <1>4, FailIsTold DEF TLSAnswerMissing, NoPacket, MalformedPacket, AwaitingPacket, Ended
  <1>5. CASE BadSize
    BY <1>5, NothingTold DEF BadSize, AwaitingPacket, Later, Ended, Unstarted, Unadmitted, Acting, Verifying
  <1> QED
    BY <1>1, <1>2, <1>3, <1>4, <1>5

(* The packet is not answered, unless it is refused.                       *)
LEMMA PacketTold ==
    ASSUME JInv, TInv, NEW p \in Packet, PassThrough(p) \/ RefuseTokens(p) \/ AcceptTokens(p)
    PROVE  TInv'
  <1> USE DEF peers, Goto
  <1>1. CASE PassThrough(p) /\ UpstreamWriteFails("28000")
    BY <1>1, FailIsTold DEF PassThrough, UpstreamWriteFails, AwaitingPacket, Ended
  <1>2. CASE PassThrough(p) /\ ~ UpstreamWriteFails("28000")
    <2>1. pc \in {"greeting", "packet"} /\ pc' = "proxy" /\ UNCHANGED <<told, legs, gone, oidc>>
      BY <1>2 DEF PassThrough, AwaitingPacket
    <2>2. Matched /\ oidc = None
      BY <2>1, NoneAssumption DEF TInv, Encryption, Matched, JInv, SInv, Progress
    <2>3. told' \in Seq(Word) /\ Len(told') <= 5
      BY <2>1 DEF TInv, Transcript, Ended
    <2>4. Transcript'
      BY <2>1, <2>2, <2>3, NoMore
      DEF TInv, Transcript, Ended, Unstarted, Unadmitted, Acting, Verifying
    <2>5. Encryption'
      BY <2>1, <2>2, NoMore DEF TInv, Encryption, Matched, Acting, Verifying
    <2> QED
      BY <2>4, <2>5 DEF TInv
  <1>3. CASE RefuseTokens(p)
    BY <1>3, FailIsTold DEF RefuseTokens, AwaitingPacket, Ended
  <1>4. CASE AcceptTokens(p)
    BY <1>4, NothingTold
    DEF AcceptTokens, AwaitingPacket, Later, Ended, Unstarted, Unadmitted, Acting, Verifying
  <1> QED
    BY <1>1, <1>2, <1>3, <1>4

(* Nor is the verification of the identity.                                *)
LEMMA VerificationTold ==
    ASSUME TInv, CheckToken \/ RefreshAccessToken \/ GetUserInfo
    PROVE  TInv'
  <1> USE DEF handler, peers, Goto, Later, Ended, Unstarted, Unadmitted, Acting, Verifying
  <1>1. CASE CheckToken
    BY <1>1, NothingTold DEF CheckToken
  <1>2. CASE RefreshAccessToken
    BY <1>2, FailIsTold, NothingTold DEF RefreshAccessToken
  <1>3. CASE GetUserInfo
    BY <1>3, FailIsTold, NothingTold DEF GetUserInfo
  <1> QED
    BY <1>1, <1>2, <1>3

(* Nor are the exchanges of the login.                                     *)
LEMMA LoginTold ==
    ASSUME TInv, Login \/ Challenge \/ SASLContinue \/ SASLFinal \/ PasswordVerdict
    PROVE  TInv'
  <1> USE DEF handler, peers, Goto, Later, Ended, Unstarted, Unadmitted, Acting, Verifying, Read
  <1>1. CASE Login
    BY <1>1, NothingTold DEF Login
  <1>2. CASE Challenge
    <2>1. \/ Fail("28000")
          \/ pc = "challenge" /\ pc' \in {"authok", "password", "saslFirst"} /\ UNCHANGED <<told, legs, gone>>
      BY <1>2 DEF Challenge
    <2> QED
      BY <1>2, <2>1, FailIsTold, NothingTold DEF Challenge
  <1>3. CASE SASLContinue
    BY <1>3, FailIsTold, NothingTold DEF SASLContinue
  <1>4. CASE SASLFinal
    BY <1>4, FailIsTold, NothingTold DEF SASLFinal
  <1>5. CASE PasswordVerdict
    BY <1>5, FailIsTold, NothingTold DEF PasswordVerdict
  <1> QED
    BY <1>1, <1>2, <1>3, <1>4, <1>5

(* The metadata is passed on after AuthenticationOk.                       *)
LEMMA RelayMetadataTold == ASSUME JInv, TInv, RelayMetadata PROVE TInv'
  <1> USE DEF handler, peers, Goto, Ended, Unstarted, Unadmitted, Acting, Verifying
  <1>1. pc = "metadata" /\ replies \in Remaining
    BY DEF RelayMetadata, ReadUntilReady, JInv, Conversation
  <1>2. /\ told \in Seq(Word) /\ ServerLikeTranscript /\ Unfinished /\ (~ gone => Admitted)
        /\ Len(told) + Len(replies) <= 5 /\ Len(told) <= 4 /\ Len(told) \in Nat
    BY <1>1 DEF TInv, Transcript
  <1>3. CASE /\ Reply.op = "Z"
             /\ Read /\ Goto("postauth")
             /\ UNCHANGED <<handler, peers, told, legs, request>>
    BY <1>1, <1>3, NothingTold DEF Later
  <1>4. CASE /\ Reply.op \notin {"E", "Z"}
             /\ Read /\ Tell(Reply)
             /\ UNCHANGED <<conf, pc, handler, peers, legs, request>>
    <2>1. /\ Reply \in {M("S", Superuser), M("K", "key")}
          /\ Len(replies) \in Nat /\ Len(replies') \in Nat
          /\ Len(replies') + 1 = Len(replies) /\ Len(replies') >= 1
      <3>1. \/ replies = Metadata /\ Tail(replies) = KeyData /\ Head(replies) = M("S", Superuser)
            \/ replies = KeyData /\ Tail(replies) = Ending /\ Head(replies) = M("K", "key")
        BY <1>1, <1>4, ReadingOn, Reading1 DEF Reply, ReadsAs
      <3>2. Len(Metadata) = 3 /\ Len(KeyData) = 2 /\ Len(Ending) = 1
        <4>1. ASSUME NEW a, NEW b, NEW c PROVE Len(<<a, b, c>>) = 3 /\ Len(<<b, c>>) = 2 /\ Len(<<c>>) = 1
          OBVIOUS
        <4> QED
          BY <4>1 DEF Metadata, KeyData, Ending
      <3> QED
        BY <1>4, <3>1, <3>2 DEF Read, Reply
    <2>2. CASE gone
      <3>1. told' = told
        BY <1>4, <2>2 DEF Tell
      <3> QED
        BY <1>1, <1>2, <1>4, <2>1, <2>2, <3>1, NoMore DEF TInv, Transcript, Encryption, Matched
    <2>3. CASE ~ gone
      <3> DEFINE m == Reply
      <3>1. /\ m \in Word /\ m.op \in {"S", "K"} /\ m # AuthOK /\ m # M("tls", "S")
        BY <2>1 DEF Word, M, AuthOK
      <3>2. told' = Append(told, m)
        BY <1>4, <2>3 DEF Tell
      <3> HIDE DEF m
      <3>3. /\ told' \in Seq(Word) /\ ServerLikeTranscript' /\ Len(told') = Len(told) + 1
            /\ Unfinished' /\ Admitted' /\ (ToldS' <=> ToldS)
        BY <1>2, <2>3, <3>1, <3>2, OneMore
      <3>4. Len(told') + Len(replies') <= 5 /\ Len(told') <= 4
        BY <1>2, <2>1, <3>3
      <3> QED
        BY <1>1, <1>4, <2>3, <3>3, <3>4 DEF TInv, Transcript, Encryption, Matched
    <2> QED
      BY <2>2, <2>3
  <1> QED
    BY <1>1, <1>3, <1>4, FailIsTold DEF RelayMetadata, ReadUntilReady, WriteFails

(* AuthenticationOk follows nothing but the TLS answer.                    *)
LEMMA SendAuthOKTold == ASSUME JInv, TInv, SendAuthOK PROVE TInv'
  <1> USE DEF handler, peers, Goto, Ended, Unstarted, Unadmitted, Acting, Verifying
  <1>1. pc = "authok" /\ replies \in Remaining
    BY DEF SendAuthOK, JInv, Conversation, Remaining
  <1>2. told \in Seq(Word) /\ ServerLikeTranscript /\ Unfinished /\ OnlyTLS /\ Len(told) \in Nat
    BY <1>1 DEF TInv, Transcript
  <1>3. CASE Tell(AuthOK) /\ Goto("metadata") /\ UNCHANGED <<handler, peers, legs, request, replies>>
    <2>1. Len(replies) <= 3 /\ Len(replies) \in Nat
      <3>1. ASSUME NEW a, NEW b, NEW c
            PROVE  Len(<<a, b, c>>) \in Nat /\ Len(<<b, c>>) \in Nat /\ Len(<<c>>) \in Nat
        OBVIOUS
      <3> QED
        BY <1>1, <3>1, Short DEF Remaining, Metadata, KeyData, Ending, Refusal
    <2>2. CASE gone
      <3>1. told' = told
        BY <1>3, <2>2 DEF Tell
      <3>2. Len(told) <= 1
        BY <1>2 DEF OnlyTLS
      <3> QED
        BY <1>1, <1>2, <1>3, <2>1, <2>2, <3>1, <3>2, NoMore DEF TInv, Transcript, Encryption, Matched
    <2>3. CASE ~ gone
      <3>1. AuthOK \in Word /\ AuthOK.op = "R" /\ AuthOK # M("tls", "S")
        BY DEF Word, M, AuthOK
      <3>2. told' = Append(told, AuthOK)
        BY <1>3, <2>3 DEF Tell
      <3>3. /\ told' \in Seq(Word) /\ ServerLikeTranscript' /\ Len(told') = Len(told) + 1
            /\ Unfinished' /\ Admitted' /\ (ToldS' <=> ToldS)
        BY <1>2, <3>1, <3>2, OneMore
      <3>4. Len(told') <= 2
        BY <1>2, <3>3 DEF OnlyTLS
      <3> QED
        BY <1>1, <1>3, <2>1, <2>3, <3>3, <3>4 DEF TInv, Transcript, Encryption, Matched
    <2> QED
      BY <2>2, <2>3
  <1> QED
    BY <1>1, <1>3, FailIsTold DEF SendAuthOK, WriteFails

(* ReadyForQuery is the last message.                                      *)
LEMMA SendReadyTold == ASSUME JInv, TInv, SendReady PROVE TInv'
  <1> USE DEF handler, peers, Goto, Ended, Unstarted, Unadmitted, Acting, Verifying
  <1>1. pc = "ready"
    BY DEF SendReady
  <1>2. /\ told \in Seq(Word) /\ ServerLikeTranscript /\ Unfinished /\ (~ gone => Admitted)
        /\ Len(told) \in Nat /\ Len(told) <= 4
    BY <1>1 DEF TInv, Transcript
  <1>3. CASE Tell(Idle) /\ Goto("proxy") /\ UNCHANGED <<handler, peers, legs, request, replies>>
    <2>1. CASE gone
      <3>1. told' = told
        BY <1>3, <2>1 DEF Tell
      <3> QED
        BY <1>1, <1>2, <1>3, <2>1, <3>1, NoMore DEF TInv, Transcript, Encryption, Matched
    <2>2. CASE ~ gone
      <3>1. Idle \in Word /\ Idle.op = "Z" /\ Idle # M("tls", "S") /\ Idle # AuthOK
        BY DEF Word, M, Idle, AuthOK
      <3>2. told' = Append(told, Idle)
        BY <1>3, <2>2 DEF Tell
      <3>3. /\ told' \in Seq(Word) /\ ServerLikeTranscript' /\ Len(told') = Len(told) + 1
            /\ told' # <<>> /\ told'[Len(told')] = Idle /\ (ToldS' <=> ToldS)
        BY <1>2, <2>2, <3>1, <3>2, OneMore
      <3> QED
        BY <1>1, <1>2, <1>3, <2>2, <3>3 DEF TInv, Transcript, Encryption, Matched
    <2> QED
      BY <2>1, <2>2
  <1> QED
    BY <1>1, <1>3, FailIsTold DEF SendReady, WriteFails

(* The proxy's own statements are not the client's business.               *)
LEMMA PreparationTold ==
    ASSUME JInv, TInv,
           ReadFails \/ SendStatement \/ ReadResults \/ PostAuth \/ AssumeUserSession \/ SetDDL
    PROVE  TInv'
  <1> USE DEF handler, peers, Goto, Later, Ended, Unstarted, Unadmitted, Acting, Verifying
  <1>1. CASE ReadFails
    BY <1>1, FailIsTold DEF ReadFails, Reading
  <1>2. CASE SendStatement
    BY <1>2, NothingTold DEF SendStatement
  <1>3. CASE ReadResults
    <2>1. pc = "results" /\ plan.next \in {"assume", "setddl"}
      BY <1>3 DEF ReadResults, ReadUntilReady, JInv, SInv, Progress, Transacting
    <2>2. \/ Fail("28000")
          \/ /\ pc' \in {"results", "assume", "setddl", "statement"}
             /\ UNCHANGED <<told, gone, legs, request>>
      BY <1>3, <2>1 DEF ReadResults, ReadUntilReady
    <2>3. CASE Fail("28000")
      BY <2>1, <2>3, FailIsTold
    <2>4. CASE /\ pc' \in {"results", "assume", "setddl", "statement"}
               /\ UNCHANGED <<told, gone, legs, request>>
      BY <2>1, <2>4, NothingTold
    <2> QED
      BY <2>2, <2>3, <2>4
  <1>4. CASE PostAuth
    BY <1>4, FailIsTold, NothingTold DEF PostAuth, Skip, Execute
  <1>5. CASE AssumeUserSession
    <2>1. \/ pc = "assume" /\ Fail("28000")
          \/ pc = "assume" /\ pc' \in {"setddl", "statement"} /\ UNCHANGED <<told, gone, legs, request>>
      BY <1>5 DEF AssumeUserSession, Skip, Execute
    <2> QED
      BY <2>1, FailIsTold, NothingTold
  <1>6. CASE SetDDL
    BY <1>6, FailIsTold, NothingTold DEF SetDDL, Skip
  <1> QED
    BY <1>1, <1>2, <1>3, <1>4, <1>5, <1>6

(* The database and the client leaving.                                    *)
LEMMA PeersTold ==
    ASSUME JInv, TInv, DatabaseServes \/ DatabaseCloses \/ ClientLeaves \/ TokenExpires
    PROVE  TInv'
  <1>1. ASSUME NEW answer, NEW session, Serve(answer, session), request # None PROVE TInv'
    <2>1. pc # "metadata"
      BY <1>1 DEF JInv, Conversation
    <2> QED
      BY <1>1, <2>1, NothingTold DEF Serve, handler
  <1>2. ASSUME NEW answer, OfferTLS(answer) PROVE TInv'
    <2>1. /\ request # None /\ request' = None
          /\ pc \notin {"dial", "greeting", "packet"} \cup Verifying \cup Acting
      BY <1>2 DEF OfferTLS, JInv, IInv, Silence, Requested, Conversation, Quiet, QuietPoints
    <2>2. legs'.client = legs.client /\ legs'.db = legs.db
      BY <1>2 DEF OfferTLS, JInv, Conversation, Legs
    <2>3. UNCHANGED <<told, gone, pc, oidc>>
      BY <1>2 DEF OfferTLS, peers, handler
    <2> QED
      BY <2>1, <2>2, <2>3, NoMore DEF TInv, Transcript, Encryption, Acting
  <1>3. CASE ServeStartup
    BY <1>1, <1>3 DEF ServeStartup
  <1>4. CASE ServeSASLInitial
    BY <1>1, <1>4 DEF ServeSASLInitial
  <1>5. CASE ServePassword
    <2>1. request # None /\ \E answer, session : Serve(answer, session)
      BY <1>5, Zenon DEF ServePassword
    <2> QED
      BY <1>1, <2>1
  <1>6. CASE ServeQuery
    <2>1. request # None /\ \E answer, session : Serve(answer, session)
      BY <1>6, Zenon DEF ServeQuery
    <2> QED
      BY <1>1, <2>1
  <1>7. CASE DatabaseCloses \/ ClientLeaves \/ TokenExpires
    BY <1>7, NothingTold DEF DatabaseCloses, ClientLeaves, TokenExpires, handler
  <1> QED
    BY <1>2, <1>3, <1>4, <1>5, <1>6, <1>7 DEF DatabaseServes

(* The transcript is always a server's, the legs always as told.           *)
LEMMA ToldKept == ASSUME JInv, TInv, [Next]_vars PROVE TInv'
  <1>1. CASE Over \/ UNCHANGED vars
    BY <1>1, NothingTold DEF Over, vars, handler
  <1> QED
    BY <1>1, OpeningTold, PacketTold, VerificationTold, LoginTold, SendAuthOKTold, RelayMetadataTold,
       PreparationTold, SendReadyTold, PeersTold
    DEF Next, Handler, ClientSpeaks

-----------------------------------------------------------------------------
(* The rest of the types.                                                  *)
LEMMA TypesKept == ASSUME JInv, Types, [Next]_vars PROVE Types'
  <1> USE DEF Types, Goto, handler, peers, Points, Reading, Telling, Ended
  <1>1. ASSUME NEW code, Fail(code) PROVE Types'
    BY <1>1 DEF Fail
  <1>2. CASE Dial \/ AskTLS \/ TLSAnswerMissing \/ NoPacket \/ BadSize \/ MalformedPacket
    BY <1>1, <1>2 DEF Dial, AskTLS, UpstreamWriteFails, TLSAnswerMissing, NoPacket, BadSize, MalformedPacket
  <1>3. CASE NegotiateTLS
    BY <1>1, <1>3 DEF NegotiateTLS, WriteFails
  <1>4. ASSUME NEW p \in Packet, PassThrough(p) \/ RefuseTokens(p) PROVE Types'
    BY <1>1, <1>4 DEF PassThrough, UpstreamWriteFails, RefuseTokens
  <1>5. ASSUME NEW p \in Packet, AcceptTokens(p) PROVE Types'
    BY <1>5, ClientsAreKnown DEF AcceptTokens, Packet, JInv, IInv, Shapes
  <1>6. CASE CheckToken
    BY <1>6 DEF CheckToken
  <1>7. CASE RefreshAccessToken
    <2>1. pc = "refresh" /\ oidc \in [client : ClientID, azp : ClientID \cup {None}]
      BY <1>7 DEF RefreshAccessToken, JInv, IInv, Entitled, Verifying
    <2>2. ASSUME NEW azp \in {oidc.client, None}
          PROVE  [oidc EXCEPT !.azp = azp] \in [client : ClientID, azp : ClientID \cup {None}]
      BY <2>1
    <2> QED
      BY <1>1, <1>7, <2>1, <2>2 DEF RefreshAccessToken
  <1>8. CASE GetUserInfo
    <2>1. pc = "userinfo" /\ oidc \in [client : ClientID, azp : ClientID \cup {None}]
      BY <1>8 DEF GetUserInfo, JInv, IInv, Entitled, Verifying
    <2> QED
      BY <1>1, <1>8, <2>1 DEF GetUserInfo, UserInfo
  <1>9. CASE Login \/ SASLContinue \/ SASLFinal \/ PasswordVerdict \/ SendAuthOK \/ ReadFails \/ SendReady
    BY <1>1, <1>9
    DEF Login, SASLContinue, SASLFinal, PasswordVerdict, SendAuthOK, ReadFails, SendReady, WriteFails
  <1>10. CASE Challenge
    BY <1>1, <1>10 DEF Challenge
  <1>11. CASE RelayMetadata
    BY <1>1, <1>11 DEF RelayMetadata, ReadUntilReady, WriteFails
  <1>12. CASE ReadResults
    BY <1>1, <1>12 DEF ReadResults, ReadUntilReady, JInv, SInv, Progress, Transacting
  <1>13. ASSUME NEW statement, NEW next, Execute(statement, next) PROVE Types'
    <2>1. plan'.todo = Transaction(statement)
      BY <1>13 DEF Execute
    <2>2. Len(Transaction(statement)) <= 3
      BY DEF Transaction
    <2> QED
      BY <1>13, <2>1, <2>2 DEF Execute
  <1>14. CASE SendStatement
    <2>1. plan'.todo = Tail(plan.todo) /\ plan.todo \in {NotBegun(plan.next), Begun(plan.next), ToEnd}
      BY <1>14 DEF SendStatement, JInv, IInv, Shapes, SInv, Progress, Transacting, Within
    <2>2. Tail(plan.todo) \in {Begun(plan.next), ToEnd, <<>>}
      BY <2>1, Left DEF ReadsAs
    <2>3. Len(Begun(plan.next)) <= 3 /\ Len(ToEnd) <= 3
      BY DEF Begun, ToEnd
    <2>4. Len(plan'.todo) <= 3
      BY <2>1, <2>2, <2>3
    <2> QED
      BY <1>14, <2>4 DEF SendStatement
  <1>15. CASE PostAuth \/ AssumeUserSession \/ SetDDL
    BY <1>1, <1>13, <1>15 DEF PostAuth, AssumeUserSession, SetDDL, Skip
  <1>16. ASSUME NEW answer, NEW session, Serve(answer, session) PROVE Types'
    BY <1>16 DEF Serve
  <1>17. CASE ServeStartup \/ ServeSASLInitial
    BY <1>16, <1>17 DEF ServeStartup, ServeSASLInitial
  <1>18. CASE ServePassword \/ ServeQuery
    <2>1. \E answer, session : Serve(answer, session)
      BY <1>18, Zenon DEF ServePassword, ServeQuery
    <2> QED
      BY <1>16, <2>1
  <1>19. ASSUME NEW answer, OfferTLS(answer) PROVE Types'
    BY <1>19 DEF OfferTLS
  <1>20. CASE DatabaseCloses \/ ClientLeaves \/ TokenExpires
    BY ZenonT(60), <1>20 DEF DatabaseCloses, ClientLeaves, TokenExpires
  <1>21. CASE Over \/ UNCHANGED vars
    BY <1>21 DEF Over, vars
  <1> QED
    BY <1>2, <1>3, <1>4, <1>5, <1>6, <1>7, <1>8, <1>9, <1>10, <1>11, <1>12, <1>14, <1>15, <1>17,
       <1>18, <1>19, <1>20, <1>21 DEF Next, Handler, ClientSpeaks, DatabaseServes

-----------------------------------------------------------------------------
(* The whole of it, and that it holds at the beginning.                    *)
HandshakeInv == JInv /\ TInv /\ Types

(* Everything is empty at the beginning.                                   *)
LEMMA Beginning == Init => HandshakeInv
  <1> SUFFICES ASSUME Init PROVE HandshakeInv
    OBVIOUS
  <1>1. /\ conf \in Configs /\ pc = "dial" /\ request = None /\ replies = <<>> /\ told = <<>>
        /\ packet = None /\ oidc = None /\ userinfo = None
        /\ fresh \in BOOLEAN /\ ddl = FALSE /\ gone = FALSE
        /\ plan.todo = <<>> /\ legs.client = "plain" /\ legs.db = "plain" /\ legs.offered = None
        /\ db.role = None /\ db.saved = None /\ db.scriptAs = None /\ db.txn = "idle"
        /\ legs \in Legs
    BY DEF Init, Legs
  <1>2. None \notin {"S", Claimed, Superuser}
    BY NoneAssumption
  <1>3. Conversation
    BY <1>1 DEF Conversation, Quiet, Asking, QuietPoints
  <1>4. SInv
    BY <1>1, <1>2 DEF SInv, Steady, Progress, Requested, Verifying
  <1>5. TInv
    BY <1>1, <1>2
    DEF TInv, Transcript, Encryption, Matched, ToldS, ServerLikeTranscript, Unfinished, Ended,
        Unstarted, Unadmitted, Acting, Verifying
  <1>6. Types
    <2>1. Len(plan.todo) <= 3
      BY <1>1
    <2> QED
      BY <1>1, <2>1 DEF Types, Points
  <1> QED
    BY <1>3, <1>4, <1>5, <1>6, Initially DEF HandshakeInv, JInv

(* No step leaves it.                                                      *)
LEMMA Kept == HandshakeInv /\ [Next]_vars => HandshakeInv'
  BY Inductive, ConversationKept, ProgressKept, ToldKept, TypesKept DEF HandshakeInv, JInv

(* The four invariants hold together in every handshake (postgres.go 97 to *)
(* 119 and all it calls).                                                  *)
THEOREM Handshake == Spec => []HandshakeInv
  BY Beginning, Kept, PTL DEF Spec

(* Every variable keeps the type it was given, for any databases, clients  *)
(* and configurations: the transcript of a handshake is no longer than six *)
(* messages and never more than five are unread (postgres.go 97-119).      *)
THEOREM TypeCorrect == Spec => []TypeOK
  <1>1. HandshakeInv => TypeOK
    <2> SUFFICES ASSUME HandshakeInv PROVE TypeOK
      OBVIOUS
    <2>1. Types /\ Shapes /\ Conversation /\ Transcript
      BY DEF HandshakeInv, JInv, IInv, TInv
    <2>2. Len(told) <= 6
      BY <2>1 DEF Transcript
    <2> QED
      BY <2>1, <2>2 DEF TypeOK, Types, Shapes, Conversation, Legs
  <1> QED
    BY <1>1, Handshake, PTL

(* ReadyForQuery is said of a session that is as configured, in no         *)
(* transaction, with nothing unread (postgres.go 354-399, 717-768).        *)
THEOREM ReadySessionsArePrepared == Spec => []ReadyMeansPrepared
  <1>1. HandshakeInv => ReadyMeansPrepared
    BY DEF HandshakeInv, JInv, SInv, Progress, Conversation, Quiet, Before, Scripted, ReadyMeansPrepared
  <1> QED
    BY <1>1, Handshake, PTL

(* The script is run by the configured user, and before the role is taken  *)
(* (postgres.go 366-382), even if the handler is gone when it is served.   *)
THEOREM ScriptRunsFirst == Spec => []ScriptBeforeRole
  <1>1. HandshakeInv => ScriptBeforeRole
    BY DEF HandshakeInv, JInv, SInv, Steady, Scripted, ScriptBeforeRole
  <1> QED
    BY <1>1, Handshake, PTL

(* No statement, and no login, is sent while an answer is unread           *)
(* (readUntilReadyForQuery, postgres.go 641-661).                          *)
THEOREM StatementsAreInSync == Spec => []InSync
  <1>1. HandshakeInv => InSync
    BY DEF HandshakeInv, JInv, Conversation, Quiet, QuietPoints, InSync
  <1> QED
    BY <1>1, Handshake, PTL

(* Both legs are encrypted as their ends were led to believe (postgres.go  *)
(* 160-193).                                                               *)
THEOREM LegsAreAsAnswered == Spec => []LegsAsAnswered
  <1>1. HandshakeInv => LegsAsAnswered
    BY DEF HandshakeInv, TInv, Encryption, Matched, ToldS, LegsAsAnswered
  <1> QED
    BY <1>1, Handshake, PTL

(* The client is sent what a PostgreSQL server would send it, in order,    *)
(* however the handshake ends.                                             *)
THEOREM TranscriptIsServerLike == Spec => []ServerLikeTranscript
  <1>1. HandshakeInv => ServerLikeTranscript
    BY DEF HandshakeInv, TInv, Transcript
  <1> QED
    BY <1>1, Handshake, PTL

(* Nobody is hung up on without an error, nor served without a             *)
(* ReadyForQuery (postgres.go 107-117 and 393-399).                        *)
THEOREM RefusalsAreTold == Spec => []RefusalIsTold
  <1>1. HandshakeInv => RefusalIsTold
    <2>1. EndsIn("E") => told # <<>> /\ told[Len(told)].op = "E"
      BY DEF EndsIn
    <2> QED
      BY <2>1 DEF HandshakeInv, TInv, Transcript, RefusalIsTold
  <1> QED
    BY <1>1, Handshake, PTL

(* The configured user is logged in only to the database for which the     *)
(* provider vouched for the client (postgres.go 317-352).                  *)
THEOREM SuperuserIsVouchedFor == Spec => []VouchedForTheDatabase
  <1>1. IInv => VouchedForTheDatabase
    BY NoneAssumption DEF IInv, OnBehalf, Vouched, VouchedForTheDatabase
  <1> QED
    BY <1>1, Initially, Inductive, PTL DEF Spec
=============================================================================
