------------------------------- MODULE Service -------------------------------
(***************************************************************************)
(* The whole process: it reads its options, starts the API with its        *)
(* cleaner beside the TCP server (cmd/main.go), and serves connections and *)
(* requests side by side, each in a goroutine of its own.  They meet in    *)
(* the username registry, here the abstract one of LeaseRegistry, which    *)
(* ConnectionState is proved to implement; what a session does between two *)
(* of the steps below is in Authentication and ProxyLoop, what happens to  *)
(* a statement in SQLHandler and OPAFilter.                                *)
(*                                                                         *)
(* The process dies as a whole: of a panic in any goroutine outside        *)
(* net/http, or of log.Fatal.  Its registry and its sessions die with it.  *)
(***************************************************************************)
EXTENDS Naturals, FiniteSets, Configuration

CONSTANTS Username, TokenPair,  \* names handed out, pairs that can be posted
          NoTokens, Unused,     \* what a lookup finds instead; see LeaseRegistry
          Base,                 \* the base OIDC client, [id, secret]
          Conn, Request,        \* connections, and requests of /permissionapply
          Options,              \* the sets of options considered
          None,                 \* no value
          MaxLives              \* bound: how often the process is started

(* Two empty strings can be posted like any other pair.                    *)
ASSUME TokensAssumption == NoTokens \in TokenPair /\ Unused \notin TokenPair

ASSUME OptionsAssumption ==
    /\ Base \in Client /\ None \notin Client
    /\ \A o \in Options : o.ids \in Seq(Entry) /\ o.secrets \in Seq(Entry)
    /\ MaxLives \in Nat

VARIABLES
    options,  \* the operator's options; never change
    process,  \* "down", "up", or "rejected": the options are no good
    lives,    \* how often it was started
    clients,  \* conf.OIDCDatabaseClients
    lease,    \* the registry
    posted,   \* the tokens that were posted for each name, for the properties
    conn,     \* each connection
    request   \* each request

vars == <<options, process, lives, clients, lease, posted, conn, request>>

Registry == INSTANCE LeaseRegistry

(* What the goroutine behind a connection or a request knows: before it    *)
(* looked anything up, and after it is over, nothing.                      *)
Over(pc) == [pc |-> pc, name |-> None, database |-> None,
             tokens |-> None, client |-> None, status |-> <<>>]
Fresh    == Over("new")

Handled == {"passed", "refused", "open", "closed"}
Steps   == {"new", "queued", "lost", "started", "verify", "done"} \cup Handled

TypeOK ==
    /\ options \in Options /\ process \in {"down", "up", "rejected"}
    /\ lives \in 0 .. MaxLives
    /\ DOMAIN clients \subseteq Database /\ \A d \in DOMAIN clients : clients[d] \in Client
    /\ Registry!TypeOK
    /\ \A x \in {conn[c] : c \in Conn} \cup {request[q] : q \in Request} :
          /\ x.pc \in Steps /\ x.name \in Username \cup {None}
          /\ x.database \in Database \cup {None}
          /\ x.tokens \in (TokenPair \ {NoTokens}) \cup {None}
          /\ x.client \in Client \cup {None}

Init == /\ options \in Options
        /\ process = "down" /\ lives = 0 /\ clients = <<>>
        /\ Registry!Init
        /\ posted = [u \in Username |-> None]
        /\ conn = [c \in Conn |-> Fresh] /\ request = [q \in Request |-> Fresh]

-----------------------------------------------------------------------------
(* The process.                                                            *)

Start == /\ process = "down" /\ lives < MaxLives
         /\ lives' = lives + 1
         /\ \/ Accepted(options) /\ process' = "up" /\ clients' = DatabaseClients(options)
            \/ ~ Accepted(options) /\ process' = "rejected" /\ UNCHANGED clients
         /\ UNCHANGED <<options, lease, posted, conn, request>>

Close(x) == IF x.pc = "new" THEN x ELSE Over("closed")

Dies == /\ process = "up"
        /\ process' = "down"
        /\ clients' = <<>>
        /\ Registry!Withdraw({u \in Username : lease[u] # Unused})
        /\ conn' = [c \in Conn |-> Close(conn[c])]
        /\ request' = [q \in Request |-> Close(request[q])]
        /\ UNCHANGED <<options, lives, posted>>

(* api/server.go 14: time.NewTicker of a period that is not positive.      *)
CleanerPanics == options.period <= 0 /\ Dies

(* main.go 21, api/server.go 36-40: a port is taken, a certificate is none.*)
CannotListen == Dies

(* A session indexes the nil of a torn read (postgres.go 140, 267, 644,    *)
(* 849).                                                                   *)
SessionPanics == /\ \E c \in Conn : conn[c].pc \in {"started", "verify", "open", "passed"}
                 /\ Dies

-----------------------------------------------------------------------------
(* The registry's clients: POST /connection, and time.                     *)

PostConnection(u) ==
    /\ process = "up" /\ Registry!Grant(u)
    /\ posted' = [posted EXCEPT ![u] = lease'[u]]
    /\ UNCHANGED <<options, process, lives, clients, conn, request>>

Expire(u) ==
    /\ process = "up" /\ lease[u] # NoTokens /\ Registry!Withdraw({u})
    /\ UNCHANGED <<options, process, lives, clients, posted, conn, request>>

(* Mutant: the pair is not compared with two empty strings.                *)
Found_Any(u) == lease[u] # Unused

Found(u) == lease[u] \notin {NoTokens, Unused}

-----------------------------------------------------------------------------
(* Connections.                                                            *)

SetConn(c, x) == /\ conn' = [conn EXCEPT ![c] = x]
                 /\ UNCHANGED <<options, process, lives, clients, lease, posted, request>>

Connect(c) == process = "up" /\ conn[c].pc = "new" /\ SetConn(c, Over("queued"))

(* NewPermissionAgent, NewSQLHandler and GetHandler (handler.go 19-67).    *)
AgentMade == options.agent = "opa"
SQLHandlerMade == options.type = "postgres"
HandlerMade == /\ options.agent # "off" => AgentMade /\ SQLHandlerMade
               /\ options.type = "postgres"

(* Mutant: the handler runs in the loop that accepts.                      *)
Accept_Inline(c) ==
    /\ conn[c].pc = "queued"
    /\ \A o \in Conn : conn[o].pc \notin {"started", "verify", "open", "passed"}
    /\ SetConn(c, IF HandlerMade THEN [conn[c] EXCEPT !.pc = "started"] ELSE Over("lost"))

(* Server.Listen 31-52: a connection for which no handler can be made is   *)
(* neither served nor closed.                                              *)
Accept(c) ==
    /\ conn[c].pc = "queued"
    /\ SetConn(c, IF HandlerMade THEN [conn[c] EXCEPT !.pc = "started"] ELSE Over("lost"))

ClientFor(d) == IF d \in DOMAIN clients THEN clients[d]
                ELSE IF options.fallback THEN Base ELSE None

(* authenticate 284-330: the client's packet names a user and a database;  *)
(* then tokens, whether OIDC is on, the client.  A user name that brings   *)
(* its tokens along (287-301) has no use for the registry; it is in        *)
(* Authentication only.                                                    *)
Verifying(u, d, client) ==
    [pc |-> "verify", name |-> u, database |-> d,
     tokens |-> lease[u], client |-> client, status |-> <<>>]

NotLookedUp(c, u, d) ==
    /\ conn[c].pc = "started"
    /\ \/ ~ Found(u) /\ SetConn(c, Over("passed"))
       \/ /\ Found(u) /\ ~ (options.oidc /\ ClientFor(d) # None)
          /\ SetConn(c, Over("refused"))

(* Mutant: all connections share one handler, made before the loop.        *)
LookUp_Shared(c, u, d) ==
    /\ conn[c].pc = "started" /\ Found(u) /\ options.oidc /\ ClientFor(d) # None
    /\ conn' = [o \in Conn |->
                   IF o = c THEN Verifying(u, d, ClientFor(d))
                   ELSE IF conn[o].pc \in {"verify", "open"}
                        THEN [conn[o] EXCEPT !.tokens = lease[u]] ELSE conn[o]]
    /\ UNCHANGED <<options, process, lives, clients, lease, posted, request>>

LookUp(c, u, d) ==
    /\ conn[c].pc = "started" /\ Found(u) /\ options.oidc /\ ClientFor(d) # None
    /\ SetConn(c, Verifying(u, d, ClientFor(d)))

(* The rest of the handshake (332-400), module Authentication.             *)
Verify(c) == /\ conn[c].pc = "verify"
             /\ \/ SetConn(c, [conn[c] EXCEPT !.pc = "open"])
                \/ SetConn(c, Over("refused"))

(* The session ends, or the client gives up before.                        *)
Leave(c) == /\ conn[c].pc \in {"queued", "lost", "started", "verify", "open", "passed"}
            /\ SetConn(c, Over("closed"))

-----------------------------------------------------------------------------
(* POST /permissionapply (api/routes.go 42-150).                           *)

SetRequest(q, x) == /\ request' = [request EXCEPT ![q] = x]
                    /\ UNCHANGED <<options, process, lives, clients, lease, posted, conn>>

Answer(q, code) == SetRequest(q, [request[q] EXCEPT !.pc = "done", !.status = Append(@, code)])

Ask(q) == process = "up" /\ request[q].pc = "new" /\ SetRequest(q, Over("started"))

(* 46-86: no username or no SQL in the body; OIDC or the agent is off; no  *)
(* tokens.                                                                 *)
Unanswerable(q) ==
    /\ request[q].pc = "started"
    /\ \/ Answer(q, 400)
       \/ (~ options.oidc \/ options.agent = "off") /\ Answer(q, 424)
       \/ options.oidc /\ options.agent # "off" /\ Answer(q, 404)

(* Mutant: the fallback is forgotten.                                      *)
ChooseClient_NoFallback(d) == IF d \in DOMAIN clients THEN clients[d] ELSE None

(* 89-96 *)
ChooseClient(d) == CASE d \in DOMAIN clients -> clients[d]
                     [] d \notin DOMAIN clients /\ options.fallback -> Base
                     [] OTHER -> None

(* 97: the tokens were looked up, but there is no client for the database. *)
NoClient(u, d) == [pc |-> "done", name |-> u, database |-> d,
                   tokens |-> lease[u], client |-> None, status |-> <<404>>]

(* 81-98; README 143 forgets the database, which then is none.             *)
Consult(q, u, d) ==
    /\ request[q].pc = "started" /\ options.oidc /\ options.agent # "off"
    /\ Found(u)
    /\ SetRequest(q, IF ChooseClient(d) # None THEN Verifying(u, d, ChooseClient(d))
                     ELSE NoClient(u, d))

(* 99-113: no valid token, or no userinfo.                                 *)
NotVerified(q) == request[q].pc = "verify" /\ Answer(q, 401)

(* 116-150: the agent, the SQL handler, its three DDL questions and the    *)
(* statement, each of which may fail; see SQLHandler.                      *)

(* Mutant: no return after the 500 of a statement that is refused.         *)
Apply_FallsThrough(q) ==
    /\ request[q].pc = "verify"
    /\ \/ Answer(q, 500)
       \/ AgentMade /\ SQLHandlerMade /\ Answer(q, 200)
       \/ SetRequest(q, [request[q] EXCEPT !.pc = "done", !.status = <<500, 200>>])

Apply(q) == /\ request[q].pc = "verify"
            /\ \/ Answer(q, 500)
               \/ AgentMade /\ SQLHandlerMade /\ Answer(q, 200)

-----------------------------------------------------------------------------
LooksUp(c)  == \E u \in Username, d \in Database : LookUp(c, u, d) \/ NotLookedUp(c, u, d)
Consults(q) == \/ Unanswerable(q)
               \/ \E u \in Username, d \in Database \cup {None} : Consult(q, u, d)

Next ==
    \/ Start \/ CleanerPanics \/ CannotListen \/ SessionPanics
    \/ \E u \in Username : PostConnection(u) \/ Expire(u)
    \/ \E c \in Conn : Connect(c) \/ Accept(c) \/ Verify(c) \/ Leave(c) \/ LooksUp(c)
    \/ \E q \in Request : Ask(q) \/ Consults(q) \/ NotVerified(q) \/ Apply(q)

Spec == Init /\ [][Next]_vars

(* The loop that accepts goes on: nothing else runs in it.  (That what it  *)
(* starts ends is the liveness of Authentication and ProxyLoop.)           *)
Fairness == \A c \in Conn : WF_vars(Accept(c))

FairSpec == Spec /\ Fairness

-----------------------------------------------------------------------------
Goroutines == {conn[c] : c \in Conn} \cup {request[q] : q \in Request}

Entries(list, d) == {i \in DOMAIN list : list[i].kind = "pair" /\ list[i].database = d}

(* Tokens are checked and refreshed with the credentials that the options  *)
(* give for the database in two separate lists, in whatever order: the one *)
(* ID and the one secret listed for it, or the base client's if the        *)
(* database is not listed and falling back is allowed (config.go 85-125,   *)
(* postgres.go 317-330, routes.go 89-96).                                  *)
CredentialsOfTheDatabase ==
    \A x \in Goroutines : x.client # None =>
        LET ids     == Entries(options.ids, x.database)
            secrets == Entries(options.secrets, x.database)
        IN  \/ /\ \E i \in ids : ids = {i} /\ options.ids[i].value = x.client.id
               /\ IF secrets = {} THEN x.client.secret = NoSecret
                  ELSE \E i \in secrets : /\ secrets = {i}
                                          /\ options.secrets[i].value = x.client.secret
            \/ ids = {} /\ options.fallback /\ x.client = Base

(* Whatever other connections and requests do meanwhile, and however often *)
(* the process restarts: who is served by tokens is served by those that   *)
(* were posted for the name it gave, by a living process.                  *)
OwnIdentity ==
    \A x \in Goroutines :
        /\ x.tokens # None => x.tokens = posted[x.name]
        /\ x.pc \in {"verify", "open"} => process = "up" /\ x.client # None

(* /permissionapply speaks for the session it is asked about (README 143): *)
(* given the session's name and database, it decides with the session's    *)
(* tokens and client, and finds none only if the session finds none.       *)
RequestAgreesWithSession ==
    \A q \in Request, c \in Conn :
        LET x == request[q]
            y == conn[c]
        IN  /\ process = "up" /\ x.name = y.name /\ x.database = y.database
            /\ x.tokens # None /\ y.client # None /\ x.pc # "closed" /\ y.pc # "closed"
            => x.tokens = y.tokens /\ x.client = y.client

(* A request is answered once, and with 200 only if its name had tokens,   *)
(* its database a client, and the agent and the handler could be made.     *)
OneAnswer ==
    \A q \in Request :
        /\ Len(request[q].status) <= 1
        /\ request[q].status = <<200>> =>
              request[q].client # None /\ HandlerMade /\ options.agent = "opa"

(* Every connection gets a goroutine of its own, however long others stay  *)
(* and however many wait for their provider - unless it gives up or the    *)
(* process dies, and provided that the options name an agent and a         *)
(* database the factory knows (server.go 39).                              *)
EveryConnectionIsServed ==
    \A c \in Conn : conn[c].pc = "queued" /\ HandlerMade
                       ~> conn[c].pc \in {"started"} \cup Handled
=============================================================================
