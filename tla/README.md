# FOOD-Me: a TLA+ model

FOOD-Me is a proxy in front of PostgreSQL. A client logs in with OIDC tokens
instead of a password; the proxy verifies them, logs in to the database as a
configured user, optionally runs a script, assumes a role, or rewrites every
statement according to a permission agent (OPA), and then proxies messages
until one side leaves. The implementation is 2432 lines of Go in `cmd/`, `api/`
and `internal/`. Paths and line numbers below are relative to the repository;
in `PROJECT.json` they carry the prefix `src/`.

## 1. Inventory

| Component | Source | State | Operations | Module |
|---|---|---|---|---|
| Username registry | `internal/state.go` | map username → (tokens, expiry), one RWMutex; memory only | `AddConnection`, `GetTokens`, `GetExpiredUsernames`, `DeleteConnection` | `ConnectionState`, `LeaseRegistry` |
| Cleaner | `api/server.go` 12-26 | ticker, snapshot of expired names | sweep: list, then delete by name | `ConnectionState` |
| API `POST /connection` | `api/routes.go` 21-40 | none of its own | fresh UUID, store tokens | `ConnectionState` |
| API `POST /permissionapply` | `api/routes.go` 42-151 | none | lookup, client, OIDC, one SQL handler for one statement | `Service` (its checks), `SQLHandler` (what it decides) |
| Handshake | `internal/postgres.go` 93-117, 126-204, 264-793 | sockets, OIDC client, userinfo, database name | TLS negotiation, startup packet, OIDC, database login, metadata, script, role, DDL, ready | `Authentication` |
| Proxy loop | `internal/postgres.go` 119-123, 795-905 | two goroutines over two sockets | read, check and refresh the token, vet, forward or refuse; copy back | `ProxyLoop` |
| OIDC client | `internal/oidc.go` | access and refresh token | validity, refresh, userinfo | `Authentication`, `ProxyLoop` |
| SQL handler | `internal/postgres_sql_handler.go` | CTE names and a failure flag that live as long as the session | `SetDDL`, `Handle` | `SQLHandler` (statement after statement), `OPAFilter` (inside one SELECT) |
| Permission agent | `internal/opa.go` | three DDL booleans | DDL questions, SELECT question, compilation of the answer | `SQLHandler` (the answers), `OPACompile`, `OPAMeaning` |
| Process, TCP server, factory | `cmd/main.go`, `api/server.go`, `internal/server.go`, `internal/handler.go` | none | start, accept, one goroutine per connection, die | `Service` |
| Configuration, logging | `internal/config.go` | options | parse and validate | `Configuration`; logging is not modelled |

How they interact. A client POSTs its tokens to the API and gets a username;
its database session looks the username up in the registry (a shared map) when
it authenticates. Each session is a goroutine that talks to the client, the
database, the identity provider and the agent; after the handshake it splits in
two goroutines that share both sockets. The cleaner runs beside all of it.

What is hard here: a sweep that decides from a snapshot and deletes later; a
handshake that can fail at a dozen points with four peers that answer or
disappear on their own schedule, and that must keep the request/answer pairing
of the database's protocol; transactions of which one statement fails; tokens
of several OIDC clients, expiring and being revoked between two messages; two
goroutines writing to one socket; reads that may return fewer bytes than asked;
state of one statement that decides about the next; conditions that are
compiled table by table and plugged into a statement that is being walked; one
process whose death takes everybody with it.
`PROJECT.json` lists each of these hazards with its line and its properties.

What makes each component correct:

* registry: a name answers with exactly the tokens posted for it, for exactly
  its lifetime; entries are forgotten eventually;
* handshake: the superuser login happens only for somebody the provider vouched
  for with a token of the database's client; ready means that everything
  configured was done and stuck; requests and answers stay in step; a refusal is
  told; it ends;
* proxy loop: nothing is forwarded without a valid token; each message gets one
  answer, whole and in order; no goroutine stays behind;
* SQL handler: nothing is accepted without the agent's consent, as far as the
  visitor looks; a statement's fate depends on the policy and not on what was
  handled before;
* permission agent: a rewritten SELECT returns exactly the rows the policies
  permit; it names no table the database would not find; it is refused only for
  a reason; a value arrives in the statement as the value it is;
* process: everybody is served by his own tokens and the credentials of his
  database, and nobody waits for somebody else's session.

## 2. Modules

| Module | Models | Checked by |
|---|---|---|
| `LeaseRegistry` | abstract specification of the registry: grant once, withdraw for good | refined by `ConnectionState` |
| `ConnectionState` | registry, POST /connection, cleaner, clock, restart | `MCConnectionState` |
| `ConnectionState_proofs` | theorems about it | TLAPS |
| `Authentication` | one connection up to the proxy loop | `MCAuthentication` |
| `Authentication_proofs` | eight theorems about it | TLAPS |
| `ProxyLoop` | one session after its handshake | `MCProxyLoop` |
| `ProxyLoop_proofs` | four theorems about it | TLAPS |
| `SQLHandler` | the statement filter of one session and its agent | `MCSQLHandler` |
| `SQLHandler_proofs` | three theorems about it, one about its walk | TLAPS |
| `OPACompile` | how the agent's answer becomes a condition: pure operators | through `OPAFilter` |
| `OPACompile_proofs` | two theorems about it | TLAPS |
| `OPAFilter` | one SELECT on its way through the visitor, table by table | `MCOPAFilter` |
| `OPAMeaning` | what a statement and a policy mean on a database; the properties of `OPAFilter` | `MCOPAFilter` |
| `OPAMeaning_proofs` | six theorems about it, and so about `OPAFilter` and `OPACompile` | TLAPS |
| `Configuration` | from the options to the OIDC clients: pure operators | through `Service` |
| `Service` | the process: options, registry, connections and requests side by side; composes `LeaseRegistry` and `Configuration` | `MCService` |
| `Service_proofs` | five theorems about it, one about `Configuration` | TLAPS |
| `Recursion` | induction, recursive functions and `FlattenSeq`: lemmas for the proofs | TLAPS |

Each definition's comment names the lines it stands for. Definitions whose
comment begins with *Mutant* are deliberate bugs: they are not part of any
specification, and `PROJECT.json` pairs each with the property it breaks.

### ConnectionState

`Connections`, `now` and `cleaner` are the map, the clock in seconds and the
cleaner's place and snapshot; `tick` is the ticker's channel of capacity one.
`issued` and `posted` are history: names uuid ever returned, and what was
posted in this life of the process. A method of `State` holds the mutex for all
of its body and is one step; the sweep is one step per lock it takes, because
others may run in between. A restart empties everything but the clock and the
names already issued. `uuid.New` is assumed never to repeat a name.

### Authentication

`pc` is the place of the handler goroutine, which does one read, one write or
one HTTP call per step. `request` and `replies` are the two directions of the
database's socket: at most one unserved request, and a queue of whole messages.
`db` is the database's side: user, database, session user, transaction, and
whether it refused. `told` is everything the client was sent. `oidc.azp` is the
client the access token was issued for, `None` for the empty token. `plan` is
what `executeQuery` has left to send. The first statement that fails makes the
handler stop and hang up, as in the code. What a client sends may be torn: a
torn size ends the process (`BadSize`), a torn packet the connection, and of a torn
TLS request only the size reaches the database, so that handler and database
wait for one another until the database gives up (`halfasked`). The database answers anything that
fits its protocol, closes at any time, and treats a failed transaction as
PostgreSQL does: ending it restores the session user.

### ProxyLoop

`up` and `down` are the two goroutines. Messages carry their number, their kind
(plain, containing a session escape, refused by the agent, without payload) and
how they arrive (whole, or torn in the body or in the size). A response of the
database is copied in three frames, because `io.Copy` moves what happens to
have arrived. `wasValid` records whether the token was valid at some instant
since the message at hand was read.

### SQLHandler

A statement is the sequence of the nodes the visitor meets: WITH, SELECT with
its FROM, DDL, and nodes it has no case for (59-140: TRUNCATE, EXPLAIN), which
it passes over. A FROM is made of tables named plainly, with or without an
alias, and of items in which `getTableNamesAndAliases` finds no name (185: a join
in parentheses, a subquery, which is a node of its own); joins are taken
apart. Of the tables inside such nodes and items the code learns nothing, and the
model keeps nothing. `withTables` and `handleFailed` are the two fields that outlive a
statement. The agent's answer per table is yes, no, or a condition; the rewritten
statement is abstracted to the set of tables whose condition it contains. Each
question is a call of its own, and any of them may fail (`down`) while the
others are answered. The policy may change between any two statements. `last`
also records the names of WITHs known when a statement came.

### OPACompile, OPAFilter and OPAMeaning

`OPACompile` translates the functions of `opa.go` one by one: an answer is a
sequence of queries, a query a sequence of expressions of three terms. The text
the code assembles is kept as the structure a parser finds in it, since the
handler parses it at once (104): an OR of queries, each an AND of conditions, in
an EXISTS if it needs further tables. What parsing gives back is what was put
in with one exception: a string is put between two quotes without escaping the
quotes it holds (131), so such a string (one of `Quoting`) becomes `Garbled`. A
filter with a garbled value is refused, or the statement is taken for
another (`Misread`), at which point the model stops following it.

`OPAFilter` walks one SELECT. `selects` are the SELECTs of the growing
statement, `todo` those the walker has yet to visit, `next` the table to be asked
about. The visitor is called before the walker descends, so an EXISTS that was
plugged in is walked too and its tables are asked about: `Descend` pushes them.

`OPAMeaning` gives both sides a meaning that owes nothing to the code.
`Selected` evaluates the rewritten statement as a database does, with the
names of nested FROMs resolved inside out; `Permitted` evaluates the policies
row by row, with permitted rows of the tables they mention. Both are recursive
functions: `Selected` on the number of a SELECT and what is around it,
`Permitted` on how often policies have been followed, at most as often as there
may be SELECTs. The tables a statement reaches are the least set that holds
those of its FROM and is closed under what policies mention (`Closure`). There is
no RECURSIVE operator in it, so that all of it is within the prover's reach.

### Configuration and Service

`options` are the operator's; `clients` is the map made of them when the process
starts. `lease` is the registry of `LeaseRegistry`, used through its actions
`Grant` and `Withdraw`: `ConnectionState` is proved to implement it. A
connection or request is a record of where its goroutine is, the name and
database it gave, the tokens it found and the client it chose. Between `LookUp`
and `Verify` anything may happen to others, and to the name. `posted` is a
history variable. A panic in any goroutine outside `net/http`, a port that is
taken or a certificate that is none ends the process (`Dies`): the registry, the
sessions and the requests are gone, and it may be started again.

## 3. Runs

### Runs that pass

| Run | Bounds | Shows |
|---|---|---|
| `registry` | 3 names, 2 token pairs, lifetime 2, clock to 4 | exact lifetimes, a harmless sweep, refinement of `LeaseRegistry`, and that every expired entry is deleted |
| `authentication` | 2 databases, 2 OIDC clients, 13 configurations | seven safety properties of the handshake, and that it ends |
| `proxy` | 3 messages in lock-step for each set-up, 3 pipelined without OIDC, 2 pipelined beside a notice, a forgetful provider; whole and torn arrivals | no forwarding without a token; one whole answer each, in order; the database's answers complete, in order, and only for what was forwarded; every message answered; both goroutines end |
| `sql` | 4 statements of 11 shapes, 9 policies, any question failing | accepted statements were vetted for exactly the tables the visitor recognises; history does not matter to an undisturbed session |
| `opa` | 3 tables of 2 columns, 6 statements, 98 sets of policies, 28 databases, 9 SELECTs | exactly the permitted rows; no unknown names; refused for a reason; the walk ends |
| `service` | 2 names, 2 token pairs, 2 databases, 2 connections, 1 request, 11 sets of options, 2 starts | own tokens, the database's credentials, requests agree with sessions, one answer each, every connection gets its goroutine |

Why the bounds are enough. Two names suffice for a sweep to delete one while
another is posted; with three a sweep can also be half done. The clock passes a
whole lifetime and, again, the lifetime of a name posted after the first
expired, with sweeps before, between and after. The handshake is finite: its
only bound is the choice of constants, and two databases with two clients give
the right client, the wrong one, the fallback and none. Three messages let a
decision on one meet the answer to the one before and the reading of the one
after; a window of two is what it takes for the two writers to the client to
meet. Four statements are what it takes to name a CTE, use its name, be refused
and try again. Three tables are what it takes for a policy to mention two
others, and for an EXISTS to appear inside an EXISTS; the databases hold every
row of the table in question and several choices of the others, so that a
condition that is dropped, turned round or bound to the wrong table selects
other rows in one of them. The longest statement of policies that lead nowhere
back needs fewer than `MaxSelects` SELECTs (`WalkEnds` would fail if it were cut
short); those in a circle stop at the bound. Two connections are what it takes
for one to disturb or to wait for the other, two starts for a name to outlive
its process. The counters that stop a model (`MaxTime`, `conf.messages`,
`conf.notices`, `MaxStatements`, `MaxSelects`, `MaxLives`) appear in the guards of the clock, the client,
the database and the session.

Deadlock is checked in every run but `opa`, `opa_order` and `service`, where a
statement is done, a walk may be at its bound, or the process has been started
for the last time. The end of a handshake or of a session, and an
idle client, are explicit stuttering steps (`Over`, `Rest`), so a state in which
somebody waits in vain in the middle is reported.

### Runs that show a disagreement

Each checks one sentence of the repository's README against the code and ends
with a counterexample.

| Run | README | The code |
|---|---|---|
| `md5_salt` | 39 | a salt with a zero byte is cut short, the right password is refused |
| `denied_continues` | 40 | a failed refresh does not terminate the connection |
| `goodbye` | 40 | a payload that arrives in two pieces ends the session |
| `sql_asked` | 129 | a table named like an earlier CTE is never asked about |
| `sql_sticky` | 129 | one refused statement refuses all that follow |
| `opa_order` | 129 | `a < b` of two columns becomes `b < a`, and `2 <= a` becomes `a <= 2` |

The models have ten more such behaviours without a run of their own: a
statement the visitor has no case for (TRUNCATE, EXPLAIN), and a FROM item that
is neither a name nor a join (a join in parentheses), are accepted without a
question about the tables in them (`HandleTables`, `AskAbout`; README 129 promises
one for all the referenced tables, `TestEmptyTableName` pins that none is found);
a string with a quote in it makes the statement refused or misread (`Garbled`,
`Misread`; README 131 calls the translation automatic); the report that the
session user changed is dropped by `ReadUntilReady` (README 86);
a torn TLS request leaves three peers waiting for one another (`AskTLS`);
a message without payload, such as Sync, ends the session (`ReadMessage`); an
error of the proxy can land between two frames of a database's response when a
client pipelines (`Answer` beside `Copy`); a refresh that brings no token counts
as a success (`Refreshed`, README 40); an alias that is the name of another table
captures the conditions about that table (`ByAlias`, `ExtraTables`); policies of
two tables that refer to each other make the walk endless (`Descend`); and
`/permissionapply` without a database, as README 143 calls it, finds no client
unless falling back to the base client is allowed (`Consult`).

The passing properties say what holds in spite of these: `AcceptedIsVetted`
speaks of the tables a FROM names plainly, except those whose name a WITH has
used, in this statement before the place or in an earlier one, `StreamIsWhole`
speaks of clients that wait for their answers, `ForwardedWasValid` of providers
that send a token when they say 200, `VisibleIsPermitted` of policies that
compare by order only a column with a value, in this order, and with no string
that has a quote in it, and of statements in which no alias is a table's name,
`RefusedForAReason` counts a comparison with such a string among the conditions
that cannot be translated, `WalkEnds` speaks of policies without circles and
without such strings,
`EveryConnectionIsServed` of options for which a handler can be made,
`ReadyMeansPrepared` of the database's
state and not of what the client was told about it.

### Fairness

* `ConnectionState`: the clock, the ticker and the cleaner are weakly fair. The
  goroutine blocks on nothing but the ticker and a mutex that every method
  releases on return. Nothing makes anybody post.
* `Authentication`: the handler goroutine and the database are weakly fair; the
  provider's and the agent's answers are part of the handler's steps. No code
  has a timeout, so a peer that stays connected and silent is excluded by
  assumption; one that closes is not. The client owes nothing: `HandshakeEnds`
  begins when its packet is in.
* `ProxyLoop`: both goroutines and the database's serving are weakly fair. The
  client owes nothing, neither messages nor its goodbye.
* `OPAFilter`: the walk goes on; the agent may fail at each question.
* `Service`: the loop that accepts is weakly fair for each connection, since it
  does nothing but accept and start goroutines. Nothing else is fair: sessions
  may stay for ever.

## 4. Theorems

`ConnectionState_proofs` proves, for all sets of names and tokens, every
integer lifetime and every bound of the clock:

* `TypeCorrect`: `Spec => []TypeOK`;
* `SweepIsSafe`: `Spec => []SweepOnlyExpired`;
* `LeasesAreExact`: `Spec => []AvailableForItsLifetime`;
* `ImplementsLease`: `Spec => LeaseSpec`, the refinement.

The assumptions are `TokenAssumption` and `TimeAssumption`: the empty pair is
something a client can post, the stand-in for an unused name is not, lifetime
is an integer and the clock's bound a natural number.

The argument. `AvailableForItsLifetime` is not inductive: it does not say what
is in the map after expiry, nor why deleting a name from an old snapshot is
harmless. The inductive invariant is
`IInv == TypeOK /\ EntriesMatch /\ FreshNames /\ SweepOnlyExpired`.
`EntriesMatch` relates map and history: an entry holds what was posted and
expires a lifetime later, and a posted name is either in the map or over.
`FreshNames` says that what was posted, stored or listed was issued, so that a
new name collides with none of them, in particular with none of a snapshot. With it
`SweepOnlyExpired` is preserved: an entry of a listed name can neither be
replaced (the name is not fresh) nor come alive again (the clock only
advances). `AvailableForItsLifetime` follows from `EntriesMatch`. The refinement maps a
posting to `Grant`, and every other step to `Withdraw` of the
names whose answer it changes: the clock withdraws those that expire, a
restart withdraws all that were alive, the sweep withdraws nothing.

`Authentication_proofs` proves, for all sets of databases and OIDC clients and
all configurations, every safety property of the handshake that a run checks:
`TypeCorrect`, `SuperuserIsVouchedFor` (`VouchedForTheDatabase`),
`ReadySessionsArePrepared` (`ReadyMeansPrepared`), `ScriptRunsFirst`
(`ScriptBeforeRole`), `StatementsAreInSync` (`InSync`), `LegsAreAsAnswered`
(`LegsAsAnswered`), `TranscriptIsServerLike` (`ServerLikeTranscript`) and
`RefusalsAreTold` (`RefusalIsTold`). The assumptions are `ConfigAssumption` (the
configurations are configurations, the base client is a client) and
`NoneAssumption` (the empty value is not a user, a client, a database, an answer
of userinfo or a request). The properties speak of a few points of the handshake;
the invariant `HandshakeInv` says at every point what has been done, in four
parts of which each rests on those before it:

* `IInv == Shapes /\ Silence /\ Entitled /\ OnBehalf`, the identity. `Silence`:
  proxy and database exchange nothing until the login but the TLS question, so
  that no leftover is taken for an answer to the login. `Entitled`: while tokens
  are verified the session acts for the client of the database asked for, and a
  token which gets as far as userinfo is that client's or empty. `OnBehalf`: from
  the login on the provider has vouched, and the database knows no database name
  but the packet's.
* `Conversation`, the database's protocol. Wherever the handler is, either its
  question is open and everything before it is read, or the answer is there, or
  what is left of it. Without it nothing can be said of what a message means
  when it is read.
* `SInv == Steady /\ Progress`, the session in the database. `Progress`: how far
  the transaction is, by what the plan has left to send and by the answer
  unread. `Steady`: what holds even when the handler is gone and the database
  still serves its last statement, such as that a script is only ever served
  to the configured user.
* `TInv == Transcript /\ Encryption`, the client's side: what it was told, by the
  phase of the handshake, and that each leg is encrypted as it was announced.

`ProxyLoop_proofs` proves, for any messages in any number, any arrival, any
window, any number of notices and any set-up, every safety property of the loop
that the run checks: `NothingPassesUnchecked` (`ForwardedWasValid`),
`TypeCorrect`, `AnswersAreInOrder` (`DatabaseAnswersInOrder`) and
`StreamsAreWhole` (`StreamIsWhole`). The assumption is `LoopAssumption`: set-ups,
kinds and arrivals are such. The first has an invariant of its own: a message
with its check ahead was read under a valid token if the token is valid now,
since a token only expires by itself, and the loop refreshes it only with a
message in hand that is past that point. The others share
`SessionInv == Types /\ Numbers /\ InOrder /\ LockStep`:

* `Numbers`: messages are numbered as sent, the one in hand is the one after
  those decided on, and frames are three per forwarded message and two per
  refusal or notice, counting those received, those under way and those to come;
* `InOrder`: what the client has, what is on its way to it and what the database
  has yet to answer are together the answers to the forwarded messages, in order
  (`Due`); a database that closed may still owe the last of them. The property
  is about the first of the three only, and says nothing of the others;
* `LockStep`: a client that waits for its answers is in one of six phases
  (answered, asked, denied, with the database, delivered, lost), and in each at
  most one of the two goroutines has something to write.

`SQLHandler_proofs` proves, for statements of any length over any tables and
CTEs, nodes and FROM items the visitor passes over included, sessions of any
number of them, any policies and any failures of the agent, `TypeCorrect`,
`VettingHolds` (`AcceptedIsVetted`) and the action property
`SessionAgreesWithDryRun` (`DryRunAgrees`). The assumption is
`StatementAssumption`: statements are sequences of nodes, policies answer for
every table. They rest on `WalkDecides`, which says what the walk computes: it
fails exactly if a question fails or is answered with no, or an operation is not
allowed, and has otherwise asked about exactly the plainly named tables that no
WITH hides. It
is proved by induction over the nodes of a statement and the tables of each; the
invariant of the session, `IInv`, adds to the properties only that the handler
has learned the DDL it was granted (`Learned`).

`Service_proofs` proves, for any names, tokens, databases, connections and
requests, any options with lists of any length and any number of restarts,
every safety property of the process that the run checks: `TypeCorrect`,
`NobodyIsMistaken` (`OwnIdentity`), `CredentialsAreTheDatabases`
(`CredentialsOfTheDatabase`), `RequestsSpeakForSessions`
(`RequestAgreesWithSession`) and `RequestsAreAnsweredOnce` (`OneAnswer`). The
assumptions are `TokensAssumption` (what stands for a name that was not handed
out is not a pair of tokens), `OptionsAssumption` (options hold lists of entries,
the base client is a client and the absent one is none) and
`NoSecretAssumption` (the empty secret is a credential). The properties are not
inductive: they do not say that whoever holds tokens holds a name that was
handed out before, without which a new posting might be for his name. `IInv`
adds what every goroutine's record says (`Faithful`), that a lookup answers with
what was posted or with nothing (`Answers`), and that the clients of a living
process are those of its options (`Configured`). `ParseMappingReads` says, by
induction over a list of options, that a list that is accepted names each
database once, and that the map made of it has exactly these values.

`OPACompile_proofs` proves of every condition that is accepted, whatever terms
the agent sends: `NoTermIsLost`, that the three terms get the three places,
the operator the middle one; and `NoUnknownTable`, that every table in it is the
table asked about, by its alias if it has one, or an extra table, which gets an
EXISTS. The second assumes that no column is of a table without a name: the
parser refuses those (`Parses`).

`OPAMeaning_proofs` proves, for any tables and columns, contents of the
database, statements and answers, and any bound on the SELECTs, every safety
property that the `opa` run checks:

* `TypeCorrect` (`TypeOK`), from `ShapeHolds`: the inductive `Shape` says of each
  SELECT that it is a FROM of known tables and a WHERE whose EXISTS have larger
  numbers;
* `NamesBound` (`NamesAreBound`): with `Shape` it is inductive, since a condition
  names the table asked about or one of its EXISTS (`NoUnknownTable`);
* `RefusalsHaveReasons` (`RefusedForAReason`): while all answers are comparisons,
  the walk asks only about tables that policies lead to (`Leads`), and an answer
  of comparisons compiles and parses (`WellFormedUnderstood`), so that only a denial
  is left to refuse for (`Denied`);
* `VisibleHolds` (`VisibleIsPermitted`): what a rewritten statement selects is
  what the policies permit.

The assumption is `FilterAssumption`: answers are sequences of sequences of
expressions, whose references to tables are to those the agent may be asked about;
the conditions a statement brings along name tables of its own FROM; no
table's name is empty. `VisibleIsPermitted` itself makes four exceptions, each of
which the code needs: no alias is a table's name, conditions are comparisons, by
order only of a column with a value, and no string in them has a quote in it.
Which strings have one is the constant `Quoting`, of which nothing is assumed; in
`RefusedForAReason` and `ConditionsMean` a comparison with such a string is not
well formed.

The argument for `VisibleHolds`. It is about the end of a walk, so the invariant
has to say what the walk has done so far. `Plugged` does: each filter of a WHERE is
the SELECT's own or stands for a table of its FROM (`Stands`: query by query, its
conditions are the compiled ones, in an EXISTS over the query's other tables if
there are any), and each table that has been asked about is allowed or has such a
filter; what has not been asked about is in `todo`, or in a WHERE still to be
walked (`Pending`). It is preserved because filters are only ever put in front. At
the end nothing is pending. Then a filter holds of a row exactly if the policy
lets it pass (`FilterSays`), provided its EXISTS find rows exactly if permitted
ones exist; `ConditionsMean` is the step for one comparison, where the place of
an operand, the alias and the negation matter. The EXISTS of a SELECT come
after it, so an induction from the last SELECT to the first proves both that the
recursion of `Selected` has a solution and that it is the permitted rows
(`FindsExists`, `FindsWanted`). Another one proves that following the policies further
than the statement has SELECTs changes nothing for its tables (`Settled`), so that
the depth of `Permitted` does not matter.

`Recursion` holds what the proofs about walks rest on. The prover cannot use
the library's induction theorems, which take an operator as a parameter;
induction is proved here once more, about sets of numbers, from the
well-foundedness of finite sets. From it follow induction on an interval, the
existence of the function a recursive definition names (`RunExists`), induction
from the last number down (`DownwardInduction`), and, of
the library's `FlattenSeq`, its type and that it distributes over
concatenation.

Only model-checked:

* liveness under fairness, which is out of the prover's reach: that expired
  entries are deleted, handshakes end, messages are answered, goroutines end,
  walks end and connections are served.

What recursive definitions compute is proved only where a definition could be
written as a function on an interval; the library's induction over data is out of
the prover's reach. The runs marked as violations are counterexamples and
have nothing to prove.

## 5. Not modelled

* Bytes. Lengths, segment boundaries and string contents are abstracted to what
  the code tells apart: whole or torn, with or without payload, a salt with or
  without a zero byte, a user name with or without tokens. In the handshake the
  database's messages are always whole.
* Cryptography: SCRAM, MD5, TLS and JWT signatures are outcomes (good, bad).
  Whether a token is genuine is for the provider's userinfo endpoint to say.
* JOIN filters of the SQL handler (120-137): no agent returns any. A SQL handler
  without an agent (38-40): the factory makes none (`handler.go` 27). A policy
  that changes between two questions about one statement.
* What the visitor passes over, in a walk of `OPAFilter`: its statements are of
  SELECTs over plainly named tables. `SQLHandler` has the rest.
* In `OPACompile` and `OPAMeaning`: NULLs, outer joins, references inside
  references, and numbers beyond what float64 tells apart (`opa.go` 129). The
  names of tables and columns are plain lower-case identifiers, which a parser
  reads as they stand (159-190 quotes none), and the character strings are put
  between is SQL's quote, the default (`config.go` 58). Values are numbers in the
  runs, whatever their type, and one of them stands for a string with a quote in
  it; what becomes of a statement whose string was misread is not followed. The
  order of the tables of an EXISTS is not kept: it decides nothing.
* In `Service`: user names that bring their tokens along (they use no registry;
  see `Authentication`), and what happens in a session between two of its steps.
* A provider that rotates refresh tokens (`oidc.go` 107), and the transaction
  status in the ReadyForQuery of a refusal (`postgres.go` 824).
* Parsing of flags and environment variables, which is a library's.
* The debug branch of `proxyDownstream` (796-812) and `io.Copy` (814) are one
  action: both copy what arrived.
* Logging, the example deployments and the packaging.

## 6. Plan

Done: `ConnectionState` and `LeaseRegistry`, `Authentication`, `ProxyLoop`,
`SQLHandler`, `OPACompile` with `OPAFilter` and `OPAMeaning`, `Configuration`,
`Service`. Left:

1. `Framing`: `read`, `readMessage` and `readFullMessage` over a byte stream
   with arbitrary segments, refining the whole-or-torn messages used here, on
   the database's side of the handshake too.
2. `ProxyLoop` with the SQL handler in place of its refused messages: sessions
   passed through whose password message reaches the handler, and the
   transaction status in ReadyForQuery.
3. Rotation of refresh tokens.
