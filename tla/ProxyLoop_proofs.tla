-------------------------- MODULE ProxyLoop_proofs --------------------------
(***************************************************************************)
(* The proxied session, for any messages, any number of them, any way they *)
(* arrive and any set-up: no message reaches the database without a token  *)
(* that was valid after it was read; the database's answers arrive in      *)
(* order; and the two goroutines that write to a lock-step client never    *)
(* get in each other's way.                                                *)
(***************************************************************************)
EXTENDS ProxyLoop, Recursion

(* The provider is one of those that never give an empty token for a good  *)
(* one, and the session is one whose token is checked.                     *)
Guarded == conf.oidc /\ ~ conf.tokenless

(* The inductive invariant.  A message that was found to need no refresh   *)
(* was vetted while the token was the valid one, or it came through the    *)
(* refresh; and a token that is valid when the message is about to be      *)
(* checked was valid already when it was read, for only the loop itself    *)
(* can make it valid again, and it has a message in hand when it does.     *)
IInv == /\ up = "check" /\ conf.oidc /\ token = "valid" => wasValid
        /\ up \in {"vet", "forward"} /\ Guarded => wasValid

LEMMA Initially == Init => IInv
  BY DEF Init, IInv

(* The loop's own steps: the token is checked between the read and the     *)
(* vetting, and no step skips it.                                          *)
LEMMA UpstreamKeeps == ASSUME IInv, Upstream PROVE IInv'
  <1> USE DEF IInv, Guarded, provider, network
  <1>1. CASE ReadMessage
    BY <1>1 DEF ReadMessage
  <1>2. CASE ClientClosed \/ CheckToken
    BY <1>2 DEF ClientClosed, CheckToken
  <1>3. CASE RefreshFails \/ Refreshed
    BY <1>3 DEF RefreshFails, Refreshed
  <1>4. CASE Vet \/ Forward
    BY <1>4 DEF Vet, Forward
  <1>5. CASE SendError \/ SendReady
    BY <1>5 DEF SendError, SendReady, Answer
  <1> QED
    BY <1>1, <1>2, <1>3, <1>4, <1>5 DEF Upstream

(* The other goroutine and the database touch neither token nor message.   *)
LEMMA OthersKeep ==
    ASSUME IInv, Downstream \/ Serve \/ Notify \/ DatabaseCloses PROVE IInv'
  <1> USE DEF IInv, Guarded, provider, network
  <1>1. CASE Downstream
    BY <1>1 DEF Downstream, Copy, CopyEnds
  <1>2. CASE Serve \/ Notify \/ DatabaseCloses
    BY <1>2 DEF Serve, Notify, DatabaseCloses
  <1> QED
    BY <1>1, <1>2

(* What the client does, and what becomes of its token meanwhile: a token  *)
(* expires but never comes alive by itself.                                *)
LEMMA EnvironmentKeeps ==
    ASSUME IInv,
           \/ \E k \in Kinds, a \in Arrivals : Send(k, a)
           \/ ClientLeaves \/ TokenExpires \/ AccessRevoked
    PROVE  IInv'
  <1> USE DEF IInv, Guarded, provider, network
  <1>1. CASE \E k \in Kinds, a \in Arrivals : Send(k, a)
    BY <1>1 DEF Send
  <1>2. CASE ClientLeaves \/ TokenExpires \/ AccessRevoked
    BY <1>2 DEF ClientLeaves, TokenExpires, AccessRevoked
  <1> QED
    BY <1>1, <1>2

LEMMA Inductive == ASSUME IInv, [Next]_vars PROVE IInv'
  <1>1. CASE UNCHANGED vars
    BY <1>1 DEF IInv, Guarded, vars
  <1>2. CASE Rest
    BY <1>1, <1>2 DEF Rest
  <1> QED
    BY <1>1, <1>2, UpstreamKeeps, OthersKeep, EnvironmentKeeps DEF Next

(* ForwardedWasValid: a message about to be written to the database had a  *)
(* valid token behind it at some instant after it was read (postgres.go    *)
(* 861-871 before 899), whatever else is under way: the token's expiry,    *)
(* the provider's change of mind, the other goroutine, peers that leave.   *)
THEOREM NothingPassesUnchecked == Spec => []ForwardedWasValid
  <1>1. IInv => ForwardedWasValid
    BY DEF IInv, Guarded, ForwardedWasValid
  <1> QED
    BY Initially, Inductive, <1>1, PTL DEF Spec

-----------------------------------------------------------------------------
(* The messages and the frames of a session.                               *)
Message == [id : Nat, kind : Kinds \cup {"query"}, arrives : Arrivals \cup {"whole"}]
Frames  == [from : {"db", "proxy"}, id : Nat, part : {"first", "second", "ready", "error"}]

(* Where proxyUpstream holds a message undecided, and where it is          *)
(* answering one itself.                                                   *)
InHand   == {"check", "refresh", "vet", "forward"}
Refusing == {"error", "ready"}

(* What each variable holds; the bounds of TypeOK follow from the          *)
(* numbering below.                                                        *)
Types ==
    /\ conf \in Configs
    /\ up \in {"read", "ended", "crashed"} \cup InHand \cup Refusing
    /\ down \in {"copy", "ended", "crashed"}
    /\ verdicts \in Seq(Verdicts) /\ message \in Message /\ wasValid \in BOOLEAN
    /\ token \in {"valid", "expired", "empty"} /\ revoked \in BOOLEAN
    /\ sent \in 0 .. conf.messages /\ notices \in 0 .. conf.notices
    /\ client \in BOOLEAN /\ db \in BOOLEAN
    /\ toProxy \in Seq(Message) /\ toDB \in Seq(Message)
    /\ got \in Seq(Frames) /\ fromDB \in Seq(Frames)

(* What the proxy has yet to write of its own answer.                      *)
Own == CASE up = "error" -> Refusal(message.id)
         [] up = "ready" -> Tail(Refusal(message.id))
         [] OTHER        -> <<>>

(* The messages on their way to the proxy are the last ones sent, in order. *)
Queued == \A k \in 1 .. Len(toProxy) : toProxy[k].id + Len(toProxy) = sent + k

(* Each message the loop took was decided on, but for the one in hand;     *)
(* what it is refusing is the one decided on last.                         *)
Numbered ==
    /\ up = "read"     => Len(verdicts) + Len(toProxy) = sent
    /\ up \in InHand   => Len(verdicts) + Len(toProxy) + 1 = sent /\ message.id = Len(verdicts) + 1
    /\ up \in Refusing => /\ Len(verdicts) + Len(toProxy) = sent /\ message.id = Len(verdicts)
                          /\ message.id > 0 /\ verdicts[message.id] # "forwarded"
    /\ Len(verdicts) + Len(toProxy) <= sent /\ message.id <= sent

(* What was forwarded answers a message the client sent, not number 0.     *)
Forwarded == \A k \in 1 .. Len(toDB) : toDB[k].id > 0

(* Each decided message makes three frames at most, and each notice two:   *)
(* those received, those under way, and those still to come.               *)
Room ==
    /\ Len(toDB) <= Len(verdicts)
    /\ Len(got) + Len(fromDB) + 3 * Len(toDB) + Len(Own) <= 3 * Len(verdicts) + 2 * notices

Numbers == Queued /\ Numbered /\ Forwarded /\ Room

(* The answers still awaited of the database, and all it is due to have    *)
(* sent: what the client has, what is on its way, what it will answer.     *)
AnswerTo(m)   == Response(m.id)
AnswersTo(ms) == [k \in DOMAIN ms |-> AnswerTo(ms[k])]
Awaited == FlattenSeq(AnswersTo(toDB))
Due     == DatabaseAnswers(got \o fromDB) \o Awaited

(* The database's answers the client has, and those to all that was        *)
(* forwarded.                                                              *)
Had     == DatabaseAnswers(got)
All     == FlattenSeq(Responses)

(* While the client is there, the answers due are the beginning of those   *)
(* to the forwarded messages, and all of them while the database is there  *)
(* too.                                                                    *)
InOrder == /\ client => IsPrefix(Due, All) /\ (db => Due = All)
           /\ IsPrefix(Had, All)

(* One whole answer to each message decided on.                            *)
Whole == FlattenSeq([i \in DOMAIN verdicts |-> WholeAnswer(i)])

(* The phases of a lock-step session: its one message is answered, or      *)
(* asked and in hand, or being refused, or with the database, or answered  *)
(* and on its way; or it was lost, with a session that ended or a database *)
(* that closed.                                                            *)
Silent == toProxy = <<>> /\ toDB = <<>> /\ fromDB = <<>>

Answered  == Silent /\ up = "read" /\ Readies = sent /\ got = Whole
Asked     == /\ toDB = <<>> /\ fromDB = <<>> /\ Readies + 1 = sent /\ got = Whole
             /\ \/ up = "read" /\ Len(toProxy) = 1
                \/ up \in InHand /\ toProxy = <<>>
Denied    == Silent /\ up \in Refusing /\ Readies + 1 = sent /\ got \o Own = Whole
Served    == /\ toProxy = <<>> /\ fromDB = <<>> /\ up = "read" /\ Readies + 1 = sent
             /\ Len(toDB) = 1 /\ got \o Response(toDB[1].id) = Whole
Delivered == /\ toProxy = <<>> /\ toDB = <<>> /\ up = "read" /\ Readies + 1 = sent
             /\ \E i \in Nat : fromDB \in {Response(i), Tail(Response(i)), Tail(Tail(Response(i)))}
             /\ got \o fromDB = Whole
Lost      == /\ Silent /\ up \in {"read", "ended", "crashed"} /\ Readies + 1 = sent
             /\ IsPrefix(got, Whole)

Calm   == conf.window = 1 /\ conf.notices = 0
Phases == Answered \/ Asked \/ Denied \/ Served \/ Delivered \/ Lost

(* Only one of the two goroutines has anything to write, and what it       *)
(* writes completes the answer that is missing. Once the client has left   *)
(* nothing more is received.                                               *)
LockStep == Calm => (client => Phases) /\ IsPrefix(got, Whole)

-----------------------------------------------------------------------------
(* A beginning stays one when the whole grows, and is itself made of       *)
(* beginnings.                                                             *)
LEMMA PrefixGrows ==
    ASSUME NEW S, NEW s \in Seq(S), NEW t \in Seq(S), NEW u \in Seq(S)
    PROVE  /\ IsPrefix(s, t) => IsPrefix(s, t \o u)
           /\ IsPrefix(s \o u, t) => IsPrefix(s, t)
           /\ IsPrefix(s, s)
  BY SMTT(60) DEF IsPrefix

(* The answers are frames, of these lengths.                               *)
LEMMA ChunkType ==
    ASSUME NEW i \in Nat
    PROVE  /\ Response(i) \in Seq(Frames) /\ Len(Response(i)) = 3
           /\ Refusal(i) \in Seq(Frames) /\ Len(Refusal(i)) = 2
           /\ Notice \in Seq(Frames) /\ Len(Notice) = 2
           /\ Tail(Refusal(i)) \in Seq(Frames) /\ Len(Tail(Refusal(i))) = 1
  BY DEF Response, Refusal, Notice, Frame, Frames

(* DatabaseAnswers keeps a frame or drops it.                              *)
Chosen(frame) == IF frame.from = "db" /\ frame.id # 0 THEN <<frame>> ELSE <<>>
ChosenOf(frames) == [i \in DOMAIN frames |-> Chosen(frames[i])]

(* It flattens sequences of one frame or none.                             *)
LEMMA ChosenType ==
    ASSUME NEW a \in Seq(Frames)
    PROVE  ChosenOf(a) \in Seq(Seq(Frames)) /\ DatabaseAnswers(a) = FlattenSeq(ChosenOf(a))
  <1> DEFINE V == Seq(Frames)
             N == Len(a)
  <1>1. \A x \in Frames : Chosen(x) \in V
    BY DEF Chosen
  <1>2. N \in Nat /\ DOMAIN a = 1 .. N /\ \A i \in 1 .. N : a[i] \in Frames
    OBVIOUS
  <1>3. DatabaseAnswers(a) = FlattenSeq(ChosenOf(a))
    BY DEF DatabaseAnswers, ChosenOf, Chosen
  <1> HIDE DEF V, N
  <1>4. ChosenOf(a) \in [1 .. N -> V]
    BY <1>1, <1>2 DEF ChosenOf
  <1>5. ChosenOf(a) \in Seq(V)
    BY <1>2, <1>4
  <1> QED
    BY <1>3, <1>5 DEF V

(* It distributes over concatenation.                                      *)
LEMMA AnswersConcat ==
    ASSUME NEW a \in Seq(Frames), NEW b \in Seq(Frames)
    PROVE  DatabaseAnswers(a \o b) = DatabaseAnswers(a) \o DatabaseAnswers(b)
  <1>2. ChosenOf(a \o b) = ChosenOf(a) \o ChosenOf(b)
    BY DEF ChosenOf
  <1>3. a \o b \in Seq(Frames)
    OBVIOUS
  <1> QED
    <2>1. FlattenSeq(ChosenOf(a) \o ChosenOf(b)) = FlattenSeq(ChosenOf(a)) \o FlattenSeq(ChosenOf(b))
      BY ChosenType, FlattenConcat
    <2> QED
      BY <1>2, <1>3, <2>1, ChosenType

(* It returns frames.                                                      *)
LEMMA AnswersType ==
    ASSUME NEW a \in Seq(Frames)
    PROVE  DatabaseAnswers(a) \in Seq(Frames)
  BY ChosenType, FlattenType

(* On one frame it is the choice itself.                                   *)
LEMMA AnswersOne ==
    ASSUME NEW x \in Frames
    PROVE  DatabaseAnswers(<<x>>) = Chosen(x)
  <1>1. Chosen(x) \in Seq(Frames)
    BY DEF Chosen
  <1>2. DatabaseAnswers(<<x>>) = FlattenSeq(<<Chosen(x)>>)
    <2>1. [i \in DOMAIN <<x>> |-> Chosen(<<x>>[i])] = <<Chosen(x)>>
      OBVIOUS
    <2> QED
      BY <2>1 DEF DatabaseAnswers, Chosen
  <1> QED
    BY <1>1, <1>2, FlattenOne

(* A response is kept whole.                                               *)
LEMMA AnswersOfResponse ==
    ASSUME NEW i \in Nat \ {0}
    PROVE  DatabaseAnswers(Response(i)) = Response(i)
  <1> DEFINE F(part) == Frame("db", i, part)
  <1>1. F("first") \in Frames /\ F("second") \in Frames /\ F("ready") \in Frames
    BY DEF Frame, Frames
  <1>2. ASSUME NEW part \in {"first", "second", "ready"}
        PROVE  DatabaseAnswers(<<F(part)>>) = <<F(part)>>
    <2>1. F(part) \in Frames /\ F(part).from = "db" /\ F(part).id # 0
      BY <1>1 DEF Frame
    <2> HIDE DEF F
    <2> QED
      BY <2>1, AnswersOne DEF Chosen
  <1>3. Response(i) = (<<F("first")>> \o <<F("second")>>) \o <<F("ready")>>
    BY DEF Response
  <1> HIDE DEF F
  <1>4. DatabaseAnswers(<<F("first")>> \o <<F("second")>>) = <<F("first")>> \o <<F("second")>>
    <2>1. <<F("first")>> \in Seq(Frames) /\ <<F("second")>> \in Seq(Frames)
      BY <1>1
    <2> QED
      BY <1>2, <2>1, AnswersConcat
  <1>5. DatabaseAnswers((<<F("first")>> \o <<F("second")>>) \o <<F("ready")>>)
           = (<<F("first")>> \o <<F("second")>>) \o <<F("ready")>>
    <2>1. <<F("first")>> \o <<F("second")>> \in Seq(Frames) /\ <<F("ready")>> \in Seq(Frames)
      BY <1>1
    <2>2. DatabaseAnswers((<<F("first")>> \o <<F("second")>>) \o <<F("ready")>>)
            = DatabaseAnswers(<<F("first")>> \o <<F("second")>>) \o DatabaseAnswers(<<F("ready")>>)
      BY <2>1, AnswersConcat
    <2> QED
      BY <1>2, <1>4, <2>2
  <1> QED
    BY <1>3, <1>5

(* Notices are not answers.                                                *)
LEMMA AnswersOfNotice == DatabaseAnswers(Notice) = <<>>
  <1> DEFINE F(part) == Frame("db", 0, part)
  <1>1. ASSUME NEW part \in {"first", "second"}
        PROVE  F(part) \in Frames /\ DatabaseAnswers(<<F(part)>>) = <<>>
    <2>1. F(part) \in Frames /\ F(part).id = 0
      BY DEF Frame, Frames
    <2> HIDE DEF F
    <2> QED
      BY <2>1, AnswersOne DEF Chosen
  <1>2. Notice = <<F("first")>> \o <<F("second")>>
    BY DEF Notice
  <1> HIDE DEF F
  <1>3. DatabaseAnswers(<<F("first")>> \o <<F("second")>>)
           = DatabaseAnswers(<<F("first")>>) \o DatabaseAnswers(<<F("second")>>)
    <2>1. <<F("first")>> \in Seq(Frames) /\ <<F("second")>> \in Seq(Frames)
      BY <1>1
    <2> QED
      BY <2>1, AnswersConcat
  <1> QED
    BY <1>1, <1>2, <1>3

(* What messages will be answered with are frames,                         *)
LEMMA AnswersToType ==
    ASSUME NEW ms \in Seq(Message)
    PROVE  AnswersTo(ms) \in Seq(Seq(Frames)) /\ FlattenSeq(AnswersTo(ms)) \in Seq(Frames)
  <1> DEFINE V == Seq(Frames)
             N == Len(ms)
  <1>1. N \in Nat /\ DOMAIN ms = 1 .. N /\ \A i \in 1 .. N : ms[i] \in Message
    OBVIOUS
  <1>2. \A m \in Message : AnswerTo(m) \in V
    BY ChunkType DEF Message, AnswerTo
  <1> HIDE DEF V, N
  <1>3. AnswersTo(ms) \in [1 .. N -> V]
    BY <1>1, <1>2 DEF AnswersTo
  <1>4. AnswersTo(ms) \in Seq(V)
    BY <1>1, <1>3
  <1> QED
    BY <1>4, FlattenType DEF V

(* in the order of the messages,                                           *)
LEMMA AnswersToConcat ==
    ASSUME NEW a \in Seq(Message), NEW b \in Seq(Message)
    PROVE  FlattenSeq(AnswersTo(a \o b)) = FlattenSeq(AnswersTo(a)) \o FlattenSeq(AnswersTo(b))
  <1>1. AnswersTo(a \o b) = AnswersTo(a) \o AnswersTo(b)
    BY DEF AnswersTo
  <1>2. /\ AnswersTo(a) \in Seq(Seq(Frames))
        /\ AnswersTo(b) \in Seq(Seq(Frames))
    BY AnswersToType
  <1> QED
    BY <1>1, <1>2, FlattenConcat

(* one response for one message.                                           *)
LEMMA AnswersToOne ==
    ASSUME NEW m \in Message
    PROVE  FlattenSeq(AnswersTo(<<m>>)) = Response(m.id)
  <1>1. AnswersTo(<<m>>) = <<Response(m.id)>>
    BY DEF AnswersTo, AnswerTo
  <1>2. Response(m.id) \in Seq(Frames)
    BY ChunkType DEF Message
  <1> QED
    BY <1>1, <1>2, FlattenOne

(* What a verdict makes of a message: the database's answer, or, where     *)
(* those of the proxy count too, its refusal.                              *)
Chunk(verdict, i, refusals) ==
    IF verdict = "forwarded" THEN Response(i) ELSE IF refusals THEN Refusal(i) ELSE <<>>
Chunks(vs, refusals) == [i \in DOMAIN vs |-> Chunk(vs[i], i, refusals)]

(* The answers to the messages decided on are frames.                      *)
LEMMA ChunksType ==
    ASSUME NEW vs \in Seq(Verdicts), NEW refusals \in BOOLEAN
    PROVE  Chunks(vs, refusals) \in Seq(Seq(Frames)) /\ FlattenSeq(Chunks(vs, refusals)) \in Seq(Frames)
  <1> DEFINE V == Seq(Frames)
             N == Len(vs)
  <1>1. N \in Nat /\ DOMAIN vs = 1 .. N
    OBVIOUS
  <1>2. \A i \in Nat, v \in Verdicts : Chunk(v, i, refusals) \in V
    BY ChunkType DEF Chunk
  <1>3. \A i \in 1 .. N : vs[i] \in Verdicts /\ i \in Nat
    OBVIOUS
  <1> HIDE DEF V, N
  <1>4. Chunks(vs, refusals) \in [1 .. N -> V]
    BY <1>1, <1>2, <1>3 DEF Chunks
  <1>5. Chunks(vs, refusals) \in Seq(V)
    BY <1>1, <1>4
  <1> QED
    BY <1>5, FlattenType DEF V

(* One more decision adds its answer to the end.                           *)
LEMMA ChunksAppend ==
    ASSUME NEW vs \in Seq(Verdicts), NEW v \in Verdicts, NEW refusals \in BOOLEAN
    PROVE  FlattenSeq(Chunks(Append(vs, v), refusals))
             = FlattenSeq(Chunks(vs, refusals)) \o Chunk(v, Len(vs) + 1, refusals)
  <1>1. Chunks(Append(vs, v), refusals) = Append(Chunks(vs, refusals), Chunk(v, Len(vs) + 1, refusals))
    BY DEF Chunks
  <1>2. Chunk(v, Len(vs) + 1, refusals) \in Seq(Frames)
    BY ChunkType DEF Chunk
  <1> QED
    BY <1>1, <1>2, ChunksType, FlattenAppend

(* So read, these are the sequences of the two properties.                 *)
LEMMA Readable ==
    /\ FlattenSeq(Responses) = FlattenSeq(Chunks(verdicts, FALSE))
    /\ FlattenSeq([i \in DOMAIN verdicts |-> WholeAnswer(i)]) = FlattenSeq(Chunks(verdicts, TRUE))
  BY DEF Responses, WholeAnswer, Chunks, Chunk

-----------------------------------------------------------------------------
(* The set-up's bounds are numbers.                                        *)
LEMMA ConfTypes == Types => conf \in Config /\ conf.messages \in Nat /\ conf.notices \in Nat
  BY LoopAssumption DEF Types, Config

(* A session begins with nothing sent.                                     *)
LEMMA TypesBegin == Init => Types /\ Numbers
  <1> SUFFICES ASSUME Init PROVE Types /\ Numbers
    OBVIOUS
  <1>1. conf.messages \in Nat /\ conf.notices \in Nat
    BY LoopAssumption DEF Init, Config
  <1>2. Types
    <2>1. NoMessage \in Message /\ <<>> \in Seq(Message) /\ <<>> \in Seq(Frames) /\ <<>> \in Seq(Verdicts)
      BY DEF Message, NoMessage
    <2>2. conf \in Configs /\ 0 \in 0 .. conf.messages /\ 0 \in 0 .. conf.notices
      BY <1>1 DEF Init
    <2> QED
      BY <2>1, <2>2 DEF Init, Types
  <1>3. Queued /\ Numbered /\ Forwarded
    BY DEF Init, Queued, Numbered, Forwarded, NoMessage, InHand, Refusing
  <1>4. Room
    <2>1. Own = <<>> /\ Len(<<>>) = 0
      BY DEF Init, Own
    <2> QED
      BY <2>1 DEF Init, Room
  <1> QED
    BY <1>2, <1>3, <1>4 DEF Numbers

(* The decisions of the loop are verdicts.                                 *)
LEMMA VerdictsType ==
    ASSUME verdicts \in Seq(Verdicts)
    PROVE  /\ Append(verdicts, "token") \in Seq(Verdicts)
           /\ Append(verdicts, "vetoed") \in Seq(Verdicts)
           /\ Append(verdicts, "forwarded") \in Seq(Verdicts)
  <1>1. "token" \in Verdicts /\ "vetoed" \in Verdicts /\ "forwarded" \in Verdicts
    BY DEF Verdicts
  <1> QED
    BY <1>1

(* No step leaves the types.                                               *)
LEMMA TypesKept == ASSUME Types, [Next]_vars PROVE Types'
  <1>0. conf.messages \in Nat /\ conf.notices \in Nat
    BY ConfTypes
  <1> USE DEF Types, provider, network, InHand, Refusing
  <1>1. CASE ReadMessage
    <2>1. Head(toProxy) \in Message /\ Tail(toProxy) \in Seq(Message)
      BY <1>1 DEF ReadMessage
    <2> QED
      BY <1>1, <2>1 DEF ReadMessage
  <1>2. CASE ClientClosed \/ CheckToken
    BY <1>2 DEF ClientClosed, CheckToken
  <1>3. CASE RefreshFails \/ Refreshed
    BY <1>3, VerdictsType DEF RefreshFails, Refreshed, Decide
  <1>4. CASE Vet
    BY <1>4, VerdictsType DEF Vet, Decide
  <1>5. CASE Forward
    <2>1. Append(toDB, message) \in Seq(Message)
      OBVIOUS
    <2> QED
      BY <1>5, <2>1, VerdictsType DEF Forward, Decide
  <1>6. ASSUME NEW at, NEW part \in {"error", "ready"}, NEW next \in {"ready", "read"},
               Answer(at, part, next)
        PROVE  Types'
    <2>1. Frame("proxy", message.id, part) \in Frames
      BY DEF Message, Frame, Frames
    <2>2. Append(got, Frame("proxy", message.id, part)) \in Seq(Frames)
      BY <2>1
    <2> QED
      BY <1>6, <2>2 DEF Answer
  <1>7. CASE Copy
    <2>1. Head(fromDB) \in Frames /\ Tail(fromDB) \in Seq(Frames)
      BY <1>7 DEF Copy
    <2>2. Append(got, Head(fromDB)) \in Seq(Frames)
      BY <2>1
    <2> QED
      BY <1>7, <2>1, <2>2 DEF Copy
  <1>8. CASE CopyEnds
    BY <1>8 DEF CopyEnds
  <1>9. CASE Serve
    <2>1. Head(toDB) \in Message /\ Tail(toDB) \in Seq(Message)
      BY <1>9 DEF Serve
    <2>2. Response(Head(toDB).id) \in Seq(Frames)
      BY <2>1, ChunkType DEF Message
    <2> QED
      BY <1>9, <2>1, <2>2 DEF Serve
  <1>10. CASE Notify
    <2>1. Notice \in Seq(Frames)
      BY ChunkType
    <2> QED
      BY <1>0, <1>10, <2>1 DEF Notify
  <1>11. CASE DatabaseCloses
    BY <1>11 DEF DatabaseCloses
  <1>12. ASSUME NEW k \in Kinds, NEW a \in Arrivals, Send(k, a)
         PROVE  Types'
    <2>1. [id |-> sent + 1, kind |-> k, arrives |-> a] \in Message
      BY <1>0 DEF Message
    <2> QED
      BY <1>0, <1>12, <2>1 DEF Send
  <1>13. CASE ClientLeaves \/ TokenExpires \/ AccessRevoked
    BY <1>13 DEF ClientLeaves, TokenExpires, AccessRevoked
  <1>14. CASE Rest \/ UNCHANGED vars
    BY <1>14 DEF Rest, vars
  <1> QED
    BY <1>1, <1>2, <1>3, <1>4, <1>5, <1>6, <1>7, <1>8, <1>9, <1>10, <1>11, <1>12, <1>13, <1>14
       DEF Next, Upstream, Downstream, SendError, SendReady

(* Facts about sequences that the steps below rest on.                     *)
LEMMA TailIs ==
    ASSUME NEW S, NEW s \in Seq(S), s # <<>>
    PROVE  /\ Tail(s) \in Seq(S) /\ Len(Tail(s)) = Len(s) - 1 /\ Len(s) \in Nat \ {0}
           /\ Len(Tail(s)) \in Nat
           /\ Head(s) = s[1] /\ Head(s) \in S
           /\ \A k \in 1 .. Len(Tail(s)) : Tail(s)[k] = s[k + 1] /\ k + 1 \in 1 .. Len(s)
  OBVIOUS

LEMMA AppendIs ==
    ASSUME NEW S, NEW s \in Seq(S), NEW x \in S
    PROVE  /\ Append(s, x) \in Seq(S) /\ Len(Append(s, x)) = Len(s) + 1 /\ Len(s) \in Nat
           /\ Append(s, x)[Len(s) + 1] = x
           /\ \A k \in 1 .. Len(Append(s, x)) :
                 IF k = Len(s) + 1 THEN Append(s, x)[k] = x
                                   ELSE k \in 1 .. Len(s) /\ Append(s, x)[k] = s[k]
  OBVIOUS

LEMMA ConcatIs ==
    ASSUME NEW S, NEW s \in Seq(S), NEW t \in Seq(S)
    PROVE  /\ s \o t \in Seq(S) /\ Len(s \o t) = Len(s) + Len(t) /\ Len(s) \in Nat /\ Len(t) \in Nat
  OBVIOUS

LEMMA ConcatAssociates ==
    ASSUME NEW S, NEW s \in Seq(S), NEW t \in Seq(S), NEW u \in Seq(S)
    PROVE  (s \o t) \o u = s \o (t \o u)
  OBVIOUS

LEMMA OneIs ==
    ASSUME NEW S, NEW s \in Seq(S), Len(s) = 1
    PROVE  s[1] \in S /\ Head(s) = s[1] /\ Tail(s) = <<>>
  <1>1. s # <<>>
    OBVIOUS
  <1>2. s[1] \in S /\ Head(s) = s[1]
    BY <1>1
  <1>3. Tail(s) \in Seq(S) /\ Len(Tail(s)) = 0
    BY <1>1, TailIs
  <1>4. \A t \in Seq(S) : Len(t) = 0 => t = <<>>
    OBVIOUS
  <1> QED
    BY <1>2, <1>3, <1>4

LEMMA HeadMoves ==
    ASSUME NEW S, NEW s \in Seq(S), NEW t \in Seq(S), t # <<>>
    PROVE  Append(s, Head(t)) \o Tail(t) = s \o t
  OBVIOUS

(* The numbers of a session.                                               *)
LEMMA Lengths ==
    ASSUME Types
    PROVE  /\ conf.messages \in Nat /\ conf.notices \in Nat /\ sent \in Nat /\ notices \in Nat
           /\ Len(toProxy) \in Nat /\ Len(toDB) \in Nat /\ Len(verdicts) \in Nat
           /\ Len(got) \in Nat /\ Len(fromDB) \in Nat /\ message.id \in Nat
           /\ \A k \in 1 .. Len(toProxy) : toProxy[k].id \in Nat
           /\ \A k \in 1 .. Len(toDB) : toDB[k].id \in Nat
  <1>1. \A m \in Message : m.id \in Nat
    BY DEF Message
  <1>2. /\ \A k \in 1 .. Len(toProxy) : toProxy[k] \in Message
        /\ \A k \in 1 .. Len(toDB) : toDB[k] \in Message
        /\ message \in Message
    BY DEF Types
  <1> QED
    BY <1>1, <1>2, ConfTypes DEF Types

(* How much the proxy has yet to write.                                    *)
LEMMA OwnLength ==
    ASSUME message.id \in Nat
    PROVE  /\ up = "error" => Len(Own) = 2
           /\ up = "ready" => Len(Own) = 1
           /\ up \notin Refusing => Len(Own) = 0
  BY ChunkType DEF Own, Refusing

(* Messages are numbered as they are sent, and read from the front.        *)
LEMMA QueuedKept == ASSUME Types, Queued, [Next]_vars PROVE Queued'
  <1>0. /\ sent \in Nat /\ Len(toProxy) \in Nat
        /\ \A k \in 1 .. Len(toProxy) : toProxy[k].id \in Nat
    BY Lengths
  <1> USE DEF provider, network
  <1>1. CASE ReadMessage
    <2>1. toProxy' = Tail(toProxy) /\ sent' = sent /\ toProxy # <<>> /\ toProxy \in Seq(Message)
      BY <1>1 DEF ReadMessage, Types
    <2>2. /\ Len(toProxy') = Len(toProxy) - 1
          /\ \A k \in 1 .. Len(toProxy') : toProxy'[k] = toProxy[k + 1] /\ k + 1 \in 1 .. Len(toProxy)
      BY <2>1, TailIs
    <2>3. ASSUME NEW k \in 1 .. Len(toProxy')
          PROVE  toProxy'[k].id + Len(toProxy') = sent' + k
      <3>1. k + 1 \in 1 .. Len(toProxy) /\ k \in Nat /\ toProxy'[k] = toProxy[k + 1]
        BY <1>0, <2>2
      <3>2. toProxy[k + 1].id + Len(toProxy) = sent + (k + 1) /\ toProxy[k + 1].id \in Nat
        BY <1>0, <3>1 DEF Queued
      <3>3. /\ toProxy'[k].id = toProxy[k + 1].id /\ Len(toProxy') = Len(toProxy) - 1 /\ sent' = sent
            /\ toProxy'[k].id \in Nat
        BY <2>1, <2>2, <3>1, <3>2
      <3>4. sent \in Nat /\ Len(toProxy) \in Nat /\ k \in Nat
        BY <1>0, <3>1
      <3>5. toProxy[k + 1].id + (Len(toProxy) - 1) = sent + k
        BY <3>2, <3>4
      <3> QED
        BY <3>3, <3>5
    <2> QED
      BY <2>3 DEF Queued
  <1>2. ASSUME NEW k \in Kinds, NEW a \in Arrivals, Send(k, a)
        PROVE  Queued'
    <2> DEFINE m == [id |-> sent + 1, kind |-> k, arrives |-> a]
    <2>1. m \in Message /\ m.id = sent + 1
      BY <1>0 DEF Message
    <2>2. toProxy' = Append(toProxy, m) /\ sent' = sent + 1 /\ toProxy \in Seq(Message)
      BY <1>2 DEF Send, Types
    <2> HIDE DEF m
    <2>3. /\ Len(toProxy') = Len(toProxy) + 1
          /\ \A j \in 1 .. Len(toProxy') :
                IF j = Len(toProxy) + 1 THEN toProxy'[j] = m
                                        ELSE j \in 1 .. Len(toProxy) /\ toProxy'[j] = toProxy[j]
      BY <2>1, <2>2, AppendIs
    <2>4. ASSUME NEW j \in 1 .. Len(toProxy')
          PROVE  toProxy'[j].id + Len(toProxy') = sent' + j
      <3>1. CASE j = Len(toProxy) + 1
        BY <2>1, <2>2, <2>3, <3>1
      <3>2. CASE j # Len(toProxy) + 1
        <4>1. j \in 1 .. Len(toProxy) /\ toProxy'[j] = toProxy[j]
          BY <2>3, <3>2
        <4>2. toProxy[j].id + Len(toProxy) = sent + j /\ toProxy[j].id \in Nat /\ j \in Nat
          BY <1>0, <4>1 DEF Queued
        <4>3. toProxy'[j].id = toProxy[j].id /\ Len(toProxy') = Len(toProxy) + 1 /\ sent' = sent + 1
          BY <2>2, <2>3, <4>1
        <4>4. sent \in Nat /\ Len(toProxy) \in Nat
          BY <1>0
        <4> QED
          BY <4>2, <4>3, <4>4
      <3> QED
        BY <3>1, <3>2
    <2> QED
      BY <2>4 DEF Queued
  <1>3. CASE UNCHANGED <<sent, toProxy>>
    BY <1>3 DEF Queued
  <1> QED
    BY <1>1, <1>2, <1>3 DEF Next, Upstream, Downstream, ClientClosed, CheckToken, RefreshFails, Refreshed,
       Vet, Forward, SendError, SendReady, Answer, Copy, CopyEnds, Serve, Notify, DatabaseCloses,
       ClientLeaves, TokenExpires, AccessRevoked, Rest, vars

(* The message read is the one after those decided on, since it is the     *)
(* first of the queue; each decision is one message.                       *)
LEMMA NumberedKept == ASSUME Types, Queued, Numbered, [Next]_vars PROVE Numbered'
  <1>0. /\ sent \in Nat /\ Len(toProxy) \in Nat /\ Len(verdicts) \in Nat /\ message.id \in Nat
        /\ \A k \in 1 .. Len(toProxy) : toProxy[k].id \in Nat
    BY Lengths
  <1> USE <1>0 DEF Numbered, provider, network, InHand, Refusing
  <1>1. CASE ReadMessage
    <2>1. toProxy' = Tail(toProxy) /\ sent' = sent /\ toProxy # <<>> /\ toProxy \in Seq(Message)
      BY <1>1 DEF ReadMessage, Types
    <2>2. Len(toProxy') = Len(toProxy) - 1 /\ message' = toProxy[1] /\ 1 \in 1 .. Len(toProxy)
      BY <1>1, <2>1, TailIs DEF ReadMessage
    <2>3. toProxy[1].id + Len(toProxy) = sent + 1 /\ toProxy[1].id \in Nat
      BY <2>2 DEF Queued
    <2> QED
      BY <1>1, <2>1, <2>2, <2>3 DEF ReadMessage
  <1>2. CASE ClientClosed \/ CheckToken \/ Refreshed
    BY <1>2 DEF ClientClosed, CheckToken, Refreshed
  <1>3. CASE RefreshFails \/ (Vet /\ Vetoed)
    <2>1. up \in InHand /\ up' = "error" /\ UNCHANGED <<message, toProxy, sent>>
      BY <1>3 DEF RefreshFails, Vet
    <2>2. PICK v \in {"token", "vetoed"} : verdicts' = Append(verdicts, v)
      BY <1>3 DEF RefreshFails, Vet, Decide
    <2>3. v \in Verdicts /\ verdicts \in Seq(Verdicts)
      BY DEF Verdicts, Types
    <2>4. Len(verdicts') = Len(verdicts) + 1 /\ verdicts'[Len(verdicts) + 1] = v
      BY <2>2, <2>3, AppendIs
    <2>5. /\ Len(verdicts) + Len(toProxy) + 1 = sent /\ message.id = Len(verdicts) + 1
          /\ message'.id = message.id /\ Len(toProxy') = Len(toProxy) /\ sent' = sent /\ v # "forwarded"
      BY <2>1
    <2>6. Len(verdicts') + Len(toProxy') = sent' /\ message'.id = Len(verdicts') /\ message'.id > 0
      BY <2>4, <2>5
    <2>7. verdicts'[message'.id] # "forwarded"
      BY <2>4, <2>5
    <2> QED
      BY <2>1, <2>4, <2>5, <2>6, <2>7
  <1>4. CASE Vet /\ ~ Vetoed
    BY <1>4 DEF Vet
  <1>5. CASE Forward
    <2>1. /\ Len(toProxy') = Len(toProxy) /\ sent' = sent /\ message' = message
          /\ Len(verdicts) + Len(toProxy) + 1 = sent
      BY <1>5 DEF Forward
    <2>2. CASE verdicts' = Append(verdicts, "forwarded") /\ up' = "read"
      <3>1. Len(verdicts') = Len(verdicts) + 1
        BY <2>2 DEF Types
      <3> QED
        BY <2>1, <2>2, <3>1
    <2>3. CASE verdicts' = verdicts /\ up' = "ended"
      BY <2>1, <2>3
    <2> QED
      BY <1>5, <2>2, <2>3 DEF Forward, Decide
  <1>6. CASE SendError \/ SendReady
    BY <1>6 DEF SendError, SendReady, Answer
  <1>7. ASSUME NEW k \in Kinds, NEW a \in Arrivals, Send(k, a)
        PROVE  Numbered'
    <2>1. Len(toProxy') = Len(toProxy) + 1
      BY <1>7 DEF Send, Types
    <2>2. UNCHANGED <<up, verdicts, message>> /\ sent' = sent + 1
      BY <1>7 DEF Send
    <2>3. /\ up' = up /\ Len(verdicts') = Len(verdicts) /\ message'.id = message.id
          /\ verdicts'[message'.id] = verdicts[message.id]
      BY <2>2
    <2>4. /\ Len(verdicts) + Len(toProxy) = sent => Len(verdicts) + (Len(toProxy) + 1) = sent + 1
          /\ Len(verdicts) + Len(toProxy) + 1 = sent => Len(verdicts) + (Len(toProxy) + 1) + 1 = sent + 1
          /\ Len(verdicts) + (Len(toProxy) + 1) <= sent + 1 /\ message.id <= sent + 1
      OBVIOUS
    <2> QED
      BY <2>1, <2>2, <2>3, <2>4
  <1>8. CASE UNCHANGED <<up, verdicts, message, sent, toProxy>>
    BY <1>8
  <1> QED
    BY <1>1, <1>2, <1>3, <1>4, <1>5, <1>6, <1>7, <1>8
       DEF Next, Upstream, Downstream, Copy, CopyEnds, Serve, Notify, DatabaseCloses,
       ClientLeaves, TokenExpires, AccessRevoked, Rest, vars

(* Only the message in hand is forwarded.                                  *)
LEMMA ForwardedKept == ASSUME Types, Numbered, Forwarded, [Next]_vars PROVE Forwarded'
  <1> USE Lengths DEF Forwarded
  <1>1. CASE Forward /\ toDB' # toDB
    <2>1. toDB' = Append(toDB, message) /\ toDB \in Seq(Message) /\ message \in Message /\ message.id > 0
      BY <1>1 DEF Forward, Types, Numbered, InHand
    <2>2. \A j \in 1 .. Len(toDB') : toDB'[j] = message \/ (j \in 1 .. Len(toDB) /\ toDB'[j] = toDB[j])
      BY SMTT(60), <2>1, AppendIs
    <2> QED
      BY <2>1, <2>2
  <1>2. CASE Serve
    <2>1. toDB' = Tail(toDB) /\ toDB # <<>> /\ toDB \in Seq(Message)
      BY <1>2 DEF Serve, Types
    <2>2. \A k \in 1 .. Len(toDB') : toDB'[k] = toDB[k + 1] /\ k + 1 \in 1 .. Len(toDB)
      BY <2>1, TailIs
    <2> QED
      BY <2>2
  <1>3. CASE UNCHANGED toDB
    BY <1>3
  <1> QED
    BY <1>1, <1>2, <1>3 DEF Next, Upstream, Downstream, ReadMessage, ClientClosed, CheckToken, RefreshFails,
       Refreshed, Vet, Forward, SendError, SendReady, Answer, Copy, CopyEnds, Notify, DatabaseCloses, Send,
       ClientLeaves, TokenExpires, AccessRevoked, Rest, vars, provider, network

(* Frames move, and are made three for one message forwarded, two for one  *)
(* refused or for a notice.                                                *)
LEMMA RoomKept == ASSUME Types, Types', Room, [Next]_vars PROVE Room'
  <1>0. /\ Len(toDB) \in Nat /\ Len(verdicts) \in Nat /\ Len(got) \in Nat /\ Len(fromDB) \in Nat /\ notices \in Nat
        /\ Len(toDB') \in Nat /\ Len(verdicts') \in Nat /\ Len(got') \in Nat /\ Len(fromDB') \in Nat /\ notices' \in Nat
    <2>1. Len(toDB') \in Nat /\ Len(verdicts') \in Nat /\ Len(got') \in Nat /\ Len(fromDB') \in Nat /\ notices' \in Nat
      BY SMTT(60), ConfTypes DEF Types
    <2> QED
      BY <2>1, Lengths
  <1>1. /\ up = "error" => Len(Own) = 2
        /\ up = "ready" => Len(Own) = 1
        /\ up \notin Refusing => Len(Own) = 0
        /\ up' = "error" => Len(Own') = 2
        /\ up' = "ready" => Len(Own') = 1
        /\ up' \notin Refusing => Len(Own') = 0
    <2>1. message.id \in Nat /\ message'.id \in Nat
      BY DEF Types, Message
    <2>2. /\ up' = "error" => Len(Own') = 2
          /\ up' = "ready" => Len(Own') = 1
          /\ up' \notin Refusing => Len(Own') = 0
      BY <2>1, ChunkType DEF Own, Refusing
    <2> QED
      BY <2>1, <2>2, OwnLength
  <1> USE DEF Room, Refusing, provider, network
  <1>2. CASE ReadMessage \/ ClientClosed \/ CheckToken \/ Refreshed \/ (Vet /\ ~ Vetoed)
    <2>1. UNCHANGED <<verdicts, toDB, got, fromDB, notices>> /\ up \notin Refusing /\ up' \notin Refusing
      BY <1>2 DEF ReadMessage, ClientClosed, CheckToken, Refreshed, Vet
    <2> QED
      BY <1>0, <1>1, <2>1
  <1>3. CASE RefreshFails \/ (Vet /\ Vetoed)
    <2>1. /\ UNCHANGED <<toDB, got, fromDB, notices>> /\ up \notin Refusing /\ up' = "error"
          /\ Len(verdicts') = Len(verdicts) + 1
      BY <1>3 DEF RefreshFails, Vet, Decide, Types
    <2>2. Len(Own) = 0 /\ Len(Own') = 2
      BY <1>1, <2>1
    <2>3. Len(got') = Len(got) /\ Len(fromDB') = Len(fromDB) /\ Len(toDB') = Len(toDB) /\ notices' = notices
      BY <2>1
    <2> QED
      BY <1>0, <2>1, <2>2, <2>3
  <1>4. CASE Forward
    <2>1. UNCHANGED <<got, fromDB, notices>> /\ up \notin Refusing /\ up' \notin Refusing
      BY <1>4 DEF Forward
    <2>2. \/ Len(verdicts') = Len(verdicts) + 1 /\ Len(toDB') \in {Len(toDB), Len(toDB) + 1}
          \/ UNCHANGED <<verdicts, toDB>>
      BY <1>4 DEF Forward, Decide, Types
    <2> QED
      BY <1>0, <1>1, <2>1, <2>2
  <1>5. CASE SendError \/ SendReady
    <2>1. UNCHANGED <<verdicts, toDB, fromDB, notices>>
      BY <1>5 DEF SendError, SendReady, Answer
    <2>2. Len(got') <= Len(got) + 1 /\ (up' = "ended" => UNCHANGED got \/ up = "ready")
      BY <1>5 DEF SendError, SendReady, Answer, Types
    <2>3. \/ up = "error" /\ up' \in {"ready", "ended"}
          \/ up = "ready" /\ up' \in {"read", "ended"}
      BY <1>5 DEF SendError, SendReady, Answer
    <2>4. Len(toDB') = Len(toDB) /\ Len(fromDB') = Len(fromDB) /\ Len(verdicts') = Len(verdicts) /\ notices' = notices
      BY <2>1
    <2>5. Len(got') + Len(Own') <= Len(got) + Len(Own) /\ Len(Own') \in Nat /\ Len(Own) \in Nat
      <3>1. CASE up = "error" /\ up' = "ready"
        <4>1. Len(Own) = 2 /\ Len(Own') = 1
          BY <1>1, <3>1
        <4> QED
          BY <1>0, <2>2, <4>1
      <3>2. CASE up = "error" /\ up' = "ended"
        <4>1. Len(Own) = 2 /\ Len(Own') = 0
          BY <1>1, <3>2
        <4>2. Len(got') = Len(got)
          BY <2>2, <3>2
        <4> QED
          BY <1>0, <4>1, <4>2
      <3>3. CASE up = "ready"
        <4>1. Len(Own) = 1 /\ Len(Own') = 0
          BY <1>1, <2>3, <3>3
        <4> QED
          BY <1>0, <2>2, <4>1
      <3> QED
        BY <2>3, <3>1, <3>2, <3>3
    <2> QED
      BY <1>0, <2>4, <2>5
  <1>6. CASE Copy
    <2>1. UNCHANGED <<up, message, verdicts, toDB, notices>> /\ Len(got') <= Len(got) + 1 /\ Len(fromDB') = Len(fromDB) - 1
      BY <1>6 DEF Copy, Types
    <2>2. Own' = Own
      BY <2>1 DEF Own
    <2> QED
      BY <1>0, <1>1, <2>1, <2>2
  <1>7. CASE Serve
    <2>1. UNCHANGED <<up, message, verdicts, got, notices>> /\ fromDB \in Seq(Frames)
      BY <1>7 DEF Serve, Types
    <2>2. Head(toDB) \in Message /\ Len(toDB') = Len(toDB) - 1
      BY <1>7, TailIs DEF Serve, Types
    <2>3. Response(Head(toDB).id) \in Seq(Frames) /\ Len(Response(Head(toDB).id)) = 3
      BY <2>2, ChunkType DEF Message
    <2>4. Len(fromDB') = Len(fromDB) + 3
      BY <1>7, <2>1, <2>3, ConcatIs DEF Serve
    <2>5. Own' = Own
      BY <2>1 DEF Own
    <2> QED
      BY <1>0, <1>1, <2>1, <2>2, <2>4, <2>5
  <1>8. CASE Notify
    <2>1. UNCHANGED <<up, message, verdicts, toDB, got>> /\ fromDB \in Seq(Frames) /\ notices' = notices + 1
      BY <1>8 DEF Notify, Types
    <2>2. Len(fromDB') = Len(fromDB) + 2
      <3>1. Notice \in Seq(Frames) /\ Len(Notice) = 2
        BY ChunkType
      <3>2. fromDB' = fromDB \o Notice
        BY <1>8 DEF Notify
      <3> QED
        BY <2>1, <3>1, <3>2, ConcatIs
    <2>3. Own' = Own
      BY <2>1 DEF Own
    <2> QED
      BY <1>0, <1>1, <2>1, <2>2, <2>3
  <1>9. CASE UNCHANGED <<up, message, verdicts, toDB, got, fromDB, notices>>
    BY <1>9 DEF Own
  <1> QED
    BY <1>2, <1>3, <1>4, <1>5, <1>6, <1>7, <1>8, <1>9
       DEF Next, Upstream, Downstream, CopyEnds, DatabaseCloses, Send, Vet,
       ClientLeaves, TokenExpires, AccessRevoked, Rest, vars

-----------------------------------------------------------------------------
(* The streams are frames, and the answers due are those at the client and *)
(* those under way.                                                        *)
LEMMA StreamTypes ==
    ASSUME Types
    PROVE  /\ got \in Seq(Frames) /\ fromDB \in Seq(Frames) /\ got \o fromDB \in Seq(Frames)
           /\ toDB \in Seq(Message) /\ verdicts \in Seq(Verdicts)
           /\ DatabaseAnswers(got) \in Seq(Frames) /\ DatabaseAnswers(fromDB) \in Seq(Frames)
           /\ DatabaseAnswers(got \o fromDB) \in Seq(Frames)
           /\ DatabaseAnswers(got \o fromDB) = DatabaseAnswers(got) \o DatabaseAnswers(fromDB)
           /\ Awaited \in Seq(Frames) /\ Due \in Seq(Frames) /\ All \in Seq(Frames)
  <1>1. /\ got \in Seq(Frames) /\ fromDB \in Seq(Frames)
        /\ toDB \in Seq(Message) /\ verdicts \in Seq(Verdicts)
    BY DEF Types
  <1>2. got \o fromDB \in Seq(Frames)
    BY <1>1, ConcatIs
  <1>3. Awaited \in Seq(Frames)
    BY <1>1, AnswersToType DEF Awaited
  <1>4. All \in Seq(Frames)
    BY <1>1, Readable, ChunksType DEF All
  <1>5. DatabaseAnswers(got \o fromDB) \in Seq(Frames)
    BY <1>2, AnswersType
  <1>6. Due \in Seq(Frames)
    BY <1>3, <1>5, ConcatIs DEF Due
  <1> QED
    BY <1>1, <1>2, <1>3, <1>4, <1>5, <1>6, AnswersType, AnswersConcat

(* What the client has is the beginning of what it is due.                 *)
LEMMA DueIsEnough ==
    ASSUME NEW g \in Seq(Frames), NEW f \in Seq(Frames), NEW w \in Seq(Frames), NEW all \in Seq(Frames),
           IsPrefix(DatabaseAnswers(g \o f) \o w, all)
    PROVE  IsPrefix(DatabaseAnswers(g), all)
  <1> DEFINE D == DatabaseAnswers(g)
             R == DatabaseAnswers(f)
  <1>1. D \in Seq(Frames) /\ R \in Seq(Frames) /\ DatabaseAnswers(g \o f) = D \o R
    BY AnswersType, AnswersConcat
  <1> HIDE DEF D, R
  <1>2. (D \o R) \o w = D \o (R \o w) /\ R \o w \in Seq(Frames)
    <2>1. (D \o R) \o w = D \o (R \o w)
      <3>1. D \in Seq(Frames) /\ R \in Seq(Frames)
        BY <1>1
      <3> QED
        BY SMTT(60), <3>1, ConcatAssociates
    <2>2. R \o w \in Seq(Frames)
      BY <1>1, ConcatIs
    <2> QED
      BY <2>1, <2>2
  <1>3. IsPrefix(D \o (R \o w), all)
    BY <1>1, <1>2
  <1>4. IsPrefix(D, all)
    BY <1>1, <1>2, <1>3, PrefixGrows
  <1> QED
    BY <1>4 DEF D

(* The streams of the next state.                                          *)
LEMMA Primed ==
    /\ Due' = DatabaseAnswers(got' \o fromDB') \o FlattenSeq(AnswersTo(toDB'))
    /\ All' = FlattenSeq(Chunks(verdicts', FALSE))
    /\ Had' = DatabaseAnswers(got')
  BY Readable DEF Due, Had, Awaited, All, DatabaseAnswers, AnswersTo, AnswerTo, Response, Chunks, Chunk, Responses

(* A step that changes neither what is due nor what was forwarded keeps    *)
(* the order.                                                              *)
LEMMA SameOrder ==
    ASSUME Types, Types', InOrder, Due' = Due, All' = All, client' => client, db' => db, ~ client' => got' = got
    PROVE  InOrder'
  <1>1. client' => IsPrefix(Due', All') /\ (db' => Due' = All')
    BY DEF InOrder
  <1>2. CASE client'
    <2>1. IsPrefix(Had, All)'
      <3> DEFINE w == FlattenSeq(AnswersTo(toDB'))
      <3>1. got' \in Seq(Frames) /\ fromDB' \in Seq(Frames) /\ w \in Seq(Frames) /\ All' \in Seq(Frames)
        BY AnswersToType, StreamTypes DEF Types
      <3>2. IsPrefix(DatabaseAnswers(got' \o fromDB') \o w, All')
        BY <1>1, <1>2, Primed
      <3> HIDE DEF w
      <3>3. IsPrefix(DatabaseAnswers(got'), All')
        BY <3>1, <3>2, DueIsEnough
      <3> QED
        BY <3>3, Primed DEF IsPrefix
    <2> QED
      BY <1>1, <2>1 DEF InOrder
  <1>3. CASE ~ client'
    <2>1. Had' = Had
      BY <1>3 DEF Had, DatabaseAnswers
    <2>2. IsPrefix(Had, All)'
      <3>1. IsPrefix(Had, All) /\ All' = All
        BY DEF InOrder
      <3> QED
        BY <2>1, <3>1 DEF IsPrefix
    <2> QED
      BY <1>3, <2>2 DEF InOrder
  <1> QED
    BY <1>2, <1>3

(* At the beginning nothing is due.                                        *)
LEMMA OrderBegins == Init => InOrder
  <1> SUFFICES ASSUME Init PROVE InOrder
    OBVIOUS
  <1>1. DatabaseAnswers(<<>>) = <<>> /\ AnswersTo(<<>>) = <<>> /\ Chunks(<<>>, FALSE) = <<>>
    BY FlattenEmpty DEF DatabaseAnswers, AnswersTo, Chunks
  <1>2. All = <<>>
    BY <1>1, Readable, FlattenEmpty DEF Init, All
  <1>3. Due = <<>>
    <2>1. got \o fromDB = <<>> /\ toDB = <<>>
      BY DEF Init
    <2> QED
      BY <1>1, <2>1, FlattenEmpty DEF Due, Awaited
  <1> QED
    BY <1>1, <1>2, <1>3 DEF Init, InOrder, Had, IsPrefix

(* A message forwarded adds its answer to what is due and to what there is *)
(* to answer, at the end of both; the database and the copying goroutine   *)
(* move answers on without reordering them; the proxy's own frames and the *)
(* notices are not counted.                                                *)
LEMMA OrderKept == ASSUME Types, Types', Numbers, InOrder, [Next]_vars PROVE InOrder'
  <1> USE DEF provider, network
  <1>a. /\ got \in Seq(Frames) /\ fromDB \in Seq(Frames) /\ got \o fromDB \in Seq(Frames)
        /\ toDB \in Seq(Message) /\ verdicts \in Seq(Verdicts) /\ message \in Message
        /\ Due \in Seq(Frames) /\ All \in Seq(Frames) /\ Had \in Seq(Frames)
        /\ Awaited \in Seq(Frames) /\ DatabaseAnswers(got \o fromDB) \in Seq(Frames)
    BY StreamTypes DEF Types, Had
  <1>b. ASSUME UNCHANGED <<got, fromDB, toDB>>
        PROVE  Due' = Due
    BY <1>b, Primed DEF Due, Awaited
  <1>c. ASSUME UNCHANGED verdicts
        PROVE  All' = All
    BY <1>c, Primed, Readable DEF All
  <1>1. CASE RefreshFails \/ (Vet /\ Vetoed)
    <2>1. UNCHANGED <<got, fromDB, toDB, client, db>>
      BY <1>1 DEF RefreshFails, Vet
    <2>2. PICK v \in {"token", "vetoed"} : verdicts' = Append(verdicts, v)
      BY <1>1 DEF RefreshFails, Vet, Decide
    <2>3. v \in Verdicts /\ Chunk(v, Len(verdicts) + 1, FALSE) = <<>>
      BY DEF Verdicts, Chunk
    <2>4. All' = All \o <<>>
      BY <1>a, <2>2, <2>3, ChunksAppend, Primed, Readable DEF All
    <2>5. All' = All
      BY <1>a, <2>4
    <2> QED
      BY <1>b, <2>1, <2>5, SameOrder
  <1>2. CASE Forward /\ verdicts' = Append(verdicts, "forwarded")
    <2> DEFINE R == Response(message.id)
    <2>1. UNCHANGED <<got, fromDB, client, db>> /\ toDB' = IF db THEN Append(toDB, message) ELSE toDB
      BY <1>2, AppendIs DEF Forward, Types
    <2>2. message.id = Len(verdicts) + 1 /\ R \in Seq(Frames)
      BY <1>2, Lengths, ChunkType DEF Forward, Numbers, Numbered, InHand
    <2>3. "forwarded" \in Verdicts /\ Chunk("forwarded", Len(verdicts) + 1, FALSE) = R
      BY <2>2 DEF Verdicts, Chunk
    <2>4. All' = All \o R
      BY <1>2, <1>a, <2>3, ChunksAppend, Primed, Readable DEF All
    <2>5. db => Due' = Due \o R
      <3> SUFFICES ASSUME db PROVE Due' = Due \o R
        OBVIOUS
      <3>1. toDB' = toDB \o <<message>> /\ <<message>> \in Seq(Message)
        BY <1>a, <2>1
      <3>2. FlattenSeq(AnswersTo(toDB')) = Awaited \o R
        BY <1>a, <3>1, AnswersToConcat, AnswersToOne DEF Awaited
      <3>3. Due' = DatabaseAnswers(got \o fromDB) \o (Awaited \o R)
        BY <2>1, <3>2, Primed
      <3>4. DatabaseAnswers(got \o fromDB) \o (Awaited \o R) = (DatabaseAnswers(got \o fromDB) \o Awaited) \o R
        <4> DEFINE A == DatabaseAnswers(got \o fromDB)
        <4>1. A \in Seq(Frames) /\ Awaited \in Seq(Frames) /\ R \in Seq(Frames)
          BY <1>a, <2>2
        <4> HIDE DEF A, R
        <4> QED
          BY <4>1, ConcatAssociates
      <3> QED
        BY <3>3, <3>4 DEF Due
    <2>6. ~ db => Due' = Due
      BY <1>b, <2>1
    <2>7. Had' = Had
      BY <2>1 DEF Had, DatabaseAnswers
    <2> HIDE DEF R
    <2>8. IsPrefix(Had, All)'
      <3>1. IsPrefix(Had, All \o R)
        BY <1>a, <2>2, PrefixGrows DEF InOrder
      <3> QED
        BY <2>4, <2>7, <3>1 DEF IsPrefix
    <2>9. client' => IsPrefix(Due, All)' /\ (db' => Due' = All')
      <3> SUFFICES ASSUME client PROVE IsPrefix(Due, All)' /\ (db => Due' = All')
        BY <2>1
      <3>1. CASE db
        <4>1. Due' = All'
          BY <2>4, <2>5, <3>1 DEF InOrder
        <4> QED
          BY <1>a, <2>2, <2>4, <4>1, ConcatIs, PrefixGrows DEF IsPrefix
      <3>2. CASE ~ db
        <4>1. IsPrefix(Due, All \o R)
          BY <1>a, <2>2, PrefixGrows DEF InOrder
        <4> QED
          BY <2>4, <2>6, <3>2, <4>1 DEF IsPrefix
      <3> QED
        BY <3>1, <3>2
    <2> QED
      BY <2>8, <2>9 DEF InOrder
  <1>3. ASSUME NEW at, NEW part \in {"error", "ready"}, NEW next, Answer(at, part, next)
        PROVE  InOrder'
    <2>1. UNCHANGED <<fromDB, toDB, verdicts, client, db>>
      BY <1>3 DEF Answer
    <2>2. CASE client
      <3> DEFINE x == Frame("proxy", message.id, part)
      <3>1. x \in Frames /\ Chosen(x) = <<>>
        BY <1>a DEF Frame, Frames, Message, Chosen
      <3>2. got' = Append(got, x)
        BY <1>3, <2>2 DEF Answer
      <3> HIDE DEF x
      <3>3. got' = got \o <<x>> /\ <<x>> \in Seq(Frames)
        <4>1. got \in Seq(Frames) /\ Append(got, x) = got \o <<x>>
          BY <1>a, <3>1
        <4> QED
          BY <3>1, <3>2, <4>1
      <3>4. DatabaseAnswers(got') = DatabaseAnswers(got)
        <4>1. DatabaseAnswers(got \o <<x>>) = DatabaseAnswers(got) \o DatabaseAnswers(<<x>>)
          BY <1>a, <3>3, AnswersConcat
        <4>2. DatabaseAnswers(<<x>>) = <<>> /\ DatabaseAnswers(got) \in Seq(Frames)
          BY <1>a, <3>1, AnswersOne, AnswersType
        <4> QED
          <5>1. DatabaseAnswers(got) \o <<>> = DatabaseAnswers(got)
            BY <4>2
          <5> QED
            BY <3>3, <4>1, <4>2, <5>1
      <3>5. DatabaseAnswers(got' \o fromDB) = DatabaseAnswers(got \o fromDB)
        <4>1. got' \in Seq(Frames)
          BY DEF Types
        <4>2. DatabaseAnswers(got' \o fromDB) = DatabaseAnswers(got') \o DatabaseAnswers(fromDB)
          BY <1>a, <4>1, AnswersConcat
        <4>3. DatabaseAnswers(got \o fromDB) = DatabaseAnswers(got) \o DatabaseAnswers(fromDB)
          BY <1>a, AnswersConcat
        <4> QED
          BY <3>4, <4>2, <4>3
      <3>6. Due' = Due
        BY <2>1, <3>5, Primed DEF Due, Awaited
      <3> QED
        BY <1>c, <2>1, <2>2, <3>6, SameOrder
    <2>3. CASE ~ client
      <3>1. got' = got
        BY <1>3, <2>3 DEF Answer
      <3> QED
        BY <1>b, <1>c, <2>1, <3>1, SameOrder
    <2> QED
      BY <2>2, <2>3
  <1>4. CASE Copy
    <2>1. UNCHANGED <<toDB, verdicts, client, db>> /\ fromDB # <<>>
      BY <1>4 DEF Copy
    <2>2. CASE client
      <3>1. got' = Append(got, Head(fromDB)) /\ fromDB' = Tail(fromDB)
        BY <1>4, <2>2 DEF Copy
      <3>2. got' \o fromDB' = got \o fromDB
        BY <1>a, <2>1, <3>1, HeadMoves
      <3>3. Due' = Due
        BY <2>1, <3>2, Primed DEF Due, Awaited
      <3> QED
        BY <1>c, <2>1, <2>2, <3>3, SameOrder
    <2>3. CASE ~ client
      <3>1. got' = got
        BY <1>4, <2>3 DEF Copy
      <3>2. Had' = Had /\ All' = All
        BY <1>c, <2>1, <3>1 DEF Had, DatabaseAnswers
      <3>3. IsPrefix(Had, All)'
        <4>1. IsPrefix(Had, All)
          BY DEF InOrder
        <4> QED
          BY <3>2, <4>1 DEF IsPrefix
      <3> QED
        BY <2>1, <2>3, <3>3 DEF InOrder
    <2> QED
      BY <2>2, <2>3
  <1>5. CASE Serve
    <2>1. UNCHANGED <<got, verdicts, client, db>> /\ toDB # <<>> /\ toDB' = Tail(toDB)
          /\ fromDB' = fromDB \o Response(Head(toDB).id)
      BY <1>5 DEF Serve
    <2> DEFINE m == Head(toDB)
               R == Response(m.id)
               T == Tail(toDB)
    <2>2. /\ m \in Message /\ T \in Seq(Message) /\ <<m>> \in Seq(Message) /\ toDB = <<m>> \o T
          /\ m.id \in Nat \ {0}
      <3>1. m \in Message /\ T \in Seq(Message) /\ toDB = <<m>> \o T
        BY <1>a, <2>1
      <3>2. m.id > 0 /\ m.id \in Nat
        <4>1. m = toDB[1] /\ 1 \in 1 .. Len(toDB)
          BY <1>a, <2>1, TailIs
        <4> QED
          BY <3>1, <4>1 DEF Numbers, Forwarded, Message
      <3> QED
        BY <3>1, <3>2
    <2>3. R \in Seq(Frames) /\ DatabaseAnswers(R) = R
      BY <2>2, ChunkType, AnswersOfResponse
    <2> HIDE DEF m, R, T
    <2>4. Awaited = R \o FlattenSeq(AnswersTo(T)) /\ FlattenSeq(AnswersTo(T)) \in Seq(Frames)
      BY <2>2, AnswersToConcat, AnswersToOne, AnswersToType DEF Awaited, R
    <2>5. got' \o fromDB' = (got \o fromDB) \o R
      <3>1. got \o (fromDB \o R) = (got \o fromDB) \o R
        <4>1. got \in Seq(Frames) /\ fromDB \in Seq(Frames)
          BY <1>a
        <4> QED
          BY <2>3, <4>1, ConcatAssociates
      <3>2. got' = got /\ fromDB' = fromDB \o R
        BY <2>1 DEF R, m
      <3> QED
        BY <3>1, <3>2
    <2>6. DatabaseAnswers(got' \o fromDB') = DatabaseAnswers(got \o fromDB) \o R
      <3>1. DatabaseAnswers((got \o fromDB) \o R) = DatabaseAnswers(got \o fromDB) \o DatabaseAnswers(R)
        BY <1>a, <2>3, AnswersConcat
      <3> QED
        BY <2>3, <2>5, <3>1
    <2>7. Due' = (DatabaseAnswers(got \o fromDB) \o R) \o FlattenSeq(AnswersTo(T))
      BY <2>1, <2>6, Primed DEF T
    <2>8. Due' = Due
      <3> DEFINE A == DatabaseAnswers(got \o fromDB)
                 B == FlattenSeq(AnswersTo(T))
      <3>1. A \in Seq(Frames) /\ B \in Seq(Frames) /\ R \in Seq(Frames)
        BY <1>a, <2>3, <2>4
      <3>2. Due = A \o (R \o B) /\ Due' = (A \o R) \o B
        BY <2>4, <2>7 DEF Due
      <3> HIDE DEF A, B
      <3> QED
        BY <3>1, <3>2, ConcatAssociates
    <2> QED
      BY <1>c, <2>1, <2>8, SameOrder
  <1>6. CASE Notify
    <2>1. UNCHANGED <<got, verdicts, client, db, toDB>> /\ fromDB' = fromDB \o Notice
      BY <1>6 DEF Notify
    <2>2. Notice \in Seq(Frames) /\ DatabaseAnswers(Notice) = <<>>
      BY ChunkType, AnswersOfNotice
    <2>3. got' \o fromDB' = (got \o fromDB) \o Notice
      <3>1. got \o (fromDB \o Notice) = (got \o fromDB) \o Notice
        <4>1. got \in Seq(Frames) /\ fromDB \in Seq(Frames)
          BY <1>a
        <4> QED
          BY <2>2, <4>1, ConcatAssociates
      <3> QED
        BY <2>1, <3>1
    <2>4. DatabaseAnswers(got' \o fromDB') = DatabaseAnswers(got \o fromDB)
      <3>1. DatabaseAnswers((got \o fromDB) \o Notice) = DatabaseAnswers(got \o fromDB) \o <<>>
        <4>1. got \o fromDB \in Seq(Frames)
          BY <1>a
        <4> QED
          BY <2>2, <4>1, AnswersConcat
      <3> QED
        BY <1>a, <2>3, <3>1
    <2>5. Due' = Due
      BY <2>1, <2>4, Primed DEF Due, Awaited
    <2> QED
      BY <1>c, <2>1, <2>5, SameOrder
  <1>7. CASE UNCHANGED <<got, fromDB, toDB, verdicts>> /\ (client' => client) /\ (db' => db)
    BY <1>7, <1>b, <1>c, SameOrder
  <1>8. CASE ReadMessage \/ ClientClosed \/ CheckToken \/ Refreshed \/ (Vet /\ ~ Vetoed)
    BY <1>7, <1>8 DEF ReadMessage, ClientClosed, CheckToken, Refreshed, Vet
  <1>9. CASE Forward /\ UNCHANGED verdicts
    <2>1. UNCHANGED <<got, fromDB, toDB, client, db>>
      BY <1>9, AppendIs DEF Forward, Decide, Types
    <2> QED
      BY <1>7, <1>9, <2>1
  <1>10. CASE CopyEnds \/ DatabaseCloses \/ (\E k \in Kinds, a \in Arrivals : Send(k, a))
              \/ ClientLeaves \/ TokenExpires \/ AccessRevoked \/ Rest \/ UNCHANGED vars
    <2>1. CASE CopyEnds \/ DatabaseCloses
      BY <1>7, <2>1 DEF CopyEnds, DatabaseCloses
    <2>2. CASE \E k \in Kinds, a \in Arrivals : Send(k, a)
      BY <1>7, <2>2 DEF Send
    <2>3. CASE ClientLeaves \/ TokenExpires \/ AccessRevoked
      BY <1>7, <2>3 DEF ClientLeaves, TokenExpires, AccessRevoked
    <2>4. CASE Rest \/ UNCHANGED vars
      BY <1>7, <2>4 DEF Rest, vars
    <2> QED
      BY <1>10, <2>1, <2>2, <2>3, <2>4
  <1>11. Forward => (verdicts' = Append(verdicts, "forwarded") \/ UNCHANGED verdicts)
    BY DEF Forward, Decide
  <1>12. SendError \/ SendReady => InOrder'
    BY <1>3 DEF SendError, SendReady
  <1>13. Upstream => InOrder'
    BY <1>1, <1>2, <1>8, <1>9, <1>11, <1>12 DEF Upstream
  <1>14. Downstream => InOrder'
    BY <1>4, <1>10 DEF Downstream
  <1>15. Next => InOrder'
    BY <1>5, <1>6, <1>10, <1>13, <1>14, Zenon DEF Next
  <1>16. UNCHANGED vars => InOrder'
    BY <1>10
  <1> QED
    BY <1>15, <1>16

-----------------------------------------------------------------------------
(* How many messages were answered.                                        *)
ReadiesIn(g) == Cardinality({i \in DOMAIN g : g[i].part = "ready"})

(* One more frame is one more answer if it is a ReadyForQuery.             *)
LEMMA ReadiesCount ==
    ASSUME NEW g \in Seq(Frames), NEW x \in Frames
    PROVE  /\ ReadiesIn(g) \in Nat
           /\ ReadiesIn(Append(g, x)) = IF x.part = "ready" THEN ReadiesIn(g) + 1 ELSE ReadiesIn(g)
  <1> DEFINE N == Len(g)
             A == {i \in DOMAIN g : g[i].part = "ready"}
             B == {i \in DOMAIN Append(g, x) : Append(g, x)[i].part = "ready"}
  <1>1. A \subseteq 1 .. N /\ N \in Nat
    OBVIOUS
  <1>2. IsFiniteSet(A)
    <2>1. IsFiniteSet(1 .. N)
      BY <1>1, FS_Interval
    <2> QED
      BY <1>1, <2>1, FS_Subset
  <1>3. Cardinality(A) \in Nat
    BY <1>2, FS_CardinalityType
  <1>4. /\ DOMAIN Append(g, x) = 1 .. N + 1 /\ Append(g, x)[N + 1] = x
        /\ \A i \in 1 .. N : Append(g, x)[i] = g[i]
    OBVIOUS
  <1>5. CASE x.part = "ready"
    <2>1. B = A \cup {N + 1} /\ N + 1 \notin A
      BY <1>1, <1>4, <1>5
    <2>2. Cardinality(B) = Cardinality(A) + 1
      BY <1>2, <2>1, FS_AddElement
    <2> QED
      BY <1>3, <1>5, <2>2 DEF ReadiesIn
  <1>6. CASE x.part # "ready"
    <2>1. B = A
      BY <1>1, <1>4, <1>6
    <2> QED
      BY <1>3, <1>6, <2>1 DEF ReadiesIn
  <1> QED
    BY <1>5, <1>6

(* The count of the module.                                                *)
LEMMA Counted ==
    ASSUME Types
    PROVE  Readies = ReadiesIn(got) /\ Readies \in Nat
  <1>1. Readies = ReadiesIn(got)
    BY DEF Readies, ReadiesIn
  <1>2. Frame("db", 0, "first") \in Frames
    BY DEF Frame, Frames
  <1> QED
    BY <1>1, <1>2, ReadiesCount DEF Types

(* The whole answers are frames.                                           *)
LEMMA WholeTypes ==
    ASSUME Types
    PROVE  Whole \in Seq(Frames) /\ Whole = FlattenSeq(Chunks(verdicts, TRUE))
  BY Readable, ChunksType DEF Types, Whole

(* Those of the next state.                                                *)
LEMMA PrimedWhole ==
    /\ Whole' = FlattenSeq(Chunks(verdicts', TRUE))
    /\ Readies' = ReadiesIn(got')
  BY Readable DEF Whole, Readies, ReadiesIn, WholeAnswer, Chunks, Chunk, Response, Refusal, Frame

(* The whole answers only grow.                                            *)
LEMMA WholeGrows ==
    ASSUME Types, Types', [Next]_vars
    PROVE  \E u \in Seq(Frames) : Whole' = Whole \o u
  <1>1. Whole \in Seq(Frames) /\ verdicts \in Seq(Verdicts)
    BY WholeTypes DEF Types
  <1>2. CASE UNCHANGED verdicts
    <2>1. Whole' = Whole \o <<>> /\ <<>> \in Seq(Frames)
      BY <1>1, <1>2, PrimedWhole, WholeTypes
    <2> QED
      BY <2>1
  <1>3. ASSUME NEW v \in Verdicts, verdicts' = Append(verdicts, v)
        PROVE  \E u \in Seq(Frames) : Whole' = Whole \o u
    <2>1. Whole' = Whole \o Chunk(v, Len(verdicts) + 1, TRUE)
      BY <1>1, <1>3, PrimedWhole, WholeTypes, ChunksAppend
    <2>2. Chunk(v, Len(verdicts) + 1, TRUE) \in Seq(Frames)
      BY <1>1, ChunkType DEF Chunk
    <2> QED
      BY <2>1, <2>2
  <1>4. UNCHANGED verdicts \/ \E v \in Verdicts : verdicts' = Append(verdicts, v)
    <2> USE DEF provider, network
    <2>1. CASE Upstream
      BY <2>1 DEF Upstream, ReadMessage, ClientClosed, CheckToken, RefreshFails, Refreshed, Vet, Forward,
                  SendError, SendReady, Answer, Decide, Verdicts
    <2>2. CASE Downstream \/ Serve \/ Notify \/ DatabaseCloses
      BY <2>2 DEF Downstream, Copy, CopyEnds, Serve, Notify, DatabaseCloses
    <2>3. CASE \E k \in Kinds, a \in Arrivals : Send(k, a)
      BY <2>3 DEF Send
    <2>4. CASE ClientLeaves \/ TokenExpires \/ AccessRevoked \/ Rest \/ UNCHANGED vars
      BY <2>4 DEF ClientLeaves, TokenExpires, AccessRevoked, Rest, vars
    <2> QED
      BY <2>1, <2>2, <2>3, <2>4, Zenon DEF Next
  <1> QED
    BY <1>2, <1>3, <1>4

(* What is missing at the end makes a beginning.                           *)
LEMMA PhasesPrefix ==
    ASSUME NEW g \in Seq(Frames), NEW rest \in Seq(Frames), NEW all, g \o rest = all
    PROVE  IsPrefix(g, all)
  BY PrefixGrows

(* In each phase the client has a beginning of them.                       *)
LEMMA PhasesAreWhole ==
    ASSUME Types', Phases'
    PROVE  IsPrefix(got', Whole')
  <1>0. got' \in Seq(Frames) /\ fromDB' \in Seq(Frames) /\ message'.id \in Nat /\ toDB' \in Seq(Message)
    BY DEF Types, Message
  <1>1. Whole' \in Seq(Frames)
    <2>1. verdicts' \in Seq(Verdicts)
      BY DEF Types
    <2> QED
      BY <2>1, PrimedWhole, ChunksType
  <1>2. Answered' \/ Asked' \/ Denied' \/ Served' \/ Delivered' \/ Lost'
    BY DEF Phases
  <1>3. CASE got' = Whole'
    BY <1>1, <1>3, PrefixGrows
  <1>4. CASE Denied'
    <2>1. Own' \in Seq(Frames) /\ got' \o Own' = Whole'
      <3>1. /\ up' = "error" => Own' = Refusal(message'.id)
            /\ up' = "ready" => Own' = Tail(Refusal(message'.id))
        BY DEF Own, Refusal, Frame
      <3>2. got' \o Own' = Whole' /\ up' \in {"error", "ready"}
        BY <1>4 DEF Denied, Refusing
      <3> QED
        BY <1>0, <3>1, <3>2, ChunkType
    <2> QED
      BY <1>0, <1>1, <2>1, PhasesPrefix
  <1>5. CASE Served'
    <2>1. Len(toDB') = 1 /\ got' \o Response(toDB'[1].id) = Whole'
      BY <1>5 DEF Served, Response, Frame
    <2>2. toDB'[1] \in Message
      BY <1>0, <2>1, OneIs
    <2>3. Response(toDB'[1].id) \in Seq(Frames)
      BY <2>2, ChunkType DEF Message
    <2> QED
      BY <1>0, <1>1, <2>1, <2>3, PhasesPrefix
  <1>6. CASE Delivered'
    <2>1. got' \o fromDB' = Whole'
      BY <1>6 DEF Delivered
    <2> QED
      BY <1>0, <1>1, <2>1, PhasesPrefix
  <1>7. CASE Lost'
    BY <1>7 DEF Lost, IsPrefix
  <1> QED
    BY <1>2, <1>3, <1>4, <1>5, <1>6, <1>7 DEF Answered, Asked

(* A session begins answered.                                              *)
LEMMA LockStepBegins == Init => LockStep
  <1> SUFFICES ASSUME Init PROVE LockStep
    OBVIOUS
  <1>1. Chunks(<<>>, TRUE) = <<>>
    BY DEF Chunks
  <1>2. Whole = <<>>
    BY <1>1, Readable, FlattenEmpty DEF Init, Whole
  <1>3. Readies = 0
    <2>1. {i \in DOMAIN <<>> : got[i].part = "ready"} = {}
      OBVIOUS
    <2> QED
      BY <2>1, FS_EmptySet DEF Init, Readies
  <1> QED
    BY <1>2, <1>3 DEF Init, LockStep, Phases, Answered, Silent, IsPrefix

(* A step that changes nothing of a phase stays in it.                     *)
LEMMA SamePhase ==
    ASSUME Types, UNCHANGED <<up, verdicts, message, sent, toProxy, toDB, fromDB, got>>
    PROVE  Phases <=> Phases'
  <1>1. Whole' = Whole
    BY PrimedWhole, WholeTypes
  <1>2. Readies' = Readies
    BY PrimedWhole, Counted
  <1>3. Own' = Own
    BY DEF Own
  <1> QED
    BY <1>1, <1>2, <1>3 DEF Phases, Silent, Answered, Asked, Denied, Served, Delivered, Lost, IsPrefix

(* A step goes from a phase to itself or to the next. The client sends     *)
(* only when it has its ReadyForQuery, so nothing is under way then; and   *)
(* from the read of the message to its answer each writer waits for the    *)
(* other: the database has nothing to say before the message is forwarded, *)
(* the proxy nothing after it.                                             *)
LEMMA PhasesKept ==
    ASSUME Types, Types', Numbers, Calm, client, client', Phases, [Next]_vars
    PROVE  Phases'
  <1> USE DEF provider, network
  <1>a. /\ got \in Seq(Frames) /\ fromDB \in Seq(Frames) /\ toDB \in Seq(Message) /\ toProxy \in Seq(Message)
        /\ verdicts \in Seq(Verdicts) /\ message \in Message /\ message.id \in Nat
        /\ Whole \in Seq(Frames) /\ Readies \in Nat /\ sent \in Nat /\ Len(verdicts) \in Nat
    BY WholeTypes, Counted, Lengths DEF Types
  <1>b. ASSUME UNCHANGED got
        PROVE  Readies' = Readies
    BY <1>b, PrimedWhole, Counted
  <1>c. ASSUME UNCHANGED verdicts
        PROVE  Whole' = Whole
    BY <1>c, PrimedWhole, WholeTypes
  <1>d. ASSUME up \in InHand
        PROVE  Asked /\ got = Whole /\ toProxy = <<>> /\ toDB = <<>> /\ fromDB = <<>> /\ Readies + 1 = sent
    BY <1>d DEF Phases, Silent, Answered, Asked, Denied, Served, Delivered, Lost, InHand, Refusing
  <1>1. CASE ReadMessage
    <2>1. UNCHANGED <<got, verdicts, sent, toDB, fromDB>> /\ up = "read" /\ toProxy # <<>> /\ toProxy' = Tail(toProxy)
      BY <1>1 DEF ReadMessage
    <2>2. up' \in {"check", "ended", "crashed"}
      BY <1>1 DEF ReadMessage
    <2>3. Asked
      BY <2>1 DEF Phases, Silent, Answered, Denied, Served, Delivered, Lost
    <2>4. toProxy' = <<>>
      <3>1. Len(toProxy) = 1
        BY <2>1, <2>3 DEF Asked
      <3> QED
        BY <1>a, <2>1, <3>1
    <2>5. CASE up' = "check"
      <3>1. Asked'
        BY <1>b, <1>c, <2>1, <2>3, <2>4, <2>5 DEF Asked, InHand
      <3> QED
        BY <3>1 DEF Phases
    <2>6. CASE up' # "check"
      <3>1. IsPrefix(got, Whole)
        BY <1>a, <2>3, PrefixGrows DEF Asked
      <3>2. Lost'
        BY <1>b, <1>c, <2>1, <2>2, <2>3, <2>4, <2>6, <3>1 DEF Asked, Lost, Silent, IsPrefix
      <3> QED
        BY <3>2 DEF Phases
    <2> QED
      BY <2>5, <2>6
  <1>2. CASE CheckToken \/ Refreshed \/ (Vet /\ ~ Vetoed)
    <2>1. UNCHANGED <<got, verdicts, sent, toProxy, toDB, fromDB>> /\ up \in InHand /\ up' \in InHand
      BY <1>2 DEF CheckToken, Refreshed, Vet, InHand
    <2>2. Asked'
      BY <1>b, <1>c, <1>d, <2>1 DEF Asked
    <2> QED
      BY <2>2 DEF Phases
  <1>3. CASE RefreshFails \/ (Vet /\ Vetoed)
    <2>1. UNCHANGED <<got, sent, message, toProxy, toDB, fromDB>> /\ up \in InHand /\ up' = "error"
      BY <1>3 DEF RefreshFails, Vet, InHand
    <2>2. PICK v \in {"token", "vetoed"} : verdicts' = Append(verdicts, v)
      BY <1>3 DEF RefreshFails, Vet, Decide
    <2>3. message.id = Len(verdicts) + 1
      BY <2>1 DEF Numbers, Numbered
    <2>4. v \in Verdicts /\ Chunk(v, Len(verdicts) + 1, TRUE) = Refusal(message.id)
      BY <2>3 DEF Verdicts, Chunk
    <2>5. Whole' = Whole \o Refusal(message.id)
      BY <1>a, <2>2, <2>4, PrimedWhole, WholeTypes, ChunksAppend
    <2>6. Own' = Refusal(message.id)
      BY <2>1 DEF Own, Refusal, Frame
    <2>7. Denied'
      BY <1>b, <1>d, <2>1, <2>5, <2>6 DEF Denied, Silent, Refusing
    <2> QED
      BY <2>7 DEF Phases
  <1>4. CASE Forward
    <2>1. UNCHANGED <<got, sent, message, toProxy, fromDB>> /\ up \in InHand
      BY <1>4 DEF Forward, InHand
    <2>2. message.id = Len(verdicts) + 1
      BY <2>1 DEF Numbers, Numbered
    <2>3. "forwarded" \in Verdicts /\ Chunk("forwarded", Len(verdicts) + 1, TRUE) = Response(message.id)
      BY <2>2 DEF Verdicts, Chunk
    <2>4. CASE verdicts' = Append(verdicts, "forwarded") /\ up' = "read"
      <3>1. Whole' = Whole \o Response(message.id) /\ Response(message.id) \in Seq(Frames)
        BY <1>a, <2>3, <2>4, PrimedWhole, WholeTypes, ChunksAppend, ChunkType
      <3>2. CASE db
        <4>1. toDB' = <<message>>
          BY <1>4, <1>a, <1>d, <2>1, <2>4, <3>2 DEF Forward, Decide
        <4>2. Len(toDB') = 1 /\ toDB'[1] = message
          BY <4>1
        <4>3. got' \o Response(toDB'[1].id) = Whole'
          BY <1>d, <2>1, <3>1, <4>2
        <4>4. Served'
          BY <1>b, <1>d, <2>1, <2>4, <4>2, <4>3 DEF Served, Response, Frame
        <4> QED
          BY <4>4 DEF Phases
      <3>3. CASE ~ db
        <4>1. toDB' = <<>>
          BY <1>4, <1>d, <2>1, <3>3 DEF Forward
        <4>2. IsPrefix(got, Whole \o Response(message.id))
          BY <1>a, <1>d, <2>1, <3>1, PrefixGrows
        <4>3. Lost'
          BY <1>b, <1>d, <2>1, <2>4, <3>1, <4>1, <4>2 DEF Lost, Silent, IsPrefix
        <4> QED
          BY <4>3 DEF Phases
      <3> QED
        BY <3>2, <3>3
    <2>5. CASE verdicts' = verdicts /\ toDB' = toDB /\ up' = "ended"
      <3>1. IsPrefix(got, Whole)
        BY <1>a, <1>d, <2>1, PrefixGrows
      <3>2. Lost'
        BY <1>b, <1>c, <1>d, <2>1, <2>5, <3>1 DEF Lost, Silent, IsPrefix
      <3> QED
        BY <3>2 DEF Phases
    <2> QED
      BY <1>4, <2>4, <2>5 DEF Forward, Decide
  <1>5. CASE SendError \/ SendReady
    <2> DEFINE e == Frame("proxy", message.id, "error")
               r == Frame("proxy", message.id, "ready")
    <2>1. /\ e \in Frames /\ e.part = "error" /\ r \in Frames /\ r.part = "ready"
          /\ Refusal(message.id) = <<e, r>>
      BY <1>a DEF Frame, Frames, Refusal
    <2>2. UNCHANGED <<verdicts, sent, message, toProxy, toDB, fromDB>> /\ up \in Refusing
      BY <1>5 DEF SendError, SendReady, Answer, Refusing
    <2>3. Denied
      BY <2>2 DEF Phases, Silent, Answered, Asked, Served, Delivered, Lost, InHand, Refusing
    <2>4. CASE SendError
      <3>1. up = "error" /\ up' = "ready" /\ got' = Append(got, e)
        BY <2>4 DEF SendError, Answer
      <3>2. Own = <<e, r>>
        BY <2>1, <3>1 DEF Own
      <3>3. Own' = <<r>>
        <4>1. Own' = Tail(Refusal(message.id))
          BY <2>2, <3>1 DEF Own, Refusal, Frame
        <4> HIDE DEF e, r
        <4> QED
          BY <2>1, <4>1
      <3> HIDE DEF e, r
      <3>4. got' \o Own' = got \o Own
        BY <1>a, <2>1, <3>1, <3>2, <3>3
      <3>5. Readies' = Readies
        BY <1>a, <2>1, <3>1, PrimedWhole, Counted, ReadiesCount
      <3>6. Denied'
        BY <1>c, <2>2, <2>3, <3>1, <3>4, <3>5 DEF Denied, Silent, Refusing
      <3> QED
        BY <3>6 DEF Phases
    <2>5. CASE SendReady
      <3>1. up = "ready" /\ up' = "read" /\ got' = Append(got, r)
        BY <2>5 DEF SendReady, Answer
      <3>2. Own = Tail(Refusal(message.id))
        BY <3>1 DEF Own
      <3> HIDE DEF e, r
      <3>3. Own = <<r>>
        BY <2>1, <3>2
      <3>4. got' = got \o Own
        BY <1>a, <2>1, <3>1, <3>3
      <3>5. Readies' = Readies + 1
        BY <1>a, <2>1, <3>1, PrimedWhole, Counted, ReadiesCount
      <3>6. Answered'
        BY <1>c, <2>2, <2>3, <3>1, <3>4, <3>5 DEF Denied, Answered, Silent
      <3> QED
        BY <3>6 DEF Phases
    <2> QED
      BY <1>5, <2>4, <2>5
  <1>6. CASE Copy
    <2>1. /\ UNCHANGED <<up, verdicts, sent, message, toProxy, toDB>>
          /\ fromDB # <<>> /\ fromDB' = Tail(fromDB) /\ got' = Append(got, Head(fromDB))
      BY <1>6 DEF Copy
    <2>2. Delivered
      BY <2>1 DEF Phases, Silent, Answered, Asked, Denied, Served, Lost
    <2>3. PICK i \in Nat : fromDB \in {Response(i), Tail(Response(i)), Tail(Tail(Response(i)))}
      BY <2>2 DEF Delivered
    <2> DEFINE f == Frame("db", i, "first")
               s == Frame("db", i, "second")
               r == Frame("db", i, "ready")
    <2>4. /\ f \in Frames /\ s \in Frames /\ r \in Frames
          /\ f.part # "ready" /\ s.part # "ready" /\ r.part = "ready"
          /\ Response(i) = <<f, s, r>>
      BY DEF Frame, Frames, Response
    <2> HIDE DEF f, s, r
    <2>5. Tail(Response(i)) = <<s, r>> /\ Tail(Tail(Response(i))) = <<r>>
      BY <2>4
    <2>6. got' \o fromDB' = Whole'
      <3>1. got' \o fromDB' = got \o fromDB
        BY <1>a, <2>1, HeadMoves
      <3> QED
        BY <1>c, <2>1, <2>2, <3>1 DEF Delivered
    <2>7. CASE fromDB # <<r>>
      <3>1. Head(fromDB) \in {f, s} /\ fromDB' \in {Tail(Response(i)), Tail(Tail(Response(i)))}
        <4>1. CASE fromDB = Response(i)
          <5>1. Head(<<f, s, r>>) = f
            OBVIOUS
          <5>2. Head(fromDB) = f
            BY <2>4, <4>1, <5>1
          <5> QED
            BY <2>1, <4>1, <5>2
        <4>2. CASE fromDB = Tail(Response(i))
          <5>1. Head(<<s, r>>) = s
            OBVIOUS
          <5>2. Head(fromDB) = s
            BY <2>5, <4>2, <5>1
          <5> QED
            BY <2>1, <4>2, <5>2
        <4> QED
          BY <2>3, <2>5, <2>7, <4>1, <4>2
      <3>2. Readies' = Readies
        BY <1>a, <2>1, <2>4, <3>1, PrimedWhole, Counted, ReadiesCount
      <3>3. \E j \in Nat : fromDB' \in {Response(j), Tail(Response(j)), Tail(Tail(Response(j)))}
        BY <3>1
      <3>4. Delivered'
        BY <2>1, <2>2, <2>6, <3>2, <3>3 DEF Delivered, Response, Frame
      <3> QED
        BY <3>4 DEF Phases
    <2>8. CASE fromDB = <<r>>
      <3>1. Head(fromDB) = r /\ fromDB' = <<>>
        BY <2>1, <2>8
      <3>2. Readies' = Readies + 1
        BY <1>a, <2>1, <2>4, <3>1, PrimedWhole, Counted, ReadiesCount
      <3>3. got' \in Seq(Frames)
        BY DEF Types
      <3>4. got' = Whole'
        BY <2>6, <3>1, <3>3
      <3>5. Answered'
        BY <1>a, <2>1, <2>2, <3>1, <3>2, <3>4 DEF Answered, Delivered, Silent
      <3> QED
        BY <3>5 DEF Phases
    <2> QED
      BY <2>7, <2>8
  <1>7. CASE Serve
    <2>1. /\ UNCHANGED <<up, verdicts, sent, message, toProxy, got>>
          /\ toDB # <<>> /\ toDB' = Tail(toDB) /\ fromDB' = fromDB \o Response(Head(toDB).id)
      BY <1>7 DEF Serve
    <2>2. Served
      BY <2>1 DEF Phases, Silent, Answered, Asked, Denied, Delivered, Lost
    <2>3. toDB' = <<>> /\ Head(toDB) = toDB[1] /\ toDB[1] \in Message
      <3>1. Len(toDB) = 1
        BY <2>2 DEF Served
      <3> QED
        BY <1>a, <2>1, <3>1, OneIs
    <2>4. toDB[1].id \in Nat /\ Response(toDB[1].id) \in Seq(Frames)
      BY <2>3, ChunkType DEF Message
    <2>5. fromDB' = Response(toDB[1].id)
      BY <2>1, <2>2, <2>3, <2>4 DEF Served
    <2>6. \E j \in Nat : fromDB' \in {Response(j), Tail(Response(j)), Tail(Tail(Response(j)))}
      BY <2>4, <2>5
    <2>7. got' \o fromDB' = Whole'
      BY <1>c, <2>1, <2>2, <2>5 DEF Served
    <2>8. Delivered'
      BY <1>b, <2>1, <2>2, <2>3, <2>6, <2>7 DEF Served, Delivered, Response, Frame
    <2> QED
      BY <2>8 DEF Phases
  <1>8. ASSUME NEW k \in Kinds, NEW a \in Arrivals, Send(k, a)
        PROVE  Phases'
    <2>1. UNCHANGED <<up, verdicts, message, toDB, fromDB, got>> /\ sent' = sent + 1
          /\ sent - Readies < 1 /\ Len(toProxy') = Len(toProxy) + 1
      BY <1>8 DEF Send, Unanswered, Calm, Types
    <2>2. Readies + 1 # sent
      BY <1>a, <2>1
    <2>3. Answered
      BY <2>2 DEF Phases, Asked, Denied, Served, Delivered, Lost
    <2>4. Len(toProxy') = 1
      BY <2>1, <2>3 DEF Answered, Silent
    <2>5. Asked'
      BY <1>b, <1>c, <2>1, <2>3, <2>4 DEF Answered, Asked, Silent
    <2> QED
      BY <2>5 DEF Phases
  <1>9. CASE Notify
    <2>1. notices < 0 /\ notices \in Nat
      BY <1>9, Lengths DEF Notify, Calm
    <2> QED
      BY <2>1
  <1>10. CASE CopyEnds \/ DatabaseCloses \/ TokenExpires \/ AccessRevoked \/ Rest \/ UNCHANGED vars
    <2>1. UNCHANGED <<up, verdicts, message, sent, toProxy, toDB, fromDB, got>>
      BY <1>10 DEF CopyEnds, DatabaseCloses, TokenExpires, AccessRevoked, Rest, vars
    <2> QED
      BY <2>1, SamePhase
  <1>11. CASE ClientClosed \/ ClientLeaves
    BY <1>11 DEF ClientClosed, ClientLeaves
  <1>12. Upstream => Phases'
    BY <1>1, <1>2, <1>3, <1>4, <1>5, <1>11 DEF Upstream
  <1>13. Downstream => Phases'
    BY <1>6, <1>10 DEF Downstream
  <1>14. Next => Phases'
    BY <1>7, <1>8, <1>9, <1>10, <1>11, <1>12, <1>13, Zenon DEF Next
  <1> QED
    BY <1>10, <1>14

(* Once the client has left, what it received stays as it is.              *)
LEMMA LockStepKept ==
    ASSUME Types, Types', Numbers, LockStep, [Next]_vars
    PROVE  LockStep'
  <1> USE DEF provider, network
  <1>1. UNCHANGED conf /\ (client' => client) /\ (~ client' => got' = got)
    <2>1. CASE Upstream
      BY <2>1 DEF Upstream, ReadMessage, ClientClosed, CheckToken, RefreshFails, Refreshed, Vet, Forward,
                  SendError, SendReady, Answer
    <2>2. CASE Downstream \/ Serve \/ Notify \/ DatabaseCloses
      BY <2>2 DEF Downstream, Copy, CopyEnds, Serve, Notify, DatabaseCloses
    <2>3. CASE \E k \in Kinds, a \in Arrivals : Send(k, a)
      BY <2>3 DEF Send
    <2>4. CASE ClientLeaves \/ TokenExpires \/ AccessRevoked \/ Rest \/ UNCHANGED vars
      BY <2>4 DEF ClientLeaves, TokenExpires, AccessRevoked, Rest, vars
    <2> QED
      BY <2>1, <2>2, <2>3, <2>4, Zenon DEF Next
  <1>2. ASSUME Calm, client, client'
        PROVE  Phases' /\ IsPrefix(got', Whole')
    <2>1. Phases'
      BY <1>2, PhasesKept DEF LockStep
    <2> QED
      BY <2>1, PhasesAreWhole
  <1>3. ASSUME Calm, got' = got
        PROVE  IsPrefix(got', Whole')
    <2>1. PICK u \in Seq(Frames) : Whole' = Whole \o u
      BY WholeGrows
    <2>2. IsPrefix(got, Whole) /\ got \in Seq(Frames) /\ Whole \in Seq(Frames)
      BY <1>3, WholeTypes DEF LockStep, Types
    <2>3. IsPrefix(got, Whole \o u)
      BY <2>2, PrefixGrows
    <2> QED
      BY <1>3, <2>1, <2>3
  <1>4. Calm' = Calm
    BY <1>1 DEF Calm
  <1> QED
    BY <1>1, <1>2, <1>3, <1>4 DEF LockStep

(* The session's inductive invariant.                                      *)
SessionInv == Types /\ Numbers /\ InOrder /\ LockStep

(* It holds in every state of every session.                               *)
THEOREM Session == Spec => []SessionInv
  <1>1. Init => SessionInv
    BY TypesBegin, OrderBegins, LockStepBegins DEF SessionInv
  <1>2. SessionInv /\ [Next]_vars => SessionInv'
    <2> SUFFICES ASSUME SessionInv, [Next]_vars PROVE SessionInv'
      OBVIOUS
    <2>1. Types /\ Numbers /\ InOrder /\ LockStep
      BY DEF SessionInv
    <2>2. Types'
      BY <2>1, TypesKept
    <2>3. Numbers'
      BY <2>1, <2>2, QueuedKept, NumberedKept, ForwardedKept, RoomKept DEF Numbers
    <2>4. InOrder'
      BY <2>1, <2>2, OrderKept
    <2>5. LockStep'
      BY <2>1, <2>2, LockStepKept
    <2> QED
      BY <2>2, <2>3, <2>4, <2>5 DEF SessionInv
  <1> QED
    BY <1>1, <1>2, PTL DEF Spec

(* TypeOK: a session sends, reads, decides, forwards and answers no more   *)
(* than it was sent, and the client receives three frames for each message *)
(* and two for each notice at most, with no more than the set-up's bounds  *)
(* sent.                                                                   *)
THEOREM TypeCorrect == Spec => []TypeOK
  <1>1. SessionInv => TypeOK
    <2> SUFFICES ASSUME Types, Numbers PROVE TypeOK
      BY DEF SessionInv
    <2>1. /\ sent \in Nat /\ notices \in Nat /\ Len(toProxy) \in Nat /\ Len(toDB) \in Nat
          /\ Len(verdicts) \in Nat /\ Len(got) \in Nat /\ Len(fromDB) \in Nat /\ message.id \in Nat
      BY Lengths
    <2>2. Len(Own) \in Nat
      BY <2>1, OwnLength DEF Types, InHand, Refusing
    <2>3. /\ Len(verdicts) <= sent /\ Len(toProxy) <= sent /\ Len(toDB) <= sent /\ message.id <= sent
          /\ Len(got) <= 3 * sent + 2 * notices
      BY <2>1, <2>2 DEF Numbers, Numbered, Room
    <2> QED
      BY <2>1, <2>3 DEF Types, TypeOK, InHand, Refusing
  <1> QED
    BY <1>1, Session, PTL

(* DatabaseAnswersInOrder: whatever the client pipelines and whenever a    *)
(* peer leaves, the database's own answers reach it complete and in the    *)
(* order of its messages, for the forwarded ones only (postgres.go 795-821 *)
(* copying, 899 forwarding).                                               *)
THEOREM AnswersAreInOrder == Spec => []DatabaseAnswersInOrder
  <1>1. SessionInv => DatabaseAnswersInOrder
    BY DEF SessionInv, InOrder, Had, All, DatabaseAnswersInOrder
  <1> QED
    BY <1>1, Session, PTL

(* StreamIsWhole: a client that waits for each answer receives one whole   *)
(* answer to each message, in order, although proxyDownstream (807, 814)   *)
(* and handleError (827, 833) write to it from two goroutines without a    *)
(* lock.                                                                   *)
THEOREM StreamsAreWhole == Spec => []StreamIsWhole
  <1>1. SessionInv => StreamIsWhole
    BY DEF SessionInv, LockStep, Calm, Whole, StreamIsWhole
  <1> QED
    BY <1>1, Session, PTL
=============================================================================
