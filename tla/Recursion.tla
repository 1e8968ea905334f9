------------------------------ MODULE Recursion ------------------------------
(***************************************************************************)
(* Induction on the natural numbers, and the functions it defines.  The    *)
(* library's own induction theorems speak of operators; these speak of     *)
(* sets and functions only, and rest on the well-foundedness of the finite *)
(* sets.  The walks over statements and lists of options are recursive     *)
(* functions on an interval from 0: the proofs about them use these facts, *)
(* and so does what is proved here of the library's FlattenSeq.            *)
(***************************************************************************)
EXTENDS Naturals, Sequences, SequencesExt, FiniteSetTheorems, TLAPS

(* A set of numbers has a least element: as 1 .. n grows with n, it is the *)
(* one whose interval is minimal.                                          *)
LEMMA LeastNumber ==
    ASSUME NEW T \in SUBSET Nat, T # {}
    PROVE  \E x \in T : \A y \in T : x <= y
  <1> DEFINE Intervals == {1 .. n : n \in T}
  <1>1. ASSUME NEW n \in T
        PROVE  1 .. n \in FiniteSubsetsOf(Nat)
    <2>1. IsFiniteSet(1 .. n)
      BY FS_Interval
    <2>2. 1 .. n \subseteq Nat
      OBVIOUS
    <2> QED
      BY <2>1, <2>2 DEF FiniteSubsetsOf
  <1>2. Intervals \subseteq FiniteSubsetsOf(Nat) /\ Intervals # {}
    BY <1>1
  <1>3. PICK I \in Intervals : \A J \in Intervals : <<J, I>> \notin StrictSubsetOrdering(Nat)
    BY <1>2, FS_StrictSubsetOrderingWellFounded, WFMin
  <1>4. PICK x \in T : I = 1 .. x
    OBVIOUS
  <1>5. ASSUME NEW y \in T, y < x
        PROVE  FALSE
    <2>1. 1 .. y \in Intervals /\ 1 .. y \subseteq 1 .. x /\ x \in 1 .. x /\ x \notin 1 .. y
      BY <1>4, <1>5
    <2>2. <<1 .. y, 1 .. x>> \in StrictSubsetOrdering(Nat)
      BY <2>1 DEF StrictSubsetOrdering
    <2> QED
      BY <1>3, <1>4, <2>1, <2>2
  <1> QED
    BY <1>5

(* A set of numbers that holds 0 and, with each number, the next one holds *)
(* them all: there is no least one that it misses.                         *)
LEMMA Induction ==
    ASSUME NEW S \in SUBSET Nat, 0 \in S, \A n \in S : n + 1 \in S
    PROVE  S = Nat
  <1> DEFINE Missed == Nat \ S
  <1> SUFFICES ASSUME Missed # {} PROVE FALSE
    OBVIOUS
  <1>1. PICK x \in Missed : \A y \in Missed : x <= y
    BY LeastNumber
  <1>2. x # 0 /\ x - 1 \in Nat
    BY <1>1
  <1>3. x - 1 \in S
    BY <1>1, <1>2
  <1> QED
    BY <1>1, <1>2, <1>3

(* The same on the interval of a sequence's prefixes.                      *)
LEMMA IntervalInduction ==
    ASSUME NEW N \in Nat, NEW S, 0 \in S, \A n \in 0 .. N - 1 : n \in S => n + 1 \in S
    PROVE  0 .. N \subseteq S
  <1> DEFINE T == {n \in Nat : n <= N => n \in S}
  <1>1. 0 \in T /\ \A n \in T : n + 1 \in T
    OBVIOUS
  <1>2. T = Nat
    <2> HIDE DEF T
    <2>1. T \in SUBSET Nat
      BY DEF T
    <2> QED
      BY <1>1, <2>1, Induction
  <1> QED
    BY <1>2

(* Downwards: what holds of a number if it holds of all the larger ones    *)
(* holds of them all.                                                      *)
LEMMA DownwardInduction ==
    ASSUME NEW N \in Nat, NEW S, \A n \in 1 .. N : (\A m \in n + 1 .. N : m \in S) => n \in S
    PROVE  1 .. N \subseteq S
  <1> DEFINE T == {d \in 0 .. N : \A n \in 1 .. N : n > N - d => n \in S}
  <1>1. 0 \in T
    OBVIOUS
  <1>2. ASSUME NEW d \in 0 .. N - 1, d \in T
        PROVE  d + 1 \in T
    <2>1. N - d \in S
      BY <1>2
    <2>2. \A n \in 1 .. N : n > N - (d + 1) => n = N - d \/ n > N - d
      OBVIOUS
    <2> QED
      BY <1>2, <2>1, <2>2
  <1> HIDE DEF T
  <1>3. 0 .. N \subseteq T
    BY <1>1, <1>2, IntervalInduction
  <1>4. N \in T
    BY <1>3
  <1> QED
    BY <1>4 DEF T

(* The results of N steps, each from the result of the one before: step n  *)
(* is a function on the set V of results, and there is always a run.       *)
StepFunctions(N, V) == [1 .. N -> [V -> V]]

Runs(N, V, first, step) ==
    {f \in [0 .. N -> V] : f[0] = first /\ \A n \in 1 .. N : f[n] = step[n][f[n - 1]]}

LEMMA RunExists ==
    ASSUME NEW N \in Nat, NEW V, NEW first \in V, NEW step \in StepFunctions(N, V)
    PROVE  Runs(N, V, first, step) # {}
  <1> DEFINE Run(m, f) == f[0] = first /\ \A n \in 1 .. m : f[n] = step[n][f[n - 1]]
             S == {m \in 0 .. N : \E f \in [0 .. m -> V] : Run(m, f)}
  <1>1. 0 \in S
    <2>1. [n \in 0 .. 0 |-> first] \in [0 .. 0 -> V] /\ Run(0, [n \in 0 .. 0 |-> first])
      OBVIOUS
    <2> HIDE DEF Run
    <2> QED
      BY <2>1
  <1>2. ASSUME NEW m \in 0 .. N - 1, m \in S
        PROVE  m + 1 \in S
    <2>1. PICK f \in [0 .. m -> V] : Run(m, f)
      BY <1>2
    <2> DEFINE g == [n \in 0 .. m + 1 |-> IF n <= m THEN f[n] ELSE step[n][f[n - 1]]]
    <2>2. m \in 0 .. m /\ m + 1 \in 1 .. N /\ f[m] \in V /\ step[m + 1][f[m]] \in V
      BY DEF StepFunctions
    <2>3. g \in [0 .. m + 1 -> V]
      BY <2>2
    <2>4. g[0] = first
      BY <2>1
    <2>5. ASSUME NEW n \in 1 .. m + 1
          PROVE  g[n] = step[n][g[n - 1]]
      <3>1. n - 1 \in 0 .. m /\ n \in 0 .. m + 1 /\ n - 1 \in 0 .. m + 1
        OBVIOUS
      <3>2. g[n - 1] = f[n - 1]
        BY <3>1
      <3>3. CASE n <= m
        BY <2>1, <3>1, <3>2, <3>3
      <3>4. CASE n = m + 1
        BY <3>1, <3>2, <3>4
      <3> QED
        BY <3>3, <3>4
    <2>6. Run(m + 1, g)
      BY <2>4, <2>5
    <2> HIDE DEF Run, g
    <2> QED
      BY <2>2, <2>3, <2>6
  <1>3. N \in S
    <2> HIDE DEF S
    <2>1. N \in 0 .. N
      OBVIOUS
    <2> QED
      BY <1>1, <1>2, <2>1, IntervalInduction
  <1>4. PICK f \in [0 .. N -> V] : Run(N, f)
    BY <1>3
  <1> QED
    BY <1>4 DEF Runs

-----------------------------------------------------------------------------
(* What the library's FlattenSeq computes for the sequences read so far;   *)
(* Flattening is the function it chooses.                                  *)
IsFlatten(seqs, f) ==
    f = [i \in 1 .. Len(seqs) |-> IF i = 1 THEN seqs[i] ELSE f[i - 1] \o seqs[i]]

Flattening(seqs) == CHOOSE f : IsFlatten(seqs, f)

(* The recursion of FlattenSeq is a run: there is a function as it asks    *)
(* for.                                                                    *)
LEMMA FlattenExists ==
    ASSUME NEW S, NEW seqs \in Seq(Seq(S))
    PROVE  IsFlatten(seqs, Flattening(seqs))
  <1> DEFINE N == Len(seqs)
             V == Seq(S)
             step == [n \in 1 .. N |-> [x \in V |-> x \o seqs[n]]]
  <1>1. N \in Nat /\ <<>> \in V /\ \A x \in V, y \in V : x \o y \in V
    OBVIOUS
  <1>2. \A x \in V : <<>> \o x = x
    OBVIOUS
  <1>3. seqs \in [1 .. N -> V]
    OBVIOUS
  <1> HIDE DEF N, V
  <1>4. step \in StepFunctions(N, V)
    BY <1>1, <1>3 DEF StepFunctions
  <1>5. PICK g \in Runs(N, V, <<>>, step) : TRUE
    <2> HIDE DEF step
    <2> QED
      BY <1>1, <1>4, RunExists
  <1>6. /\ g \in [0 .. N -> V] /\ g[0] = <<>>
        /\ \A n \in 1 .. N : g[n] = step[n][g[n - 1]]
    BY <1>5 DEF Runs
  <1> DEFINE f == [n \in 1 .. N |-> g[n]]
  <1>7. ASSUME NEW n \in 1 .. N
        PROVE  g[n] = IF n = 1 THEN seqs[n] ELSE f[n - 1] \o seqs[n]
    <2>1. n - 1 \in 0 .. N /\ (n # 1 => n - 1 \in 1 .. N)
      BY <1>1
    <2>2. g[n - 1] \in V /\ seqs[n] \in V
      BY <2>1, <1>3, <1>6
    <2>3. g[n] = g[n - 1] \o seqs[n]
      BY <1>6, <2>2
    <2>4. CASE n = 1
      <3>1. n - 1 = 0
        BY <2>4
      <3>2. g[n] = <<>> \o seqs[n]
        BY <1>6, <2>3, <3>1
      <3> QED
        BY <1>2, <2>2, <2>4, <3>2
    <2>5. CASE n # 1
      BY <2>1, <2>3, <2>5
    <2> QED
      BY <2>4, <2>5
  <1>8. IsFlatten(seqs, f)
    BY <1>7 DEF IsFlatten, N
  <1> HIDE DEF f
  <1> QED
    BY <1>8 DEF Flattening

(* FlattenSeq is that function at the last sequence, and empty for none.   *)
LEMMA FlattenIs ==
    ASSUME NEW S, NEW seqs \in Seq(Seq(S)), seqs # <<>>
    PROVE  FlattenSeq(seqs) = Flattening(seqs)[Len(seqs)]
  BY DEF FlattenSeq, Flattening, IsFlatten

LEMMA FlattenEmpty == FlattenSeq(<<>>) = <<>>
  BY DEF FlattenSeq

(* Each value of the function is the one before with the next sequence     *)
(* appended.                                                               *)
LEMMA FlattenStep ==
    ASSUME NEW S, NEW seqs \in Seq(Seq(S))
    PROVE  \A i \in 1 .. Len(seqs) :
              Flattening(seqs)[i] = IF i = 1 THEN seqs[i] ELSE Flattening(seqs)[i - 1] \o seqs[i]
  <1> DEFINE f == Flattening(seqs)
  <1>1. IsFlatten(seqs, f)
    BY FlattenExists
  <1> HIDE DEF f
  <1>2. \A i \in 1 .. Len(seqs) : f[i] = IF i = 1 THEN seqs[i] ELSE f[i - 1] \o seqs[i]
    BY <1>1 DEF IsFlatten
  <1> QED
    BY <1>2 DEF f

(* Sequences over S, flattened, are a sequence over S.                     *)
LEMMA FlattenType ==
    ASSUME NEW S, NEW seqs \in Seq(Seq(S))
    PROVE  /\ FlattenSeq(seqs) \in Seq(S)
           /\ \A i \in 1 .. Len(seqs) : Flattening(seqs)[i] \in Seq(S)
  <1> DEFINE N == Len(seqs)
             V == Seq(S)
             f == Flattening(seqs)
             T == {i \in 0 .. N : i = 0 \/ f[i] \in V}
  <1>1. /\ N \in Nat /\ <<>> \in V /\ \A x \in V, y \in V : x \o y \in V
        /\ seqs \in [1 .. N -> V]
    OBVIOUS
  <1>2. \A i \in 1 .. N : f[i] = IF i = 1 THEN seqs[i] ELSE f[i - 1] \o seqs[i]
    BY FlattenStep
  <1>3. seqs # <<>> => FlattenSeq(seqs) = f[N] /\ N # 0
    BY FlattenIs
  <1> HIDE DEF N, V, f
  <1>4. ASSUME NEW i \in 0 .. N - 1, i \in T
        PROVE  i + 1 \in T
    <2>1. i + 1 \in 1 .. N /\ (i + 1) - 1 = i /\ seqs[i + 1] \in V
      BY <1>1
    <2>2. f[i + 1] = IF i + 1 = 1 THEN seqs[i + 1] ELSE f[i] \o seqs[i + 1]
      BY <1>2, <2>1
    <2> QED
      BY <1>1, <1>4, <2>1, <2>2
  <1>5. 0 .. N \subseteq T
    <2>1. 0 \in T
      BY <1>1
    <2> HIDE DEF T
    <2> QED
      BY <1>1, <1>4, <2>1, IntervalInduction
  <1>6. \A i \in 1 .. N : f[i] \in V
    BY <1>5
  <1> QED
    BY <1>1, <1>3, <1>6, FlattenEmpty DEF N, V, f

(* Flattening distributes over concatenation: by induction over the second *)
(* sequence, its beginning being where the first one ended.                *)
LEMMA FlattenConcat ==
    ASSUME NEW S, NEW ss \in Seq(Seq(S)), NEW tt \in Seq(Seq(S))
    PROVE  FlattenSeq(ss \o tt) = FlattenSeq(ss) \o FlattenSeq(tt)
  <1> DEFINE V == Seq(S)
             M == Len(ss)
             N == Len(tt)
             f == Flattening(ss)
             g == Flattening(tt)
             c == ss \o tt
             h == Flattening(c)
  <1>1. CASE ss = <<>>
    <2>1. ss \o tt = tt /\ FlattenSeq(ss) = <<>>
      BY <1>1, FlattenEmpty
    <2>2. FlattenSeq(tt) \in Seq(S)
      BY FlattenType
    <2> QED
      BY <2>1, <2>2
  <1>2. CASE tt = <<>>
    <2>1. ss \o tt = ss /\ FlattenSeq(tt) = <<>>
      BY <1>2, FlattenEmpty
    <2>2. FlattenSeq(ss) \in Seq(S)
      BY FlattenType
    <2> QED
      BY <2>1, <2>2
  <1>3. CASE ss # <<>> /\ tt # <<>>
    <2>1. /\ M \in Nat \ {0} /\ N \in Nat \ {0} /\ c \in Seq(V) /\ c # <<>>
          /\ Len(c) = M + N
          /\ \A i \in 1 .. M : (c)[i] = ss[i] /\ ss[i] \in V
          /\ \A j \in 1 .. N : (c)[M + j] = tt[j] /\ tt[j] \in V
      BY <1>3
    <2>2. /\ \A i \in 1 .. M : f[i] = IF i = 1 THEN ss[i] ELSE f[i - 1] \o ss[i]
          /\ \A i \in 1 .. N : g[i] = IF i = 1 THEN tt[i] ELSE g[i - 1] \o tt[i]
      BY FlattenStep
    <2>3. \A i \in 1 .. M + N : h[i] = IF i = 1 THEN (c)[i] ELSE h[i - 1] \o (c)[i]
      BY <2>1, FlattenStep
    <2>4. /\ \A i \in 1 .. M : f[i] \in V
          /\ \A i \in 1 .. N : g[i] \in V
      BY FlattenType
    <2>5. FlattenSeq(ss) = f[M] /\ FlattenSeq(tt) = g[N] /\ FlattenSeq(c) = h[M + N]
      BY <1>3, <2>1, FlattenIs
    <2>6. \A x \in V, y \in V, z \in V : x \o (y \o z) = (x \o y) \o z
      OBVIOUS
    <2> HIDE DEF V, M, N, c, f, g, h
    <2> DEFINE A == {i \in 0 .. M : i = 0 \/ h[i] = f[i]}
               B == {j \in 0 .. N : h[M + j] = IF j = 0 THEN f[M] ELSE f[M] \o g[j]}
    <2>7. \A i \in 0 .. M - 1 : i \in A => i + 1 \in A
      <3> SUFFICES ASSUME NEW i \in 0 .. M - 1, i \in A PROVE h[i + 1] = f[i + 1]
        BY <2>1
      <3>1. i + 1 \in 1 .. M /\ i + 1 \in 1 .. M + N /\ (i + 1) - 1 = i
        BY <2>1
      <3>2. h[i + 1] = IF i = 0 THEN c[i + 1] ELSE h[i] \o c[i + 1]
        BY <2>3, <3>1
      <3>3. f[i + 1] = IF i = 0 THEN ss[i + 1] ELSE f[i] \o ss[i + 1]
        BY <2>2, <3>1
      <3>4. c[i + 1] = ss[i + 1] /\ (i = 0 \/ h[i] = f[i])
        BY <2>1, <3>1
      <3> QED
        BY <3>2, <3>3, <3>4
    <2>8. 0 .. M \subseteq A
      <3>1. 0 \in A
        BY <2>1
      <3> HIDE DEF A
      <3> QED
        BY <2>1, <2>7, <3>1, IntervalInduction
    <2>9. h[M] = f[M]
      BY <2>1, <2>8
    <2>10. \A j \in 0 .. N - 1 : j \in B => j + 1 \in B
      <3> SUFFICES ASSUME NEW j \in 0 .. N - 1, j \in B PROVE h[M + (j + 1)] = f[M] \o g[j + 1]
        <4>1. \A j \in 0 .. N - 1 : j + 1 \in 0 .. N /\ j + 1 # 0
          BY <2>1
        <4> QED
          BY <4>1
      <3>1. /\ j + 1 \in 1 .. N /\ M + (j + 1) \in 1 .. M + N /\ (j + 1) - 1 = j
            /\ (M + (j + 1)) - 1 = M + j /\ M + (j + 1) # 1 /\ M \in 1 .. M
        BY <2>1
      <3>2. h[M + (j + 1)] = h[M + j] \o tt[j + 1]
        <4>1. c[M + (j + 1)] = tt[j + 1]
          BY <2>1, <3>1
        <4> QED
          BY <2>3, <3>1, <4>1
      <3>3. g[j + 1] = IF j = 0 THEN tt[j + 1] ELSE g[j] \o tt[j + 1]
        <4>1. g[j + 1] = IF j + 1 = 1 THEN tt[j + 1] ELSE g[(j + 1) - 1] \o tt[j + 1]
          BY <2>2, <3>1, Zenon
        <4>2. j + 1 = 1 <=> j = 0
          OBVIOUS
        <4> QED
          BY <3>1, <4>1, <4>2, Zenon
      <3>4. CASE j = 0
        <4>1. h[M + j] = f[M]
          BY <3>4
        <4> QED
          BY <3>2, <3>3, <3>4, <4>1
      <3>5. CASE j # 0
        <4>1. j \in 1 .. N /\ f[M] \in V /\ g[j] \in V /\ tt[j + 1] \in V
          BY <2>1, <2>4, <3>1, <3>5
        <4>2. h[M + j] = f[M] \o g[j]
          BY <3>5
        <4>3. f[M] \o (g[j] \o tt[j + 1]) = (f[M] \o g[j]) \o tt[j + 1]
          BY <2>6, <4>1
        <4>4. g[j + 1] = g[j] \o tt[j + 1]
          BY <3>3, <3>5
        <4> QED
          BY <3>2, <4>2, <4>3, <4>4, Zenon
      <3> QED
        BY <3>4, <3>5
    <2>11. 0 .. N \subseteq B
      <3>1. 0 \in B
        BY <2>1, <2>9
      <3> HIDE DEF B
      <3> QED
        BY <2>1, <2>10, <3>1, IntervalInduction
    <2>12. h[M + N] = f[M] \o g[N]
      <3>1. N \in 0 .. N /\ N # 0
        BY <2>1
      <3> QED
        BY <2>11, <3>1
    <2> QED
      BY <2>5, <2>12 DEF M, N, c, f, g, h
  <1> QED
    BY <1>1, <1>2, <1>3

(* A single sequence flattens to itself. *)
LEMMA FlattenOne ==
    ASSUME NEW S, NEW s \in Seq(S)
    PROVE  FlattenSeq(<<s>>) = s
  <1>1. <<s>> \in Seq(Seq(S)) /\ <<s>> # <<>> /\ Len(<<s>>) = 1 /\ <<s>>[1] = s
    OBVIOUS
  <1>2. FlattenSeq(<<s>>) = Flattening(<<s>>)[1]
    BY <1>1, FlattenIs
  <1>3. Flattening(<<s>>)[1] = s
    <2> DEFINE c == <<s>>
    <2>1. c \in Seq(Seq(S)) /\ Len(c) = 1 /\ c[1] = s
      BY <1>1
    <2> HIDE DEF c
    <2>2. Flattening(c)[1] = c[1]
      <3>1. \A i \in 1 .. Len(c) : Flattening(c)[i] = IF i = 1 THEN c[i] ELSE Flattening(c)[i - 1] \o c[i]
        BY <2>1, FlattenStep
      <3> QED
        BY <2>1, <3>1
    <2> QED
      BY <2>1, <2>2 DEF c
  <1> QED
    BY <1>2, <1>3

(* One more sequence is appended to what the others flatten to.            *)
LEMMA FlattenAppend ==
    ASSUME NEW S, NEW ss \in Seq(Seq(S)), NEW s \in Seq(S)
    PROVE  FlattenSeq(Append(ss, s)) = FlattenSeq(ss) \o s
  <1>1. Append(ss, s) = ss \o <<s>> /\ <<s>> \in Seq(Seq(S))
    <2> DEFINE V == Seq(S)
    <2> HIDE DEF V
    <2>1. ASSUME NEW tt \in Seq(V), NEW t \in V
          PROVE  Append(tt, t) = tt \o <<t>> /\ <<t>> \in Seq(V)
      OBVIOUS
    <2> QED
      BY <2>1 DEF V
  <1>2. FlattenSeq(<<s>>) = s
    BY FlattenOne
  <1>3. FlattenSeq(ss \o <<s>>) = FlattenSeq(ss) \o FlattenSeq(<<s>>)
    BY <1>1, FlattenConcat
  <1> QED
    BY <1>1, <1>2, <1>3
=============================================================================
