--------------------------- MODULE Mp4FileProofs ---------------------------
(***************************************************************************)
(* Theorems about the files of a recording, for any frames, any sizes, any *)
(* number of segments, merges, appends and interruptions.                  *)
(*                                                                         *)
(* The sample tables are sums and concatenations over sequences of any     *)
(* length.  What is said of them needs induction, which is had from the    *)
(* well-foundedness of < on Nat: a set of naturals that contains 0 and,    *)
(* with each number, the next is Nat.                                      *)
(*                                                                         *)
(* The module goes from the operators to the system: flattening and        *)
(* totals; the tables and what the parser reads from them; where a file's  *)
(* cells hold a track's frames; merged and extended files; what an append  *)
(* leaves intact; the inductive invariant FileInv and its steps; and the   *)
(* theorems.                                                               *)
(***************************************************************************)
EXTENDS Mp4File, SequenceTheorems, WellFoundedInduction, TLAPS

-----------------------------------------------------------------------------
(* Induction over numbers and sequences *)

\* Induction, from the well-foundedness of < on Nat.
LEMMA Induction ==
  ASSUME NEW T \in SUBSET Nat, 0 \in T, \A n \in T : n + 1 \in T
  PROVE  T = Nat
<1> DEFINE R == OpToRel(<, Nat)
           Rest == Nat \ T
<1> SUFFICES ASSUME Rest # {} PROVE FALSE
  OBVIOUS
<1>1. IsWellFoundedOn(R, Nat)
  BY NatLessThanWellFounded
<1> HIDE DEF R
<1>2. PICK n \in Rest : \A m \in Rest : ~ (<<m, n>> \in R)
  <2>1. Rest \subseteq Nat
    OBVIOUS
  <2> HIDE DEF Rest
  <2> QED
    BY <1>1, <2>1, WFMin
<1>3. \A m \in Rest : ~ (m < n)
  BY <1>2 DEF R, OpToRel
<1>4. n \in Nat /\ n # 0 /\ n - 1 \in Nat
  OBVIOUS
<1>5. n - 1 \in T
  BY <1>3, <1>4
<1> QED
  BY <1>4, <1>5

\* Induction over the sequences of elements of a set.
LEMMA SeqInduction ==
  ASSUME NEW S, NEW T \in SUBSET Seq(S), <<>> \in T, \A s \in T, x \in S : Append(s, x) \in T
  PROVE  T = Seq(S)
<1> DEFINE N == {n \in Nat : \A s \in Seq(S) : Len(s) = n => s \in T}
<1>1. 0 \in N
  BY EmptySeq
<1>2. ASSUME NEW n \in N PROVE n + 1 \in N
  <2>1. ASSUME NEW s \in Seq(S), Len(s) = n + 1 PROVE s \in T
    <3>1. n \in Nat /\ s # <<>>
      BY <2>1
    <3>2. PICK t \in Seq(S), x \in S : s = Append(t, x)
      BY <3>1, SequenceEmptyOrAppend
    <3>3. Len(t) = n
      BY <2>1, <3>1, <3>2
    <3> QED
      BY <3>2, <3>3
  <2> QED
    BY <2>1
<1>3. N = Nat
  <2> HIDE DEF N
  <2>1. N \in SUBSET Nat
    BY DEF N
  <2> QED
    BY <1>1, <1>2, <2>1, Induction
<1>4. \A s \in Seq(S) : Len(s) \in Nat
  OBVIOUS
<1> QED
  BY <1>3, <1>4

-----------------------------------------------------------------------------
(* Flattening *)

\* FlattenSeq is what its recursion says.
LEMMA FlattenDefined ==
  ASSUME NEW seqs, Len(seqs) \in Nat
  PROVE  \E f : /\ \A i \in 1..Len(seqs) : f[i] = IF i = 1 THEN seqs[i] ELSE f[i - 1] \o seqs[i]
                /\ FlattenSeq(seqs) = IF Len(seqs) = 0 THEN seqs ELSE f[Len(seqs)]
<1> DEFINE Is(f, n) == f = [i \in 1..n |-> IF i = 1 THEN seqs[i] ELSE f[i - 1] \o seqs[i]]
           N == {n \in Nat : \E f : Is(f, n)}
<1>1. 0 \in N
  <2>1. Is([i \in 1..0 |-> i], 0)
    OBVIOUS
  <2> QED
    BY <2>1
<1>2. ASSUME NEW n \in N PROVE n + 1 \in N
  <2>1. PICK f : Is(f, n)
    OBVIOUS
  <2>2. n \in Nat /\ \A i \in 1..n : f[i] = IF i = 1 THEN seqs[i] ELSE f[i - 1] \o seqs[i]
    BY <2>1
  <2> DEFINE g == [i \in 1..n + 1 |-> IF i = n + 1 THEN IF i = 1 THEN seqs[i] ELSE f[i - 1] \o seqs[i]
                                      ELSE f[i]]
  <2>3. ASSUME NEW i \in 1..n + 1
        PROVE  g[i] = IF i = 1 THEN seqs[i] ELSE g[i - 1] \o seqs[i]
    <3>1. CASE i \in 1..n
      BY <2>2, <3>1
    <3>2. CASE i = n + 1
      BY <2>2, <3>2
    <3> QED
      BY <2>2, <3>1, <3>2
  <2>4. g = [i \in 1..n + 1 |-> g[i]]
    OBVIOUS
  <2> HIDE DEF g
  <2>5. Is(g, n + 1)
    BY <2>3, <2>4
  <2> HIDE DEF Is
  <2> QED
    BY <2>2, <2>5
<1>3. N = Nat
  <2> HIDE DEF N
  <2>1. N \in SUBSET Nat
    BY DEF N
  <2> QED
    BY <1>1, <1>2, <2>1, Induction
<1>4. \E f : Is(f, Len(seqs))
  BY <1>3
<1> DEFINE f == CHOOSE f : Is(f, Len(seqs))
<1>5. Is(f, Len(seqs))
  BY <1>4
<1>6. FlattenSeq(seqs) = IF Len(seqs) = 0 THEN seqs ELSE f[Len(seqs)]
  BY DEF FlattenSeq
<1> HIDE DEF f
<1>7. \A i \in 1..Len(seqs) : f[i] = IF i = 1 THEN seqs[i] ELSE f[i - 1] \o seqs[i]
  BY <1>5
<1> QED
  BY <1>6, <1>7

\* Nothing, flattened, is nothing.
LEMMA FlattenEmpty == FlattenSeq(<<>>) = <<>>
  BY DEF FlattenSeq

\* The last sequence comes last.
LEMMA FlattenAppend ==
  ASSUME NEW S, NEW ss \in Seq(Seq(S)), NEW s \in Seq(S)
  PROVE  FlattenSeq(Append(ss, s)) = FlattenSeq(ss) \o s
<1> DEFINE n  == Len(ss)
           tt == Append(ss, s)
<1>1. n \in Nat /\ Len(tt) = n + 1 /\ tt[n + 1] = s /\ \A i \in 1..n : tt[i] = ss[i]
  OBVIOUS
<1>2. PICK f : /\ \A i \in 1..n : f[i] = IF i = 1 THEN ss[i] ELSE f[i - 1] \o ss[i]
               /\ FlattenSeq(ss) = IF n = 0 THEN ss ELSE f[n]
  BY <1>1, FlattenDefined
<1> HIDE DEF n, tt
<1>3. PICK g : /\ \A i \in 1..n + 1 : g[i] = IF i = 1 THEN tt[i] ELSE g[i - 1] \o tt[i]
               /\ FlattenSeq(tt) = g[n + 1]
  <2>1. Len(tt) \in Nat /\ Len(tt) # 0
    BY <1>1
  <2> QED
    BY <1>1, <2>1, FlattenDefined
<1>4. CASE n = 0
  <2>1. g[1] = s /\ ss = <<>>
    BY <1>1, <1>3, <1>4 DEF n
  <2> QED
    BY <1>3, <1>4, <2>1, FlattenEmpty DEF tt
<1>5. CASE n # 0
  <2> DEFINE N == {i \in Nat : i + 1 \in 1..n => g[i + 1] = f[i + 1]}
  <2>1. 0 \in N
    BY <1>1, <1>2, <1>3
  <2>2. ASSUME NEW i \in N PROVE i + 1 \in N
    <3>1. ASSUME i + 2 \in 1..n PROVE g[i + 2] = f[i + 2]
      <4>1. i \in Nat /\ g[i + 1] = f[i + 1] /\ tt[i + 2] = ss[i + 2]
        BY <1>1, <3>1
      <4> HIDE DEF N
      <4>2. i + 2 \in 1..n + 1 /\ i + 2 # 1 /\ (i + 2) - 1 = i + 1
        BY <1>1, <3>1, <4>1
      <4>3. g[i + 2] = g[i + 1] \o tt[i + 2]
        BY <1>3, <4>2
      <4>4. f[i + 2] = f[i + 1] \o ss[i + 2]
        BY <1>2, <3>1, <4>2
      <4> QED
        BY <4>1, <4>3, <4>4
    <3>2. i + 1 \in Nat /\ (i + 1) + 1 = i + 2
      OBVIOUS
    <3> QED
      BY <3>1, <3>2
  <2>3. N \in SUBSET Nat
    OBVIOUS
  <2>4. ASSUME N = Nat PROVE g[n] = f[n]
    <3>1. n - 1 \in Nat /\ (n - 1) + 1 = n /\ n \in 1..n
      BY <1>1, <1>5
    <3>2. n - 1 \in N
      BY <2>4, <3>1
    <3> QED
      BY <3>1, <3>2
  <2> HIDE DEF N
  <2>5. g[n] = f[n]
    BY <2>1, <2>2, <2>3, <2>4, Induction
  <2>6. n + 1 \in 1..n + 1 /\ n + 1 # 1 /\ (n + 1) - 1 = n
    BY <1>1, <1>5
  <2>7. g[n + 1] = g[n] \o s
    BY <1>1, <1>3, <2>6
  <2> QED
    BY <1>2, <1>3, <1>5, <2>5, <2>7 DEF tt
<1> QED
  BY <1>4, <1>5

\* Flattening sequences over S gives a sequence over S.
LEMMA FlattenType ==
  ASSUME NEW S, NEW ss \in Seq(Seq(S)) PROVE FlattenSeq(ss) \in Seq(S)
<1> DEFINE T == {tt \in Seq(Seq(S)) : FlattenSeq(tt) \in Seq(S)}
<1>1. <<>> \in T
  BY FlattenEmpty, EmptySeq
<1>2. ASSUME NEW tt \in T, NEW s \in Seq(S) PROVE Append(tt, s) \in T
  <2>1. FlattenSeq(Append(tt, s)) = FlattenSeq(tt) \o s
    BY FlattenAppend
  <2>2. FlattenSeq(tt) \o s \in Seq(S) /\ Append(tt, s) \in Seq(Seq(S))
    OBVIOUS
  <2> QED
    BY <2>1, <2>2
<1>3. T \in SUBSET Seq(Seq(S))
  OBVIOUS
<1> HIDE DEF T
<1>4. T = Seq(Seq(S))
  BY <1>1, <1>2, <1>3, SeqInduction
<1> QED
  BY <1>4 DEF T

-----------------------------------------------------------------------------
(* Where the elements of a flattened sequence come from *)

\* Where the i-th of the sequences begins, less 1.
Start(ss, i) == Len(FlattenSeq(SubSeq(ss, 1, i - 1)))

\* Each sequence begins where the one before it ends.
LEMMA Starts ==
  ASSUME NEW S, NEW ss \in Seq(Seq(S))
  PROVE  /\ Start(ss, 1) = 0
         /\ \A i \in 1..Len(ss) : Start(ss, i) \in Nat /\ Start(ss, i + 1) = Start(ss, i) + Len(ss[i])
         /\ Start(ss, Len(ss) + 1) = Len(FlattenSeq(ss))
<1>1. SubSeq(ss, 1, 0) = <<>> /\ SubSeq(ss, 1, Len(ss)) = ss
  OBVIOUS
<1>2. ASSUME NEW i \in 1..Len(ss)
      PROVE  Start(ss, i) \in Nat /\ Start(ss, i + 1) = Start(ss, i) + Len(ss[i])
  <2>1. /\ SubSeq(ss, 1, i) = Append(SubSeq(ss, 1, i - 1), ss[i])
        /\ SubSeq(ss, 1, i - 1) \in Seq(Seq(S)) /\ ss[i] \in Seq(S)
    OBVIOUS
  <2>2. FlattenSeq(SubSeq(ss, 1, i)) = FlattenSeq(SubSeq(ss, 1, i - 1)) \o ss[i]
    BY <2>1, FlattenAppend
  <2>3. FlattenSeq(SubSeq(ss, 1, i - 1)) \in Seq(S)
    BY <2>1, FlattenType
  <2>4. Len(FlattenSeq(SubSeq(ss, 1, i - 1)) \o ss[i]) = Len(FlattenSeq(SubSeq(ss, 1, i - 1))) + Len(ss[i])
    BY <2>1, <2>3
  <2>5. Start(ss, i + 1) = Len(FlattenSeq(SubSeq(ss, 1, i)))
    <3>1. (i + 1) - 1 = i
      OBVIOUS
    <3> QED
      BY <3>1 DEF Start
  <2>6. Start(ss, i) \in Nat
    BY <2>3 DEF Start
  <2> QED
    BY <2>2, <2>4, <2>5, <2>6 DEF Start
<1>3. Start(ss, 1) = 0
  <2>1. Start(ss, 1) = Len(FlattenSeq(SubSeq(ss, 1, 0)))
    BY DEF Start
  <2>2. Len(FlattenSeq(<<>>)) = 0
    BY FlattenEmpty
  <2> QED
    BY <1>1, <2>1, <2>2
<1>4. Start(ss, Len(ss) + 1) = Len(FlattenSeq(ss))
  <2>1. (Len(ss) + 1) - 1 = Len(ss)
    OBVIOUS
  <2> QED
    BY <1>1, <2>1 DEF Start
<1> QED
  BY <1>2, <1>3, <1>4

\* The j-th element of the i-th sequence is found where it is expected.
LEMMA FlattenAt ==
  ASSUME NEW S, NEW ss \in Seq(Seq(S)), NEW i \in 1..Len(ss)
  PROVE  /\ Start(ss, i) + Len(ss[i]) <= Len(FlattenSeq(ss))
         /\ \A j \in 1..Len(ss[i]) : FlattenSeq(ss)[Start(ss, i) + j] = ss[i][j]
<1> DEFINE In(tt, k) == /\ Start(tt, k) + Len(tt[k]) <= Len(FlattenSeq(tt))
                        /\ \A j \in 1..Len(tt[k]) : FlattenSeq(tt)[Start(tt, k) + j] = tt[k][j]
           T == {tt \in Seq(Seq(S)) : \A k \in 1..Len(tt) : In(tt, k)}
<1>1. <<>> \in T
  OBVIOUS
<1>2. ASSUME NEW tt \in T, NEW s \in Seq(S) PROVE Append(tt, s) \in T
  <2> DEFINE uu == Append(tt, s)
             n  == Len(tt)
  <2>1. /\ tt \in Seq(Seq(S)) /\ uu \in Seq(Seq(S)) /\ n \in Nat /\ Len(uu) = n + 1 /\ uu[n + 1] = s
        /\ \A k \in 1..n : uu[k] = tt[k] /\ tt[k] \in Seq(S)
    OBVIOUS
  <2>2. FlattenSeq(uu) = FlattenSeq(tt) \o s /\ FlattenSeq(tt) \in Seq(S)
    BY FlattenAppend, FlattenType
  <2>3. /\ Len(FlattenSeq(tt)) \in Nat /\ Len(FlattenSeq(uu)) = Len(FlattenSeq(tt)) + Len(s)
        /\ \A m \in 1..Len(FlattenSeq(tt)) : FlattenSeq(uu)[m] = FlattenSeq(tt)[m]
        /\ \A m \in 1..Len(s) : FlattenSeq(uu)[Len(FlattenSeq(tt)) + m] = s[m]
    BY <2>2
  <2>4. ASSUME NEW k \in 1..n + 1 PROVE SubSeq(uu, 1, k - 1) = SubSeq(tt, 1, k - 1)
    BY <2>1
  <2>5. Start(uu, n + 1) = Len(FlattenSeq(tt)) /\ \A k \in 1..n : Start(uu, k) = Start(tt, k)
    <3>1. SubSeq(tt, 1, (n + 1) - 1) = tt /\ n + 1 \in 1..n + 1 /\ 1..n \subseteq 1..n + 1
      OBVIOUS
    <3> QED
      BY <2>4, <3>1 DEF Start
  <2>6. \A k \in 1..n : Start(tt, k) \in Nat /\ In(tt, k)
    BY Starts
  <2> HIDE DEF T, uu, n
  <2>7. ASSUME NEW k \in 1..n PROVE In(uu, k)
    <3>1. In(tt, k)
      BY <2>6
    <3>2. Len(tt[k]) \in Nat /\ Len(s) \in Nat /\ uu[k] = tt[k] /\ Start(uu, k) = Start(tt, k)
      BY <2>1, <2>5
    <3>3. ASSUME NEW j \in 1..Len(tt[k]) PROVE FlattenSeq(uu)[Start(tt, k) + j] = tt[k][j]
      <4>1. Start(tt, k) + j \in 1..Len(FlattenSeq(tt))
        <5>1. Start(tt, k) \in Nat /\ Start(tt, k) + Len(tt[k]) <= Len(FlattenSeq(tt))
          BY <2>6, <3>1
        <5> HIDE DEF In
        <5> QED
          BY <2>3, <3>2, <5>1
      <4> QED
        BY <2>3, <3>1, <4>1
    <3> QED
      BY <2>3, <2>6, <3>1, <3>2, <3>3
  <2>8. In(uu, n + 1)
    <3>1. Start(uu, n + 1) + Len(uu[n + 1]) <= Len(FlattenSeq(uu))
      BY <2>1, <2>3, <2>5
    <3>2. \A j \in 1..Len(uu[n + 1]) : FlattenSeq(uu)[Start(uu, n + 1) + j] = uu[n + 1][j]
      BY <2>1, <2>3, <2>5
    <3> QED
      BY <3>1, <3>2
  <2> HIDE DEF In
  <2>9. \A k \in 1..Len(uu) : In(uu, k)
    BY <2>1, <2>7, <2>8
  <2> QED
    BY <2>1, <2>9 DEF uu, T
<1>3. T \in SUBSET Seq(Seq(S))
  OBVIOUS
<1> HIDE DEF T
<1>4. T = Seq(Seq(S))
  BY <1>1, <1>2, <1>3, SeqInduction
<1> QED
  BY <1>4 DEF T

\* Every element comes from somewhere.
LEMMA FlattenFrom ==
  ASSUME NEW S, NEW ss \in Seq(Seq(S)), NEW k \in 1..Len(FlattenSeq(ss))
  PROVE  \E i \in 1..Len(ss), j \in Nat : j \in 1..Len(ss[i]) /\ k = Start(ss, i) + j
<1> DEFINE N == {n \in Nat : n <= Len(ss) /\ k <= Start(ss, n + 1) =>
                    \E i \in 1..Len(ss), j \in Nat : j \in 1..Len(ss[i]) /\ k = Start(ss, i) + j}
<1>1. Len(ss) \in Nat /\ k \in Nat /\ k > 0 /\ k <= Len(FlattenSeq(ss))
  BY FlattenType
<1>2. 0 \in N
  BY <1>1, Starts
<1>3. ASSUME NEW n \in N PROVE n + 1 \in N
  <2> SUFFICES ASSUME n + 1 <= Len(ss), k <= Start(ss, (n + 1) + 1)
               PROVE  \E i \in 1..Len(ss), j \in Nat : j \in 1..Len(ss[i]) /\ k = Start(ss, i) + j
    OBVIOUS
  <2>1. n \in Nat /\ n + 1 \in 1..Len(ss)
    BY <1>1
  <2>2. CASE k <= Start(ss, n + 1)
    BY <1>1, <2>1, <2>2
  <2>3. CASE ~ (k <= Start(ss, n + 1))
    <3>1. /\ Start(ss, n + 1) \in Nat /\ Start(ss, (n + 1) + 1) = Start(ss, n + 1) + Len(ss[n + 1])
          /\ Len(ss[n + 1]) \in Nat
      <4>1. ss[n + 1] \in Seq(S)
        BY <2>1
      <4>2. /\ Start(ss, n + 1) \in Nat
            /\ Start(ss, (n + 1) + 1) = Start(ss, n + 1) + Len(ss[n + 1])
        BY <2>1, Starts
      <4> QED
        BY <4>1, <4>2
    <3> DEFINE j == k - Start(ss, n + 1)
    <3>2. j \in Nat /\ j \in 1..Len(ss[n + 1]) /\ k = Start(ss, n + 1) + j
      BY <1>1, <2>3, <3>1
    <3> QED
      BY <2>1, <3>2
  <2> QED
    BY <2>2, <2>3
<1>4. N \in SUBSET Nat
  OBVIOUS
<1> HIDE DEF N
<1>5. Len(ss) \in N
  BY <1>1, <1>2, <1>3, <1>4, Induction
<1> QED
  BY <1>1, <1>5, Starts DEF N

\* Sequences of the same lengths begin at the same places.
LEMMA SameStarts ==
  ASSUME NEW S, NEW U, NEW ss \in Seq(Seq(S)), NEW uu \in Seq(Seq(U)), Len(ss) = Len(uu),
         \A i \in 1..Len(ss) : Len(ss[i]) = Len(uu[i])
  PROVE  /\ \A i \in 1..Len(ss) : Start(ss, i) = Start(uu, i)
         /\ Len(FlattenSeq(ss)) = Len(FlattenSeq(uu))
<1> DEFINE N == {n \in Nat : n <= Len(ss) => Start(ss, n + 1) = Start(uu, n + 1)}
<1>0. Len(ss) \in Nat
  OBVIOUS
<1>1. 0 \in N
  BY Starts
<1>2. ASSUME NEW n \in N PROVE n + 1 \in N
  <2>1. CASE n + 1 <= Len(ss)
    <3>1. n + 1 \in 1..Len(ss) /\ n + 1 \in 1..Len(uu) /\ n \in Nat /\ n <= Len(ss)
      BY <1>0, <2>1
    <3>2. Start(ss, n + 1) = Start(uu, n + 1)
      BY <3>1
    <3>3. Start(ss, (n + 1) + 1) = Start(ss, n + 1) + Len(ss[n + 1])
      BY <3>1, Starts
    <3>4. Start(uu, (n + 1) + 1) = Start(uu, n + 1) + Len(uu[n + 1])
      BY <3>1, Starts
    <3>5. Start(ss, (n + 1) + 1) = Start(uu, (n + 1) + 1)
      BY <3>1, <3>2, <3>3, <3>4
    <3> QED
      BY <3>1, <3>5
  <2> QED
    BY <2>1
<1>3. N \in SUBSET Nat
  OBVIOUS
<1> HIDE DEF N
<1>4. N = Nat
  BY <1>1, <1>2, <1>3, Induction
<1>5. \A n \in Nat : n <= Len(ss) => Start(ss, n + 1) = Start(uu, n + 1)
  BY <1>4 DEF N
<1>6. ASSUME NEW i \in 1..Len(ss) PROVE Start(ss, i) = Start(uu, i)
  <2>1. i - 1 \in Nat /\ i - 1 <= Len(ss) /\ (i - 1) + 1 = i
    BY <1>0
  <2> QED
    BY <1>5, <2>1
<1>7. Start(ss, Len(ss) + 1) = Start(uu, Len(uu) + 1)
  BY <1>0, <1>5
<1> QED
  BY <1>6, <1>7, Starts

\* Total is what its recursion says.
LEMMA TotalDefined ==
  ASSUME NEW nums, Len(nums) \in Nat
  PROVE  \E f : /\ f[0] = 0
                /\ \A i \in 1..Len(nums) : f[i] = f[i - 1] + nums[i]
                /\ Total(nums) = f[Len(nums)]
<1> DEFINE Is(f, n) == f = [i \in 0..n |-> IF i = 0 THEN 0 ELSE f[i - 1] + nums[i]]
           N == {n \in Nat : \E f : Is(f, n)}
<1>1. 0 \in N
  <2>1. Is([i \in 0..0 |-> 0], 0)
    OBVIOUS
  <2> HIDE DEF Is
  <2> QED
    BY <2>1
<1>2. ASSUME NEW n \in N PROVE n + 1 \in N
  <2>1. PICK f : Is(f, n)
    OBVIOUS
  <2>2. /\ n \in Nat /\ f[0] = 0
        /\ \A i \in 1..n : f[i] = f[i - 1] + nums[i]
    BY <2>1
  <2> DEFINE g == [i \in 0..n + 1 |-> IF i = n + 1 THEN f[i - 1] + nums[i] ELSE f[i]]
  <2>3. ASSUME NEW i \in 0..n + 1
        PROVE  g[i] = IF i = 0 THEN 0 ELSE g[i - 1] + nums[i]
    <3>1. CASE i = 0
      BY <2>2, <3>1
    <3>2. CASE i \in 1..n
      <4>1. g[i] = f[i] /\ g[i - 1] = f[i - 1] /\ i # 0
        BY <2>2, <3>2
      <4> HIDE DEF g
      <4> QED
        BY <2>2, <3>2, <4>1
    <3>3. CASE i = n + 1
      <4>1. g[i] = f[i - 1] + nums[i] /\ g[i - 1] = f[i - 1] /\ i # 0
        BY <2>2, <3>3
      <4> HIDE DEF g
      <4> QED
        BY <4>1
    <3> QED
      BY <2>2, <3>1, <3>2, <3>3
  <2>4. g = [i \in 0..n + 1 |-> g[i]]
    OBVIOUS
  <2> HIDE DEF g
  <2>5. Is(g, n + 1)
    BY <2>3, <2>4
  <2> HIDE DEF Is
  <2> QED
    BY <2>2, <2>5
<1>3. N = Nat
  <2> HIDE DEF N
  <2>1. N \in SUBSET Nat
    BY DEF N
  <2> QED
    BY <1>1, <1>2, <2>1, Induction
<1>4. \E f : Is(f, Len(nums))
  BY <1>3
<1> DEFINE f == CHOOSE f : Is(f, Len(nums))
<1>5. Is(f, Len(nums))
  BY <1>4
<1>6. Total(nums) = f[Len(nums)]
  BY DEF Total
<1> HIDE DEF f
<1>7. f[0] = 0 /\ \A i \in 1..Len(nums) : f[i] = f[i - 1] + nums[i]
  BY <1>5
<1> QED
  BY <1>6, <1>7

\* Chunks is what its recursion says.
LEMMA ChunksDefined ==
  ASSUME NEW samples, Len(samples) \in Nat
  PROVE  \E f : /\ f[0] = <<>>
                /\ \A i \in 1..Len(samples) : f[i] = AddSample(f[i - 1], samples[i])
                /\ Chunks(samples) = f[Len(samples)]
<1> DEFINE Is(f, n) == f = [i \in 0..n |-> IF i = 0 THEN <<>> ELSE AddSample(f[i - 1], samples[i])]
           N == {n \in Nat : \E f : Is(f, n)}
<1>1. 0 \in N
  <2>1. Is([i \in 0..0 |-> <<>>], 0)
    OBVIOUS
  <2> HIDE DEF Is
  <2> QED
    BY <2>1
<1>2. ASSUME NEW n \in N PROVE n + 1 \in N
  <2>1. PICK f : Is(f, n)
    OBVIOUS
  <2>2. /\ n \in Nat /\ f[0] = <<>>
        /\ \A i \in 1..n : f[i] = AddSample(f[i - 1], samples[i])
    BY <2>1
  <2> DEFINE g == [i \in 0..n + 1 |-> IF i = n + 1 THEN AddSample(f[i - 1], samples[i]) ELSE f[i]]
  <2>3. ASSUME NEW i \in 0..n + 1
        PROVE  g[i] = IF i = 0 THEN <<>> ELSE AddSample(g[i - 1], samples[i])
    <3>1. CASE i = 0
      BY <2>2, <3>1
    <3>2. CASE i \in 1..n
      <4>1. g[i] = f[i] /\ g[i - 1] = f[i - 1] /\ i # 0
        BY <2>2, <3>2
      <4> HIDE DEF g
      <4> QED
        BY <2>2, <3>2, <4>1
    <3>3. CASE i = n + 1
      <4>1. g[i] = AddSample(f[i - 1], samples[i]) /\ g[i - 1] = f[i - 1] /\ i # 0
        BY <2>2, <3>3
      <4> HIDE DEF g
      <4> QED
        BY <4>1
    <3> QED
      BY <2>2, <3>1, <3>2, <3>3
  <2>4. g = [i \in 0..n + 1 |-> g[i]]
    OBVIOUS
  <2> HIDE DEF g
  <2>5. Is(g, n + 1)
    BY <2>3, <2>4
  <2> HIDE DEF Is
  <2> QED
    BY <2>2, <2>5
<1>3. N = Nat
  <2> HIDE DEF N
  <2>1. N \in SUBSET Nat
    BY DEF N
  <2> QED
    BY <1>1, <1>2, <2>1, Induction
<1>4. \E f : Is(f, Len(samples))
  BY <1>3
<1> DEFINE f == CHOOSE f : Is(f, Len(samples))
<1>5. Is(f, Len(samples))
  BY <1>4
<1>6. Chunks(samples) = f[Len(samples)]
  BY DEF Chunks
<1> HIDE DEF f
<1>7. f[0] = <<>> /\ \A i \in 1..Len(samples) : f[i] = AddSample(f[i - 1], samples[i])
  BY <1>5
<1> QED
  BY <1>6, <1>7

\* Placed is what its recursion says.
LEMMA PlacedDefined ==
  ASSUME NEW t, Len(t.stco) \in Nat
  PROVE  \E f : /\ f[0] = <<>>
                /\ \A i \in 1..Len(t.stco) : f[i] = Place(t, f[i - 1], i)
                /\ Placed(t) = f[Len(t.stco)]
<1> DEFINE Is(f, n) == f = [i \in 0..n |-> IF i = 0 THEN <<>> ELSE Place(t, f[i - 1], i)]
           N == {n \in Nat : \E f : Is(f, n)}
<1>1. 0 \in N
  <2>1. Is([i \in 0..0 |-> <<>>], 0)
    OBVIOUS
  <2> HIDE DEF Is
  <2> QED
    BY <2>1
<1>2. ASSUME NEW n \in N PROVE n + 1 \in N
  <2>1. PICK f : Is(f, n)
    OBVIOUS
  <2>2. /\ n \in Nat /\ f[0] = <<>>
        /\ \A i \in 1..n : f[i] = Place(t, f[i - 1], i)
    BY <2>1
  <2> DEFINE g == [i \in 0..n + 1 |-> IF i = n + 1 THEN Place(t, f[i - 1], i) ELSE f[i]]
  <2>3. ASSUME NEW i \in 0..n + 1
        PROVE  g[i] = IF i = 0 THEN <<>> ELSE Place(t, g[i - 1], i)
    <3>1. CASE i = 0
      BY <2>2, <3>1
    <3>2. CASE i \in 1..n
      <4>1. g[i] = f[i] /\ g[i - 1] = f[i - 1] /\ i # 0
        BY <2>2, <3>2
      <4> HIDE DEF g
      <4> QED
        BY <2>2, <3>2, <4>1
    <3>3. CASE i = n + 1
      <4>1. g[i] = Place(t, f[i - 1], i) /\ g[i - 1] = f[i - 1] /\ i # 0
        BY <2>2, <3>3
      <4> HIDE DEF g
      <4> QED
        BY <4>1
    <3> QED
      BY <2>2, <3>1, <3>2, <3>3
  <2>4. g = [i \in 0..n + 1 |-> g[i]]
    OBVIOUS
  <2> HIDE DEF g
  <2>5. Is(g, n + 1)
    BY <2>3, <2>4
  <2> HIDE DEF Is
  <2> QED
    BY <2>2, <2>5
<1>3. N = Nat
  <2> HIDE DEF N
  <2>1. N \in SUBSET Nat
    BY DEF N
  <2> QED
    BY <1>1, <1>2, <2>1, Induction
<1>4. \E f : Is(f, Len(t.stco))
  BY <1>3
<1> DEFINE f == CHOOSE f : Is(f, Len(t.stco))
<1>5. Is(f, Len(t.stco))
  BY <1>4
<1>6. Placed(t) = f[Len(t.stco)]
  BY DEF Placed
<1> HIDE DEF f
<1>7. f[0] = <<>> /\ \A i \in 1..Len(t.stco) : f[i] = Place(t, f[i - 1], i)
  BY <1>5
<1> QED
  BY <1>6, <1>7

-----------------------------------------------------------------------------
(* Sums *)

\* A total grows by the number that is added.
LEMMA TotalAppend ==
  ASSUME NEW nums \in Seq(Nat), NEW x \in Nat
  PROVE  Total(Append(nums, x)) = Total(nums) + x
<1> DEFINE n  == Len(nums)
           tt == Append(nums, x)
<1>1. n \in Nat /\ Len(tt) = n + 1 /\ tt[n + 1] = x /\ \A i \in 1..n : tt[i] = nums[i]
  OBVIOUS
<1>2. PICK f : f[0] = 0 /\ (\A i \in 1..n : f[i] = f[i - 1] + nums[i]) /\ Total(nums) = f[n]
  BY <1>1, TotalDefined
<1> HIDE DEF n, tt
<1>3. PICK g : g[0] = 0 /\ (\A i \in 1..n + 1 : g[i] = g[i - 1] + tt[i]) /\ Total(tt) = g[n + 1]
  <2>1. Len(tt) \in Nat
    BY <1>1
  <2> QED
    BY <1>1, <2>1, TotalDefined
<1> DEFINE N == {i \in Nat : i <= n => g[i] = f[i]}
<1>4. 0 \in N
  BY <1>2, <1>3
<1>5. ASSUME NEW i \in N PROVE i + 1 \in N
  <2>1. i \in Nat /\ (i <= n => g[i] = f[i])
    OBVIOUS
  <2> HIDE DEF N
  <2>2. ASSUME i + 1 <= n PROVE g[i + 1] = f[i + 1]
    <3>1. i + 1 \in 1..n /\ i + 1 \in 1..n + 1 /\ (i + 1) - 1 = i /\ i <= n
      BY <1>1, <2>1, <2>2
    <3>2. g[i + 1] = g[i] + tt[i + 1] /\ f[i + 1] = f[i] + nums[i + 1]
      BY <1>2, <1>3, <3>1
    <3> QED
      BY <1>1, <2>1, <3>1, <3>2
  <2> QED
    BY <2>1, <2>2 DEF N
<1>6. N \in SUBSET Nat
  OBVIOUS
<1>7. N = Nat => g[n] = f[n]
  BY <1>1
<1> HIDE DEF N
<1>8. g[n] = f[n]
  BY <1>4, <1>5, <1>6, <1>7, Induction
<1>9. n + 1 \in 1..n + 1 /\ (n + 1) - 1 = n
  BY <1>1
<1>10. g[n + 1] = g[n] + x
  BY <1>1, <1>3, <1>9
<1> QED
  BY <1>2, <1>3, <1>8, <1>10 DEF tt

\* The total of no numbers.
LEMMA TotalEmpty == Total(<<>>) = 0
  BY TotalDefined

\* A total of naturals is one.
LEMMA TotalType == ASSUME NEW nums \in Seq(Nat) PROVE Total(nums) \in Nat
<1> DEFINE T == {s \in Seq(Nat) : Total(s) \in Nat}
<1>1. <<>> \in T
  BY TotalEmpty
<1>2. ASSUME NEW s \in T, NEW x \in Nat PROVE Append(s, x) \in T
  BY TotalAppend
<1>3. T \in SUBSET Seq(Nat)
  OBVIOUS
<1> HIDE DEF T
<1>4. T = Seq(Nat)
  BY <1>1, <1>2, <1>3, SeqInduction
<1> QED
  BY <1>4 DEF T

\* A sum grows by the number that comes next.
LEMMA TotalOfSub ==
  ASSUME NEW nums \in Seq(Nat), NEW a \in Nat, NEW k \in Nat, a + k + 1 \in 1..Len(nums)
  PROVE  /\ Total(SubSeq(nums, a + 1, a + k)) \in Nat
         /\ Total(SubSeq(nums, a + 1, a + k + 1)) = Total(SubSeq(nums, a + 1, a + k)) + nums[a + k + 1]
<1>1. SubSeq(nums, a + 1, a + k + 1) = Append(SubSeq(nums, a + 1, a + k), nums[a + k + 1])
  OBVIOUS
<1>2. SubSeq(nums, a + 1, a + k) \in Seq(Nat) /\ nums[a + k + 1] \in Nat
  OBVIOUS
<1> QED
  BY <1>1, <1>2, TotalAppend, TotalType

-----------------------------------------------------------------------------
(* Chunks *)

\* Samples that follow each other in the file.
IsChunk(chunk) ==
  chunk # <<>> /\ \A k \in 1..Len(chunk) - 1 : chunk[k + 1].offset = chunk[k].offset + chunk[k].size

\* A list of chunks.
IsChunks(chunks) == chunks \in Seq(Seq(Samples)) /\ \A c \in 1..Len(chunks) : IsChunk(chunks[c])

\* A sample is added at the end.
LEMMA AddSampleKeeps ==
  ASSUME NEW chunks, IsChunks(chunks), NEW s \in Samples
  PROVE  /\ IsChunks(AddSample(chunks, s))
         /\ FlattenSeq(AddSample(chunks, s)) = Append(FlattenSeq(chunks), s)
<1>0. chunks \in Seq(Seq(Samples))
  BY DEF IsChunks
<1>1. CASE chunks # <<>> /\ Continues(Last(chunks), s)
  <2> DEFINE front == Front(chunks)
             last  == Last(chunks)
  <2>1. front = SubSeq(chunks, 1, Len(chunks) - 1) /\ last = chunks[Len(chunks)]
    BY DEF Front, Last
  <2>2. Len(chunks) \in Nat \ {0}
    BY <1>0, <1>1
  <2>3. front \in Seq(Seq(Samples)) /\ Len(front) = Len(chunks) - 1
    <3> DEFINE m == Len(chunks) - 1
    <3>1. m \in Nat /\ m <= Len(chunks)
      BY <2>2
    <3> HIDE DEF m
    <3>2. SubSeq(chunks, 1, m) \in Seq(Seq(Samples)) /\ Len(SubSeq(chunks, 1, m)) = m
      BY <1>0, <3>1
    <3> QED
      BY <2>1, <3>2 DEF m
  <2>4. \A c \in 1..Len(chunks) - 1 : front[c] = chunks[c]
    BY <1>0, <2>1, <2>2
  <2>5. last \in Seq(Samples)
    BY <1>0, <2>1, <2>2
  <2>6. chunks = Append(front, last)
    BY <1>0, <2>1, <2>2
  <2>7. IsChunk(last) /\ \A c \in 1..Len(front) : IsChunk(front[c])
    <3> HIDE DEF front, last
    <3>1. Len(chunks) \in 1..Len(chunks) /\ 1..Len(front) \subseteq 1..Len(chunks)
      BY <2>2, <2>3
    <3>2. \A c \in 1..Len(chunks) : IsChunk(chunks[c])
      BY DEF IsChunks
    <3>3. IsChunk(last)
      BY <2>1, <3>1, <3>2
    <3>4. ASSUME NEW c \in 1..Len(front) PROVE IsChunk(front[c])
      BY <2>3, <2>4, <3>1, <3>2
    <3> QED
      BY <3>3, <3>4
  <2>8. AddSample(chunks, s) = Append(front, Append(last, s))
    BY <1>1 DEF AddSample
  <2>9. s.offset = Last(last).offset + Last(last).size
    BY <1>1 DEF Continues
  <2> HIDE DEF front, last
  <2>10. Append(last, s) \in Seq(Samples)
    BY <2>5
  <2>11. IsChunk(Append(last, s))
    <3>1. last # <<>> /\ Len(last) \in Nat /\ Last(last) = last[Len(last)] /\ Len(last) > 0
      BY <2>7, <2>5 DEF IsChunk, Last
    <3>2. /\ Len(Append(last, s)) = Len(last) + 1 /\ Append(last, s)[Len(last) + 1] = s
          /\ \A k \in 1..Len(last) : Append(last, s)[k] = last[k]
      BY <2>5
    <3>3. ASSUME NEW k \in 1..Len(last)
          PROVE  Append(last, s)[k + 1].offset = Append(last, s)[k].offset + Append(last, s)[k].size
      <4>1. CASE k = Len(last)
        BY <2>9, <3>1, <3>2, <4>1
      <4>2. CASE k # Len(last)
        <5>1. k \in 1..Len(last) - 1 /\ k + 1 \in 1..Len(last)
          BY <3>1, <4>2
        <5>2. last[k + 1].offset = last[k].offset + last[k].size
          BY <2>7, <5>1 DEF IsChunk
        <5> QED
          BY <3>2, <5>1, <5>2
      <4> QED
        BY <4>1, <4>2
    <3>4. Append(last, s) # <<>>
      BY <3>1, <3>2
    <3> QED
      BY <3>1, <3>2, <3>3, <3>4 DEF IsChunk
  <2>12. IsChunks(Append(front, Append(last, s)))
    BY <2>3, <2>7, <2>10, <2>11 DEF IsChunks
  <2>13. FlattenSeq(Append(front, Append(last, s))) = FlattenSeq(front) \o Append(last, s)
    BY <2>3, <2>10, FlattenAppend
  <2>14. FlattenSeq(chunks) = FlattenSeq(front) \o last
    BY <2>3, <2>5, <2>6, FlattenAppend
  <2>15. FlattenSeq(front) \o Append(last, s) = Append(FlattenSeq(front) \o last, s)
    <3>1. FlattenSeq(front) \in Seq(Samples)
      BY <2>3, FlattenType
    <3> QED
      BY <2>5, <3>1
  <2> QED
    BY <2>8, <2>12, <2>13, <2>14, <2>15
<1>2. CASE ~ (chunks # <<>> /\ Continues(Last(chunks), s))
  <2>1. AddSample(chunks, s) = Append(chunks, <<s>>)
    BY <1>2 DEF AddSample
  <2>2. <<s>> \in Seq(Samples) /\ IsChunk(<<s>>)
    BY DEF IsChunk
  <2>3. IsChunks(Append(chunks, <<s>>))
    BY <1>0, <2>2 DEF IsChunks
  <2>4. FlattenSeq(Append(chunks, <<s>>)) = FlattenSeq(chunks) \o <<s>>
    BY <1>0, <2>2, FlattenAppend
  <2>5. FlattenSeq(chunks) \o <<s>> = Append(FlattenSeq(chunks), s)
    BY <1>0, FlattenType
  <2> QED
    BY <2>1, <2>3, <2>4, <2>5
<1> QED
  BY <1>1, <1>2

\* chunksFromSamples loses no sample and joins only samples that follow each other.
LEMMA ChunksKeep ==
  ASSUME NEW samples \in Seq(Samples)
  PROVE  IsChunks(Chunks(samples)) /\ FlattenSeq(Chunks(samples)) = samples
<1> DEFINE n == Len(samples)
<1>1. n \in Nat
  OBVIOUS
<1>2. PICK f : f[0] = <<>> /\ (\A i \in 1..n : f[i] = AddSample(f[i - 1], samples[i])) /\ Chunks(samples) = f[n]
  BY <1>1, ChunksDefined
<1> DEFINE Good(i) == IsChunks(f[i]) /\ FlattenSeq(f[i]) = SubSeq(samples, 1, i)
           N == {i \in Nat : i <= n => Good(i)}
<1>3. Good(0)
  <2>1. SubSeq(samples, 1, 0) = <<>> /\ IsChunks(<<>>)
    BY DEF IsChunks
  <2> QED
    BY <1>2, <2>1, FlattenEmpty
<1>4. ASSUME NEW i \in Nat, i + 1 <= n, Good(i) PROVE Good(i + 1)
  <2>1. f[i + 1] = AddSample(f[i], samples[i + 1]) /\ samples[i + 1] \in Samples
    <3>1. i + 1 \in 1..n /\ (i + 1) - 1 = i
      BY <1>1, <1>4
    <3> QED
      BY <1>2, <3>1
  <2>2. SubSeq(samples, 1, i + 1) = Append(SubSeq(samples, 1, i), samples[i + 1])
    BY <1>4
  <2> QED
    BY <1>4, <2>1, <2>2, AddSampleKeeps
<1> HIDE DEF Good, n
<1>5. 0 \in N
  BY <1>3
<1>6. ASSUME NEW i \in N PROVE i + 1 \in N
  BY <1>1, <1>4
<1>7. N \in SUBSET Nat
  OBVIOUS
<1>8. N = Nat => Good(n)
  BY <1>1
<1> HIDE DEF N
<1>9. Good(n)
  BY <1>5, <1>6, <1>7, <1>8, Induction
<1>10. SubSeq(samples, 1, n) = samples
  BY DEF n
<1> QED
  BY <1>2, <1>9, <1>10 DEF Good

-----------------------------------------------------------------------------
(* The parser *)

\* The greatest of the numbers up to c.
LEMMA MaxUpTo == ASSUME NEW c \in Nat \ {0} PROVE Max(1..c) = c
<1>1. c \in 1..c /\ \A y \in 1..c : c >= y
  OBVIOUS
<1>2. \A x \in 1..c : (\A y \in 1..c : x >= y) => x = c
  OBVIOUS
<1> QED
  BY <1>1, <1>2 DEF Max

\* The smaller of two numbers.
LEMMA MinOfTwo == ASSUME NEW a \in Nat, NEW b \in Nat, a <= b PROVE Min({a, b}) = a
<1>1. a \in {a, b} /\ \A y \in {a, b} : a <= y
  OBVIOUS
<1>2. \A x \in {a, b} : (\A y \in {a, b} : x <= y) => x = a
  OBVIOUS
<1> QED
  BY <1>1, <1>2 DEF Min

\* One sequence of one element for each element gives the sequence.
LEMMA OneByOne ==
  ASSUME NEW S, NEW s \in Seq(S), NEW ss \in Seq(Seq(S)), Len(ss) = Len(s),
         \A i \in 1..Len(s) : Len(ss[i]) = 1 /\ ss[i][1] = s[i]
  PROVE  FlattenSeq(ss) = s /\ \A i \in 1..Len(s) : Start(ss, i) = i - 1
<1> DEFINE n == Len(s)
           N == {i \in Nat : i <= n => Start(ss, i + 1) = i}
<1>1. n \in Nat
  OBVIOUS
<1>2. 0 \in N
  BY Starts
<1>3. ASSUME NEW i \in N PROVE i + 1 \in N
  <2>1. CASE i + 1 <= n
    <3>1. i + 1 \in 1..Len(ss) /\ i \in Nat /\ i <= n
      BY <1>1, <2>1
    <3>2. Start(ss, i + 1) = i /\ Len(ss[i + 1]) = 1
      BY <3>1
    <3>3. Start(ss, (i + 1) + 1) = Start(ss, i + 1) + Len(ss[i + 1])
      BY <3>1, Starts
    <3> QED
      BY <3>1, <3>2, <3>3
  <2> QED
    BY <2>1
<1>4. N \in SUBSET Nat
  OBVIOUS
<1>5. N = Nat
  <2> HIDE DEF N
  <2> QED
    BY <1>2, <1>3, <1>4, Induction
<1>6. \A i \in 1..n : Start(ss, i) = i - 1
  <2> TAKE i \in 1..n
  <2>1. i - 1 \in Nat /\ i - 1 <= n /\ (i - 1) + 1 = i
    BY <1>1
  <2> QED
    BY <1>5, <2>1
<1>7. Len(FlattenSeq(ss)) = n
  <2>1. n \in Nat /\ n <= n
    BY <1>1
  <2>2. Start(ss, n + 1) = n
    BY <1>5, <2>1
  <2> QED
    BY <2>2, Starts
<1>8. ASSUME NEW i \in 1..n PROVE FlattenSeq(ss)[i] = s[i]
  <2>1. 1 \in 1..Len(ss[i]) /\ i \in 1..Len(ss) /\ (i - 1) + 1 = i
    BY <1>1
  <2>2. FlattenSeq(ss)[Start(ss, i) + 1] = ss[i][1]
    BY <2>1, FlattenAt
  <2> QED
    BY <1>6, <2>1, <2>2
<1>9. FlattenSeq(ss) \in Seq(S)
  BY FlattenType
<1> HIDE DEF n, N
<1>10. FlattenSeq(ss) = s
  <2> DEFINE f == FlattenSeq(ss)
  <2>1. f \in Seq(S) /\ Len(f) = Len(s) /\ \A i \in 1..Len(s) : f[i] = s[i]
    BY <1>7, <1>8, <1>9 DEF n
  <2> HIDE DEF f
  <2>2. f = s
    BY <2>1, SeqEqual
  <2> QED
    BY <2>2 DEF f
<1> QED
  BY <1>6, <1>10 DEF n

\* What the parser does not find in the tables of sizes and times.
Forget(s) == [i \in DOMAIN s |->
    [offset |-> s[i].offset, size |-> s[i].size, sync |-> FALSE, delta |-> s[i].delta]]

\* Samples without sync marks are samples.
LEMMA ForgetType == ASSUME NEW s \in Seq(Samples)
                    PROVE  Forget(s) \in Seq(Samples) /\ Len(Forget(s)) = Len(s)
<1>1. \A i \in 1..Len(s) : s[i] \in Samples
  OBVIOUS
<1>2. DOMAIN Forget(s) = 1..Len(s)
  BY DEF Forget
<1>3. \A i \in 1..Len(s) : Forget(s)[i] \in Samples
  BY <1>1 DEF Forget, Samples
<1>4. Forget(s) = [i \in 1..Len(s) |-> Forget(s)[i]]
  BY DEF Forget
<1> HIDE DEF Forget
<1>5. Len(s) \in Nat
  OBVIOUS
<1> QED
  BY <1>2, <1>3, <1>4, <1>5

\* The table of times, run by run.
LEMMA DeltasOf ==
  ASSUME NEW s \in Seq(Samples), NEW t,
         t.stts = [i \in DOMAIN s |-> [count |-> 1, delta |-> s[i].delta]]
  PROVE  Deltas(t) = [i \in 1..Len(s) |-> s[i].delta]
<1> DEFINE d  == [i \in 1..Len(s) |-> s[i].delta]
           dd == [i \in DOMAIN t.stts |-> [j \in 1..t.stts[i].count |-> t.stts[i].delta]]
<1>1. \A i \in 1..Len(s) : s[i].delta \in Nat
  <2> TAKE i \in 1..Len(s)
  <2>1. s[i] \in Samples
    OBVIOUS
  <2> QED
    BY <2>1 DEF Samples
<1>2. d \in Seq(Nat) /\ Len(d) = Len(s)
  BY <1>1
<1>3. DOMAIN t.stts = 1..Len(s) /\ DOMAIN dd = 1..Len(s)
  OBVIOUS
<1>4. ASSUME NEW i \in 1..Len(s)
      PROVE  dd[i] \in Seq(Nat) /\ Len(dd[i]) = 1 /\ dd[i][1] = d[i]
  <2>1. t.stts[i] = [count |-> 1, delta |-> s[i].delta]
    OBVIOUS
  <2>2. dd[i] = [j \in 1..1 |-> s[i].delta]
    BY <1>3, <2>1
  <2> QED
    BY <1>1, <2>2
<1>5. dd = [i \in 1..Len(s) |-> dd[i]] /\ Len(s) \in Nat
  BY <1>3
<1> HIDE DEF d, dd
<1>6. dd \in Seq(Seq(Nat)) /\ Len(dd) = Len(s)
  BY <1>4, <1>5
<1>7. FlattenSeq(dd) = d
  BY <1>2, <1>4, <1>6, OneByOne
<1> QED
  BY <1>7 DEF Deltas, d, dd

\* What concatenation does, element by element.
LEMMA Joined ==
  ASSUME NEW S, NEW s \in Seq(S), NEW t \in Seq(S)
  PROVE  /\ Len(s \o t) = Len(s) + Len(t) /\ s \o t \in Seq(S)
         /\ \A m \in 1..Len(s) : (s \o t)[m] = s[m]
         /\ \A k \in 1..Len(t) : (s \o t)[Len(s) + k] = t[k]
  OBVIOUS

\* Where a sample lies.
Placements == [offset : Nat, size : Nat]

\* The sizes of samples.
LEMMA SizesType == ASSUME NEW s \in Seq(Samples)
                   PROVE  /\ Sizes(s) \in Seq(Nat) /\ Len(Sizes(s)) = Len(s)
                          /\ \A i \in 1..Len(s) : Sizes(s)[i] = s[i].size
<1>1. \A i \in 1..Len(s) : s[i].size \in Nat
  <2> TAKE i \in 1..Len(s)
  <2>1. s[i] \in Samples
    OBVIOUS
  <2> QED
    BY <2>1 DEF Samples
<1>2. Sizes(s) = [i \in 1..Len(s) |-> s[i].size] /\ Len(s) \in Nat
  BY DEF Sizes
<1> QED
  BY <1>1, <1>2

\* The sizes of the samples lead from the beginning of a chunk to each of them.
LEMMA OffsetsInChunk ==
  ASSUME NEW chunks, IsChunks(chunks), NEW c \in 1..Len(chunks), NEW k \in 1..Len(chunks[c])
  PROVE  chunks[c][1].offset
            + Total(SubSeq(Sizes(FlattenSeq(chunks)), Start(chunks, c) + 1, Start(chunks, c) + k - 1))
         = chunks[c][k].offset
<1> DEFINE sizes == Sizes(FlattenSeq(chunks))
           a     == Start(chunks, c)
           chunk == chunks[c]
           Sum(j) == Total(SubSeq(sizes, a + 1, a + j))
           N     == {j \in Nat : j + 1 <= Len(chunk) => chunk[1].offset + Sum(j) = chunk[j + 1].offset}
<1>1. chunks \in Seq(Seq(Samples)) /\ IsChunk(chunk)
  BY DEF IsChunks
<1>2. chunk \in Seq(Samples) /\ Len(chunk) \in Nat
  BY <1>1
<1>3. FlattenSeq(chunks) \in Seq(Samples)
  BY <1>1, FlattenType
<1>4. /\ sizes \in Seq(Nat) /\ Len(sizes) = Len(FlattenSeq(chunks))
      /\ \A i \in 1..Len(sizes) : sizes[i] = FlattenSeq(chunks)[i].size
  BY <1>3, SizesType
<1>5. a \in Nat /\ a + Len(chunk) <= Len(sizes)
  BY <1>1, <1>4, Starts, FlattenAt
<1>6. ASSUME NEW j \in 1..Len(chunk) PROVE sizes[a + j] = chunk[j].size
  <2>1. a + j \in 1..Len(sizes)
    BY <1>2, <1>4, <1>5
  <2>2. FlattenSeq(chunks)[a + j] = chunk[j]
    BY <1>1, FlattenAt
  <2> HIDE DEF sizes, a, chunk
  <2> QED
    BY <1>4, <2>1, <2>2
<1>7. \A j \in 1..Len(chunk) : chunk[j].offset \in Nat /\ chunk[j].size \in Nat
  <2> TAKE j \in 1..Len(chunk)
  <2>1. chunk[j] \in Samples
    BY <1>2
  <2> QED
    BY <2>1 DEF Samples
<1>8. \A j \in 1..Len(chunk) - 1 : chunk[j + 1].offset = chunk[j].offset + chunk[j].size
  BY <1>1 DEF IsChunk
<1> HIDE DEF sizes, a, chunk
<1>9. 0 \in N
  <2>1. SubSeq(sizes, a + 1, a + 0) = <<>>
    BY <1>4, <1>5
  <2>2. Sum(0) = 0
    BY <2>1, TotalEmpty
  <2> HIDE DEF Sum
  <2>3. 1 <= Len(chunk) => chunk[1].offset \in Nat
    BY <1>2, <1>7
  <2> QED
    BY <2>2, <2>3
<1>10. ASSUME NEW j \in N PROVE j + 1 \in N
  <2> SUFFICES ASSUME (j + 1) + 1 <= Len(chunk)
               PROVE  chunk[1].offset + Sum(j + 1) = chunk[(j + 1) + 1].offset
    OBVIOUS
  <2>1. j \in Nat /\ j + 1 \in 1..Len(chunk) - 1 /\ j + 1 \in 1..Len(chunk) /\ j + 1 <= Len(chunk)
    BY <1>2
  <2>2. chunk[1].offset + Sum(j) = chunk[j + 1].offset
    BY <2>1
  <2>3. a + j + 1 \in 1..Len(sizes) /\ a + (j + 1) = a + j + 1
    BY <1>2, <1>4, <1>5, <2>1
  <2>4. Sum(j) \in Nat /\ Sum(j + 1) = Sum(j) + sizes[a + j + 1]
    <3>1. sizes \in Seq(Nat) /\ a \in Nat /\ j \in Nat /\ a + j + 1 \in 1..Len(sizes)
      BY <1>4, <1>5, <2>1, <2>3
    <3>2. /\ Total(SubSeq(sizes, a + 1, a + j)) \in Nat
          /\ Total(SubSeq(sizes, a + 1, a + j + 1))
               = Total(SubSeq(sizes, a + 1, a + j)) + sizes[a + j + 1]
      BY <3>1, TotalOfSub
    <3> QED
      BY <2>3, <3>2
  <2>5. sizes[a + j + 1] = chunk[j + 1].size
    BY <1>6, <2>1, <2>3
  <2>6. 1 \in 1..Len(chunk)
    BY <1>2, <2>1
  <2> HIDE DEF Sum, N
  <2> QED
    BY <1>7, <1>8, <2>1, <2>2, <2>4, <2>5, <2>6
<1>11. N \in SUBSET Nat
  OBVIOUS
<1>12. k - 1 \in Nat /\ (k - 1) + 1 = k /\ k <= Len(chunk)
  BY <1>2 DEF chunk
<1>13. k - 1 \in N
  <2> HIDE DEF N
  <2> QED
    BY <1>9, <1>10, <1>11, <1>12, Induction
<1>14. a + (k - 1) = a + k - 1
  BY <1>5, <1>12
<1>15. chunk[1].offset + Sum(k - 1) = chunk[k].offset
  <2> HIDE DEF Sum
  <2> QED
    BY <1>12, <1>13
<1> QED
  BY <1>14, <1>15 DEF sizes, a, chunk

\* The tables of some chunks.
TablesOf(t, chunks) ==
    LET s == FlattenSeq(chunks) IN
    /\ t.stts = [i \in DOMAIN s |-> [count |-> 1, delta |-> s[i].delta]]
    /\ t.stsz = Sizes(s)
    /\ Len(t.stco) = Len(chunks)
    /\ \A c \in 1..Len(chunks) : t.stco[c] = chunks[c][1].offset /\ PerChunk(t, c) = Len(chunks[c])

\* The samples of the first c chunks are placed where they lie.
PlacedUpTo(chunks, placed, c) ==
    /\ Len(placed) = Start(chunks, c + 1)
    /\ placed \in Seq(Placements)
    /\ \A m \in 1..Len(placed) : placed[m] = [offset |-> FlattenSeq(chunks)[m].offset,
                                              size |-> FlattenSeq(chunks)[m].size]

\* The samples placed in one chunk of the tables are the samples of that chunk.
LEMMA PlaceChunk ==
  ASSUME NEW chunks, IsChunks(chunks), NEW t, TablesOf(t, chunks), NEW c \in 1..Len(chunks),
         NEW placed, PlacedUpTo(chunks, placed, c - 1)
  PROVE  PlacedUpTo(chunks, Place(t, placed, c), c)
<1> DEFINE s == FlattenSeq(chunks)
           a == Start(chunks, c)
           chunk == chunks[c]
           Entry(k) == [offset |-> t.stco[c] + Total(SubSeq(t.stsz, Len(placed) + 1, Len(placed) + k - 1)),
                        size   |-> t.stsz[Len(placed) + k]]
           n == Min({PerChunk(t, c), Len(t.stsz) - Len(placed)})
           more == [k \in 1..Len(chunk) |-> [offset |-> chunk[k].offset, size |-> chunk[k].size]]
<1>1. chunks \in Seq(Seq(Samples)) /\ chunk \in Seq(Samples) /\ Len(chunk) \in Nat
  BY DEF IsChunks
<1>2. s \in Seq(Samples)
  BY <1>1, FlattenType
<1>3. t.stsz = Sizes(s) /\ t.stco[c] = chunk[1].offset /\ PerChunk(t, c) = Len(chunk)
  BY DEF TablesOf
<1>4. a \in Nat /\ a + Len(chunk) <= Len(s) /\ Start(chunks, c + 1) = a + Len(chunk)
  BY <1>1, Starts, FlattenAt
<1>5. \A k \in 1..Len(chunk) : s[a + k] = chunk[k]
  BY <1>1, FlattenAt
<1>6. /\ Len(t.stsz) = Len(s) /\ Len(s) \in Nat
      /\ \A i \in 1..Len(s) : t.stsz[i] = s[i].size
  BY <1>2, <1>3, SizesType
<1>7. /\ Len(placed) = a /\ placed \in Seq(Placements)
      /\ \A m \in 1..a : placed[m] = [offset |-> s[m].offset, size |-> s[m].size]
  <2>1. (c - 1) + 1 = c
    OBVIOUS
  <2> QED
    BY <2>1 DEF PlacedUpTo
<1>8. n = Len(chunk)
  <2> HIDE DEF a, s, chunk
  <2>1. Len(t.stsz) - Len(placed) \in Nat /\ Len(chunk) <= Len(t.stsz) - Len(placed)
    BY <1>1, <1>4, <1>6, <1>7
  <2> QED
    BY <1>1, <1>3, <2>1, MinOfTwo
<1>9. ASSUME NEW k \in 1..Len(chunk) PROVE Entry(k) = [offset |-> chunk[k].offset, size |-> chunk[k].size]
  <2>1. chunk[1].offset + Total(SubSeq(Sizes(s), a + 1, a + k - 1)) = chunk[k].offset
    BY OffsetsInChunk
  <2>2. t.stsz[a + k] = chunk[k].size
    <3> HIDE DEF a, s, chunk
    <3>1. a + k \in 1..Len(s)
      BY <1>1, <1>4, <1>6
    <3> QED
      BY <1>5, <1>6, <3>1
  <2> HIDE DEF a, s, chunk
  <2> QED
    BY <1>3, <1>7, <2>1, <2>2
<1>10. Place(t, placed, c) = placed \o [k \in 1..n |-> Entry(k)]
  BY DEF Place
<1> HIDE DEF a, s, chunk, n, Entry
<1>11. Place(t, placed, c) = placed \o more
  <2>1. [k \in 1..Len(chunk) |-> Entry(k)] = more
    BY <1>9
  <2> QED
    BY <1>8, <1>10, <2>1
<1>12. ASSUME NEW k \in 1..Len(chunk)
       PROVE  more[k] = [offset |-> chunk[k].offset, size |-> chunk[k].size]
              /\ more[k] \in Placements
  <2>1. chunk[k] \in Samples
    BY <1>1
  <2> QED
    BY <2>1 DEF Samples, Placements, more
<1>13. more \in Seq(Placements) /\ Len(more) = Len(chunk)
  BY <1>1, <1>12
<1> HIDE DEF more
<1>14. /\ Len(placed \o more) = a + Len(chunk) /\ placed \o more \in Seq(Placements)
       /\ \A m \in 1..a : (placed \o more)[m] = placed[m]
       /\ \A k \in 1..Len(chunk) : (placed \o more)[a + k] = more[k]
  <2>2. /\ Len(placed \o more) = Len(placed) + Len(more) /\ placed \o more \in Seq(Placements)
        /\ \A m \in 1..Len(placed) : (placed \o more)[m] = placed[m]
        /\ \A k \in 1..Len(more) : (placed \o more)[Len(placed) + k] = more[k]
    <3>1. placed \in Seq(Placements) /\ more \in Seq(Placements)
      BY <1>7, <1>13
    <3>2. \A u, v \in Seq(Placements) :
             /\ Len(u \o v) = Len(u) + Len(v) /\ u \o v \in Seq(Placements)
             /\ \A m \in 1..Len(u) : (u \o v)[m] = u[m]
             /\ \A k \in 1..Len(v) : (u \o v)[Len(u) + k] = v[k]
      BY Joined
    <3> QED
      BY <3>1, <3>2
  <2> QED
    BY <1>7, <1>13, <2>2
<1>15. ASSUME NEW m \in 1..a + Len(chunk)
       PROVE  (placed \o more)[m] = [offset |-> s[m].offset, size |-> s[m].size]
  <2>1. CASE m \in 1..a
    BY <1>7, <1>14, <2>1
  <2>2. CASE m \notin 1..a
    <3> DEFINE k == m - a
    <3>1. k \in 1..Len(chunk) /\ m = a + k
      BY <1>1, <1>4, <2>2
    <3> HIDE DEF k
    <3>2. (placed \o more)[m] = more[k] /\ s[m] = chunk[k]
      BY <1>5, <1>14, <3>1
    <3> QED
      BY <1>12, <3>1, <3>2
  <2> QED
    BY <2>1, <2>2
<1> QED
  BY <1>4, <1>11, <1>14, <1>15 DEF s, PlacedUpTo

\* What the parser finds in the tables of some chunks.
LEMMA ParserReads ==
  ASSUME NEW chunks, IsChunks(chunks), NEW t, TablesOf(t, chunks)
  PROVE  SampleEntries(t) = Forget(FlattenSeq(chunks))
<1> DEFINE s == FlattenSeq(chunks)
           C == Len(chunks)
<1>1. chunks \in Seq(Seq(Samples)) /\ C \in Nat /\ Len(t.stco) = C
  BY DEF IsChunks, TablesOf
<1>2. s \in Seq(Samples) /\ Start(chunks, 1) = 0 /\ Start(chunks, C + 1) = Len(s)
  BY <1>1, FlattenType, Starts
<1>3. PICK f : f[0] = <<>> /\ (\A c \in 1..C : f[c] = Place(t, f[c - 1], c)) /\ Placed(t) = f[C]
  BY <1>1, PlacedDefined
<1> HIDE DEF s, C
<1>4. PlacedUpTo(chunks, f[0], 0)
  <2>1. Len(<<>>) = 0 /\ <<>> \in Seq(Placements) /\ 0 + 1 = 1
    OBVIOUS
  <2> QED
    BY <1>2, <1>3, <2>1 DEF PlacedUpTo
<1>5. ASSUME NEW c \in 1..C, PlacedUpTo(chunks, f[c - 1], c - 1) PROVE PlacedUpTo(chunks, f[c], c)
  BY <1>3, <1>5, PlaceChunk DEF C
<1> DEFINE N == {c \in Nat : c <= C => PlacedUpTo(chunks, f[c], c)}
<1>6. N = Nat
  <2>1. 0 \in N
    BY <1>4
  <2>2. ASSUME NEW c \in N PROVE c + 1 \in N
    <3>1. CASE c + 1 <= C
      <4>1. c + 1 \in 1..C /\ (c + 1) - 1 = c /\ c <= C
        BY <1>1, <3>1
      <4> QED
        BY <1>5, <4>1
    <3> QED
      BY <3>1
  <2>3. N \in SUBSET Nat
    OBVIOUS
  <2> HIDE DEF N
  <2> QED
    BY <2>1, <2>2, <2>3, Induction
<1>7. PlacedUpTo(chunks, Placed(t), C)
  BY <1>1, <1>3, <1>6
<1>8. Len(Placed(t)) = Len(s) /\ Len(s) \in Nat /\ DOMAIN Placed(t) = 1..Len(s)
  BY <1>2, <1>7 DEF PlacedUpTo
<1>9. t.stsz = Sizes(s) /\ t.stts = [i \in DOMAIN s |-> [count |-> 1, delta |-> s[i].delta]]
  BY DEF TablesOf, s
<1>10. Len(t.stsz) = Len(s)
  BY <1>2, <1>9, SizesType
<1>11. Deltas(t) = [i \in 1..Len(s) |-> s[i].delta]
  BY <1>2, <1>9, DeltasOf
<1>12. SampleEntries(t) = Timed(Placed(t), Deltas(t))
  BY <1>8, <1>10 DEF SampleEntries
<1>13. \A m \in 1..Len(s) : Placed(t)[m].offset = s[m].offset /\ Placed(t)[m].size = s[m].size
  BY <1>7, <1>8 DEF PlacedUpTo, s
<1>14. DOMAIN s = 1..Len(s)
  BY <1>2
<1>15. Timed(Placed(t), Deltas(t)) = Forget(s)
  BY <1>8, <1>11, <1>13, <1>14 DEF Timed, Forget
<1> QED
  BY <1>12, <1>15 DEF s

\* An entry of stsc for every chunk.
LEMMA MergedTablesRead ==
  ASSUME NEW chunks, IsChunks(chunks)
  PROVE  SampleEntries(MergedTables(chunks)) = Forget(FlattenSeq(chunks))
<1> DEFINE t == MergedTables(chunks)
           stsc == [c \in DOMAIN chunks |-> [first |-> c, per |-> Len(chunks[c])]]
           stco == [c \in DOMAIN chunks |-> chunks[c][1].offset]
<1>1. chunks \in Seq(Seq(Samples)) /\ DOMAIN chunks = 1..Len(chunks) /\ Len(chunks) \in Nat
  BY DEF IsChunks
<1>2. /\ t.stts = [i \in DOMAIN FlattenSeq(chunks) |->
                     [count |-> 1, delta |-> FlattenSeq(chunks)[i].delta]]
      /\ t.stsz = Sizes(FlattenSeq(chunks)) /\ t.stsc = stsc /\ t.stco = stco
  BY DEF MergedTables, Tables
<1> HIDE DEF t
<1>3. Len(t.stco) = Len(chunks)
  BY <1>1, <1>2
<1>4. ASSUME NEW c \in 1..Len(chunks)
      PROVE  t.stco[c] = chunks[c][1].offset /\ PerChunk(t, c) = Len(chunks[c])
  <2> DEFINE begun == {e \in DOMAIN t.stsc : t.stsc[e].first <= c}
  <2>1. \A e \in 1..Len(chunks) : t.stsc[e].first = e
    BY <1>1, <1>2
  <2>2. DOMAIN t.stsc = 1..Len(chunks)
    BY <1>1, <1>2
  <2>3. begun = {e \in 1..Len(chunks) : e <= c}
    BY <2>1, <2>2
  <2>4. begun = 1..c
    BY <1>1, <2>3
  <2>5. begun # {} /\ Max(begun) = c
    <3> HIDE DEF begun
    <3>1. c \in Nat \ {0} /\ Max(1..c) = c /\ c \in 1..c
      BY MaxUpTo
    <3> QED
      BY <2>4, <3>1
  <2>6. PerChunk(t, c) = t.stsc[c].per
    BY <2>5 DEF PerChunk
  <2> QED
    BY <1>1, <1>2, <2>6
<1> HIDE DEF stsc, stco
<1>5. TablesOf(t, chunks)
  BY <1>2, <1>3, <1>4 DEF TablesOf
<1> QED
  BY <1>5, ParserReads DEF t

\* One entry of stsc for all the chunks of one sample.
LEMMA SegmentTablesRead ==
  ASSUME NEW s \in Seq(Samples)
  PROVE  SampleEntries(SegmentTables(s)) = Forget(s)
<1> DEFINE t      == SegmentTables(s)
           chunks == [i \in 1..Len(s) |-> <<s[i]>>]
<1>1. Len(s) \in Nat /\ DOMAIN s = 1..Len(s)
  OBVIOUS
<1>2. \A i \in 1..Len(s) : /\ chunks[i] = <<s[i]>> /\ <<s[i]>> \in Seq(Samples)
                           /\ Len(chunks[i]) = 1 /\ chunks[i][1] = s[i]
  OBVIOUS
<1>3. chunks \in Seq(Seq(Samples)) /\ Len(chunks) = Len(s)
  BY <1>1, <1>2
<1> HIDE DEF chunks
<1>4. FlattenSeq(chunks) = s
  BY <1>2, <1>3, OneByOne
<1>5. IsChunks(chunks)
  <2>1. ASSUME NEW i \in 1..Len(chunks) PROVE IsChunk(chunks[i])
    <3>1. Len(chunks[i]) = 1 /\ chunks[i] # <<>>
      BY <1>2, <1>3
    <3> QED
      BY <3>1 DEF IsChunk
  <2> QED
    BY <1>3, <2>1 DEF IsChunks
<1>6. /\ t.stts = [i \in DOMAIN s |-> [count |-> 1, delta |-> s[i].delta]]
      /\ t.stsz = Sizes(s)
      /\ t.stsc = IF s = <<>> THEN <<>> ELSE <<[first |-> 1, per |-> 1]>>
      /\ t.stco = [i \in DOMAIN s |-> s[i].offset]
  BY DEF SegmentTables, Tables
<1> HIDE DEF t
<1>7. Len(t.stco) = Len(s)
  BY <1>1, <1>6
<1>8. ASSUME NEW c \in 1..Len(s) PROVE t.stco[c] = s[c].offset /\ PerChunk(t, c) = 1
  <2> DEFINE begun == {e \in DOMAIN t.stsc : t.stsc[e].first <= c}
  <2>1. s # <<>> /\ t.stsc = <<[first |-> 1, per |-> 1]>>
    BY <1>1, <1>6
  <2>2. DOMAIN t.stsc = 1..1 /\ t.stsc[1].first = 1 /\ t.stsc[1].per = 1
    BY <2>1
  <2>3. begun = 1..1
    BY <1>1, <2>2
  <2>4. begun # {} /\ Max(begun) = 1
    <3> HIDE DEF begun
    <3>1. 1 \in Nat \ {0} /\ 1 \in 1..1
      OBVIOUS
    <3>2. Max(1..1) = 1
      BY <3>1, MaxUpTo
    <3> QED
      BY <2>3, <3>1, <3>2
  <2>5. PerChunk(t, c) = t.stsc[1].per
    BY <2>4 DEF PerChunk
  <2> QED
    BY <1>1, <1>6, <2>2, <2>5
<1>9. TablesOf(t, chunks)
  <2>1. \A c \in 1..Len(chunks) : t.stco[c] = chunks[c][1].offset /\ PerChunk(t, c) = Len(chunks[c])
    BY <1>2, <1>3, <1>8
  <2>2. Len(t.stco) = Len(chunks)
    BY <1>3, <1>7
  <2> QED
    BY <1>4, <1>6, <2>1, <2>2 DEF TablesOf
<1> QED
  BY <1>4, <1>5, <1>9, ParserReads DEF t

\* A function from 1..n is a sequence.
LEMMA IsSequence ==
  ASSUME NEW S, NEW n \in Nat, NEW f, f = [i \in 1..n |-> f[i]], \A i \in 1..n : f[i] \in S
  PROVE  f \in Seq(S) /\ Len(f) = n /\ DOMAIN f = 1..n
<1>1. f \in [1..n -> S] /\ DOMAIN f = 1..n
  OBVIOUS
<1>2. f \in Seq(S)
  BY <1>1
<1>3. DOMAIN f = 1..Len(f) /\ Len(f) \in Nat
  BY <1>2
<1> QED
  BY <1>1, <1>2, <1>3

-----------------------------------------------------------------------------
(* Copies of frames *)

\* What is related in the parts is related in the whole.
LEMMA FlattenRelated ==
  ASSUME NEW S, NEW U, NEW R, NEW ss \in Seq(Seq(S)), NEW uu \in Seq(Seq(U)), Len(ss) = Len(uu),
         \A i \in 1..Len(ss) : /\ Len(ss[i]) = Len(uu[i])
                               /\ \A j \in 1..Len(ss[i]) : <<ss[i][j], uu[i][j]>> \in R
  PROVE  /\ Len(FlattenSeq(ss)) = Len(FlattenSeq(uu))
         /\ \A k \in 1..Len(FlattenSeq(ss)) : <<FlattenSeq(ss)[k], FlattenSeq(uu)[k]>> \in R
<1>1. \A i \in 1..Len(ss) : Len(ss[i]) = Len(uu[i])
  OBVIOUS
<1>2. Len(FlattenSeq(ss)) = Len(FlattenSeq(uu)) /\ \A i \in 1..Len(ss) : Start(ss, i) = Start(uu, i)
  BY <1>1, SameStarts
<1>3. ASSUME NEW k \in 1..Len(FlattenSeq(ss)) PROVE <<FlattenSeq(ss)[k], FlattenSeq(uu)[k]>> \in R
  <2>1. PICK i \in 1..Len(ss), j \in Nat : j \in 1..Len(ss[i]) /\ k = Start(ss, i) + j
    BY FlattenFrom
  <2>2. FlattenSeq(ss)[k] = ss[i][j]
    BY <2>1, FlattenAt
  <2>3. i \in 1..Len(uu) /\ j \in 1..Len(uu[i]) /\ k = Start(uu, i) + j
    BY <1>1, <1>2, <2>1
  <2>4. FlattenSeq(uu)[k] = uu[i][j]
    BY <2>3, FlattenAt
  <2> QED
    BY <2>1, <2>2, <2>4
<1> QED
  BY <1>2, <1>3

\* Where the sequences begin is the sum of the lengths before.
LEMMA StartIsTotal ==
  ASSUME NEW S, NEW ss \in Seq(Seq(S)), NEW nums \in Seq(Nat), Len(nums) = Len(ss),
         \A i \in 1..Len(ss) : nums[i] = Len(ss[i])
  PROVE  /\ \A i \in 1..Len(ss) : Start(ss, i) = Total(SubSeq(nums, 1, i - 1))
         /\ Len(FlattenSeq(ss)) = Total(nums)
<1> DEFINE n == Len(ss)
           N == {i \in Nat : i <= n => Start(ss, i + 1) = Total(SubSeq(nums, 1, i))}
<1>1. n \in Nat /\ SubSeq(nums, 1, n) = nums /\ SubSeq(nums, 1, 0) = <<>>
  OBVIOUS
<1>2. 0 \in N
  <2>1. Start(ss, 0 + 1) = 0
    BY Starts
  <2>2. Total(SubSeq(nums, 1, 0)) = 0
    BY <1>1, TotalEmpty
  <2> QED
    BY <2>1, <2>2
<1>3. ASSUME NEW i \in N PROVE i + 1 \in N
  <2> SUFFICES ASSUME i + 1 <= n PROVE Start(ss, (i + 1) + 1) = Total(SubSeq(nums, 1, i + 1))
    OBVIOUS
  <2>1. i \in Nat /\ i + 1 \in 1..n /\ i <= n
    BY <1>1
  <2>2. Start(ss, i + 1) = Total(SubSeq(nums, 1, i))
    BY <2>1
  <2> HIDE DEF N
  <2>3. Start(ss, (i + 1) + 1) = Start(ss, i + 1) + Len(ss[i + 1])
    BY <2>1, Starts
  <2>4. Total(SubSeq(nums, 0 + 1, 0 + i + 1)) = Total(SubSeq(nums, 0 + 1, 0 + i)) + nums[0 + i + 1]
    <3>1. nums \in Seq(Nat) /\ 0 \in Nat /\ i \in Nat /\ 0 + i + 1 \in 1..Len(nums)
      BY <1>1, <2>1
    <3> QED
      BY <3>1, TotalOfSub
  <2>5. 0 + 1 = 1 /\ 0 + i = i /\ 0 + i + 1 = i + 1
    BY <2>1
  <2>6. Total(SubSeq(nums, 1, i + 1)) = Total(SubSeq(nums, 1, i)) + nums[i + 1]
    BY <2>4, <2>5
  <2> QED
    BY <2>1, <2>2, <2>3, <2>6
<1>4. N \in SUBSET Nat
  OBVIOUS
<1>5. N = Nat
  <2> HIDE DEF N
  <2> QED
    BY <1>2, <1>3, <1>4, Induction
<1>6. ASSUME NEW i \in 1..Len(ss) PROVE Start(ss, i) = Total(SubSeq(nums, 1, i - 1))
  <2>1. i - 1 \in Nat /\ i - 1 <= n /\ (i - 1) + 1 = i
    BY <1>1
  <2> QED
    BY <1>5, <2>1
<1>7. Start(ss, n + 1) = Total(nums)
  <2>1. n <= n
    BY <1>1
  <2> QED
    BY <1>1, <1>5, <2>1
<1> QED
  BY <1>6, <1>7, Starts

\* What comes first in a list of sequences comes first in the whole.
LEMMA FlattenPrepend ==
  ASSUME NEW S, NEW s \in Seq(S), NEW ss \in Seq(Seq(S))
  PROVE  FlattenSeq(<<s>> \o ss) = s \o FlattenSeq(ss)
<1> DEFINE T == {tt \in Seq(Seq(S)) : FlattenSeq(<<s>> \o tt) = s \o FlattenSeq(tt)}
<1>1. <<>> \in T
  <2>1. <<s>> \o <<>> = Append(<<>>, s) /\ <<>> \in Seq(Seq(S)) /\ <<>> \o s = s /\ s \o <<>> = s
    OBVIOUS
  <2> QED
    BY <2>1, FlattenAppend, FlattenEmpty
<1>2. ASSUME NEW tt \in T, NEW t \in Seq(S) PROVE Append(tt, t) \in T
  <2>1. tt \in Seq(Seq(S)) /\ FlattenSeq(<<s>> \o tt) = s \o FlattenSeq(tt)
    OBVIOUS
  <2>2. <<s>> \o Append(tt, t) = Append(<<s>> \o tt, t) /\ <<s>> \o tt \in Seq(Seq(S))
    <3> DEFINE U == Seq(S)
    <3>1. <<s>> \in Seq(U) /\ tt \in Seq(U) /\ <<t>> \in Seq(U) /\ t \in U
      OBVIOUS
    <3> HIDE DEF U
    <3>2. (<<s>> \o tt) \o <<t>> = <<s>> \o (tt \o <<t>>) /\ <<s>> \o tt \in Seq(U)
      BY <3>1
    <3>3. Append(tt, t) = tt \o <<t>> /\ Append(<<s>> \o tt, t) = (<<s>> \o tt) \o <<t>>
      BY <3>1, <3>2
    <3> QED
      BY <3>2, <3>3 DEF U
  <2> HIDE DEF T
  <2>3. FlattenSeq(<<s>> \o Append(tt, t)) = (s \o FlattenSeq(tt)) \o t
    BY <2>1, <2>2, FlattenAppend
  <2>4. FlattenSeq(Append(tt, t)) = FlattenSeq(tt) \o t
    BY <2>1, FlattenAppend
  <2>5. (s \o FlattenSeq(tt)) \o t = s \o (FlattenSeq(tt) \o t)
    <3>1. FlattenSeq(tt) \in Seq(S)
      BY <2>1, FlattenType
    <3> DEFINE u == FlattenSeq(tt)
    <3> HIDE DEF u
    <3>2. (s \o u) \o t = s \o (u \o t)
      BY <3>1 DEF u
    <3> QED
      BY <3>2 DEF u
  <2>6. Append(tt, t) \in Seq(Seq(S))
    BY <2>1
  <2> QED
    BY <2>3, <2>4, <2>5, <2>6 DEF T
<1>3. T \in SUBSET Seq(Seq(S))
  OBVIOUS
<1> HIDE DEF T
<1>4. T = Seq(Seq(S))
  BY <1>1, <1>2, <1>3, SeqInduction
<1> QED
  BY <1>4 DEF T

\* A unit of a frame, or what is left of one.
Cells == [id : Nat, part : Nat, key : BOOLEAN]

\* Samples with their data.
Copies == [size : Nat, delta : Nat, sync : BOOLEAN, bytes : Seq(Cells)]

\* A frame has as many units of data as its size says.
LEMMA DataType == ASSUME NEW frame \in Frames
                  PROVE  Data(frame) \in Seq(Cells) /\ Len(Data(frame)) = frame.size
<1>1. frame.size \in Nat /\ frame.id \in Nat /\ frame.key \in BOOLEAN
  BY Mp4Assumption DEF Frames
<1>2. Data(frame) = [k \in 1..frame.size |-> [id |-> frame.id, part |-> k, key |-> frame.key]]
  BY DEF Data
<1>3. \A k \in 1..frame.size : [id |-> frame.id, part |-> k, key |-> frame.key] \in Cells
  BY <1>1 DEF Cells
<1> QED
  BY <1>1, <1>2, <1>3

\* The data of some frames, with their sizes and times.
CopiesOf(copied, frames) ==
    /\ copied \in Seq(Copies)
    /\ frames \in Seq(Frames)
    /\ Len(copied) = Len(frames)
    /\ \A k \in 1..Len(frames) : /\ copied[k].size = frames[k].size
                                 /\ copied[k].delta = frames[k].delta
                                 /\ copied[k].bytes = Data(frames[k])

\* In some cells, in front of the n-th, lies the data of some frames, where the
\* samples say.
Covers(cells, n, samples, frames) ==
    /\ Len(samples) = Len(frames)
    /\ \A i \in 1..Len(frames) :
          /\ samples[i].size = frames[i].size
          /\ samples[i].delta = frames[i].delta
          /\ samples[i].offset >= 2
          /\ samples[i].offset - 2 + frames[i].size <= n
          /\ \A k \in 1..frames[i].size : cells[samples[i].offset - 2 + k] = Data(frames[i])[k]

\* Copies that are written one after the other are found where they were laid out.
LEMMA LaidOutCovers ==
  ASSUME NEW copied, NEW frames, CopiesOf(copied, frames), NEW at \in Nat, at >= 2, NEW cells,
         NEW n \in Nat, at - 2 + Len(Payload(copied)) <= n,
         \A p \in 1..Len(Payload(copied)) : cells[at - 2 + p] = Payload(copied)[p]
  PROVE  /\ LaidOut(copied, at) \in Seq(Samples)
         /\ Len(LaidOut(copied, at)) = Len(frames)
         /\ Covers(cells, n, LaidOut(copied, at), frames)
         /\ copied # <<>> => IsChunk(LaidOut(copied, at))
         /\ Len(Payload(copied)) = SizeOf(frames)
         /\ Payload(copied) \in Seq(Cells)
<1> DEFINE ss   == [i \in DOMAIN copied |-> copied[i].bytes]
           nums == Sizes(copied)
           laid == LaidOut(copied, at)
           L    == Len(frames)
<1>1. /\ copied \in Seq(Copies) /\ frames \in Seq(Frames) /\ Len(copied) = L /\ L \in Nat
      /\ DOMAIN copied = 1..L
  BY DEF CopiesOf
<1>2. ASSUME NEW i \in 1..L
      PROVE  /\ copied[i].size = frames[i].size /\ copied[i].delta = frames[i].delta
             /\ copied[i].bytes = Data(frames[i]) /\ copied[i].bytes \in Seq(Cells)
             /\ Len(copied[i].bytes) = frames[i].size /\ frames[i].size \in Nat
             /\ copied[i].delta \in Nat /\ copied[i].sync \in BOOLEAN
  <2>1. frames[i] \in Frames /\ copied[i] \in Copies
    BY <1>1
  <2>2. copied[i].size = frames[i].size /\ copied[i].delta = frames[i].delta /\ copied[i].bytes = Data(frames[i])
    BY DEF CopiesOf
  <2>3. frames[i].size \in Nat /\ copied[i].delta \in Nat /\ copied[i].sync \in BOOLEAN
    BY <2>1 DEF Frames, Copies
  <2> QED
    BY <2>1, <2>2, <2>3, DataType
<1>3. ss \in Seq(Seq(Cells)) /\ Len(ss) = L /\ \A i \in 1..L : ss[i] = Data(frames[i]) /\ Len(ss[i]) = frames[i].size
  BY <1>1, <1>2
<1>4. nums \in Seq(Nat) /\ Len(nums) = L /\ \A i \in 1..L : nums[i] = frames[i].size
  <2>1. \A i \in 1..L : frames[i].size \in Nat /\ copied[i].size = frames[i].size
    BY <1>2
  <2>2. nums = [i \in 1..L |-> frames[i].size]
    <3>1. nums = [i \in 1..L |-> copied[i].size]
      BY <1>1 DEF Sizes
    <3> HIDE DEF nums, L
    <3> QED
      BY <2>1, <3>1
  <2> HIDE DEF nums, L
  <2>3. nums = [i \in 1..L |-> nums[i]] /\ \A i \in 1..L : nums[i] = frames[i].size
    BY <2>2
  <2>4. L \in Nat /\ \A i \in 1..L : nums[i] \in Nat
    BY <1>1, <2>1, <2>3
  <2>5. nums \in Seq(Nat) /\ Len(nums) = L
    BY <2>3, <2>4, IsSequence
  <2> QED
    BY <2>3, <2>5
<1>5. Payload(copied) = FlattenSeq(ss)
  BY DEF Payload
<1>6. nums = Sizes(frames)
  BY <1>1, <1>2 DEF Sizes
<1>7. ASSUME NEW i \in 1..L PROVE Sizes(SubSeq(copied, 1, i - 1)) = SubSeq(nums, 1, i - 1)
  BY <1>1 DEF Sizes
<1>8. laid = [i \in 1..L |-> [offset |-> at + Total(SubSeq(nums, 1, i - 1)),
                              size |-> copied[i].size, delta |-> copied[i].delta,
                              sync |-> copied[i].sync]]
  BY <1>1, <1>7 DEF LaidOut, SizeOf
<1> HIDE DEF ss, nums, laid, L
<1>9. /\ \A i \in 1..L : Start(ss, i) = Total(SubSeq(nums, 1, i - 1))
      /\ Len(FlattenSeq(ss)) = Total(nums)
  <2>1. Len(nums) = Len(ss) /\ \A i \in 1..Len(ss) : nums[i] = Len(ss[i])
    BY <1>3, <1>4
  <2>2. ss \in Seq(Seq(Cells)) /\ nums \in Seq(Nat) /\ Len(ss) = L
    BY <1>3, <1>4
  <2>3. /\ \A i \in 1..Len(ss) : Start(ss, i) = Total(SubSeq(nums, 1, i - 1))
        /\ Len(FlattenSeq(ss)) = Total(nums)
    BY <2>1, <2>2, StartIsTotal
  <2> QED
    BY <2>2, <2>3
<1>10. ASSUME NEW i \in 1..L
       PROVE  /\ Start(ss, i) \in Nat /\ Start(ss, i + 1) = Start(ss, i) + frames[i].size
              /\ Start(ss, i) + frames[i].size <= Len(Payload(copied))
              /\ \A k \in 1..frames[i].size : Payload(copied)[Start(ss, i) + k] = Data(frames[i])[k]
  <2>1. i \in 1..Len(ss) /\ ss[i] = Data(frames[i]) /\ Len(ss[i]) = frames[i].size
    BY <1>3
  <2>2. Start(ss, i) \in Nat /\ Start(ss, i + 1) = Start(ss, i) + Len(ss[i])
    BY <1>3, <2>1, Starts
  <2>3. /\ Start(ss, i) + Len(ss[i]) <= Len(FlattenSeq(ss))
        /\ \A j \in 1..Len(ss[i]) : FlattenSeq(ss)[Start(ss, i) + j] = ss[i][j]
    BY <1>3, <2>1, FlattenAt
  <2> QED
    BY <1>5, <2>1, <2>2, <2>3
<1>11. ASSUME NEW i \in 1..L
       PROVE  /\ laid[i] \in Samples
              /\ laid[i].offset = at + Start(ss, i)
              /\ laid[i].size = frames[i].size /\ laid[i].delta = frames[i].delta
  <2>1. laid[i] = [offset |-> at + Total(SubSeq(nums, 1, i - 1)), size |-> copied[i].size,
                   delta |-> copied[i].delta, sync |-> copied[i].sync]
    BY <1>8
  <2>2. Total(SubSeq(nums, 1, i - 1)) = Start(ss, i)
    BY <1>9
  <2>3. copied[i].size = frames[i].size /\ copied[i].delta = frames[i].delta
    BY <1>2
  <2>4. at + Start(ss, i) \in Nat
    BY <1>10
  <2>5. copied[i].size \in Nat /\ copied[i].delta \in Nat /\ copied[i].sync \in BOOLEAN
    BY <1>2
  <2> DEFINE off == at + Start(ss, i)
  <2> HIDE DEF off
  <2>6. laid[i] = [offset |-> off, size |-> copied[i].size,
                   delta |-> copied[i].delta, sync |-> copied[i].sync]
    BY <2>1, <2>2 DEF off
  <2>7. off \in Nat
    BY <2>4 DEF off
  <2>8. laid[i] \in Samples
    BY <2>5, <2>6, <2>7 DEF Samples
  <2>9. laid[i].offset = off /\ laid[i].size = copied[i].size /\ laid[i].delta = copied[i].delta
    BY <2>6
  <2> QED
    BY <2>3, <2>8, <2>9 DEF off
<1>12. laid \in Seq(Samples) /\ Len(laid) = L
  <2>1. \A i \in 1..L : laid[i] \in Samples
    BY <1>11
  <2>2. laid = [i \in 1..L |-> laid[i]]
    BY <1>8
  <2> QED
    BY <1>1, <2>1, <2>2, IsSequence
<1>13. Len(Payload(copied)) \in Nat /\ Payload(copied) \in Seq(Cells)
  BY <1>3, <1>5, FlattenType
<1>14. Covers(cells, n, laid, frames)
  <2>1. ASSUME NEW i \in 1..L
        PROVE  /\ laid[i].size = frames[i].size
               /\ laid[i].delta = frames[i].delta
               /\ laid[i].offset >= 2
               /\ laid[i].offset - 2 + frames[i].size <= n
               /\ \A k \in 1..frames[i].size : cells[laid[i].offset - 2 + k] = Data(frames[i])[k]
    <3>1. /\ laid[i].size = frames[i].size /\ laid[i].delta = frames[i].delta
          /\ laid[i].offset = at + Start(ss, i)
      BY <1>11
    <3>2. frames[i].size \in Nat
      BY <1>2
    <3>3. /\ Start(ss, i) \in Nat
          /\ Start(ss, i) + frames[i].size <= Len(Payload(copied))
          /\ \A k \in 1..frames[i].size : Payload(copied)[Start(ss, i) + k] = Data(frames[i])[k]
      BY <1>10
    <3>4. laid[i].offset - 2 + frames[i].size <= n /\ laid[i].offset >= 2
      BY <1>13, <3>1, <3>2, <3>3
    <3>5. ASSUME NEW k \in 1..frames[i].size PROVE cells[laid[i].offset - 2 + k] = Data(frames[i])[k]
      <4>1. Start(ss, i) + k \in 1..Len(Payload(copied))
        BY <1>13, <3>2, <3>3
      <4>2. laid[i].offset - 2 + k = at - 2 + (Start(ss, i) + k)
        BY <3>1, <3>2, <3>3
      <4> QED
        BY <3>3, <4>1, <4>2
    <3> QED
      BY <3>1, <3>4, <3>5
  <2> QED
    BY <1>12, <2>1 DEF Covers, L
<1>15. ASSUME copied # <<>> PROVE IsChunk(laid)
  <2>1. L # 0 /\ laid # <<>>
    BY <1>1, <1>12, <1>15
  <2>2. ASSUME NEW k \in 1..L - 1 PROVE laid[k + 1].offset = laid[k].offset + laid[k].size
    <3>1. k \in 1..L /\ k + 1 \in 1..L
      BY <1>1
    <3>2. /\ laid[k].offset = at + Start(ss, k) /\ laid[k].size = frames[k].size
          /\ laid[k + 1].offset = at + Start(ss, k + 1)
      BY <1>11, <3>1
    <3>3. Start(ss, k) \in Nat /\ Start(ss, k + 1) = Start(ss, k) + frames[k].size
      BY <1>10, <3>1
    <3>4. frames[k].size \in Nat
      BY <1>2, <3>1
    <3> QED
      BY <3>2, <3>3, <3>4
  <2> QED
    BY <1>12, <2>1, <2>2 DEF IsChunk
<1>16. Len(Payload(copied)) = SizeOf(frames)
  BY <1>5, <1>6, <1>9 DEF SizeOf
<1> QED
  BY <1>12, <1>13, <1>14, <1>15, <1>16 DEF laid, L

-----------------------------------------------------------------------------
(* What is in a file *)

\* Frames are still there in a file that has the same cells up to the end of their data.
LEMMA CoversKept ==
  ASSUME NEW cells, NEW n \in Nat, NEW samples, NEW frames \in Seq(Frames), Covers(cells, n, samples, frames),
         NEW others, NEW m \in Nat, n <= m, \A p \in 1..n : others[p] = cells[p],
         \A i \in 1..Len(frames) : samples[i].offset \in Nat
  PROVE  Covers(others, m, samples, frames)
<1>1. Len(samples) = Len(frames)
  BY DEF Covers
<1>2. ASSUME NEW i \in 1..Len(frames)
      PROVE  /\ samples[i].size = frames[i].size
             /\ samples[i].delta = frames[i].delta
             /\ samples[i].offset >= 2
             /\ samples[i].offset - 2 + frames[i].size <= m
             /\ \A k \in 1..frames[i].size : others[samples[i].offset - 2 + k] = Data(frames[i])[k]
  <2>1. frames[i] \in Frames
    OBVIOUS
  <2>2. frames[i].size \in Nat
    BY <2>1 DEF Frames
  <2>3. /\ samples[i].size = frames[i].size
        /\ samples[i].delta = frames[i].delta
        /\ samples[i].offset >= 2
        /\ samples[i].offset - 2 + frames[i].size <= n
        /\ \A k \in 1..frames[i].size : cells[samples[i].offset - 2 + k] = Data(frames[i])[k]
    BY DEF Covers
  <2>4. samples[i].offset - 2 \in Nat
    BY <2>3
  <2>5. \A k \in 1..frames[i].size : samples[i].offset - 2 + k \in 1..n
    <3> DEFINE x == samples[i].offset - 2
               y == frames[i].size
    <3>1. x \in Nat /\ y \in Nat /\ x + y <= n
      BY <2>2, <2>3, <2>4
    <3> HIDE DEF x, y
    <3>2. \A k \in 1..y : x + k \in 1..n
      BY <3>1
    <3> QED
      BY <3>2 DEF x, y
  <2> DEFINE z == frames[i].size
             o == samples[i].offset
  <2>6. o - 2 + z <= m
    <3>1. z \in Nat /\ o \in Nat /\ o - 2 + z <= n
      BY <2>2, <2>3
    <3> HIDE DEF z, o
    <3> QED
      BY <3>1
  <2>7. \A k \in 1..z : others[o - 2 + k] = Data(frames[i])[k]
    BY <2>3, <2>5
  <2> QED
    BY <2>3, <2>6, <2>7
<1> QED
  BY <1>1, <1>2 DEF Covers

\* Two runs of frames in one file, one listed after the other.
LEMMA CoversJoined ==
  ASSUME NEW cells, NEW n,
         NEW s1 \in Seq(Samples), NEW f1 \in Seq(Frames), Covers(cells, n, s1, f1),
         NEW s2 \in Seq(Samples), NEW f2 \in Seq(Frames), Covers(cells, n, s2, f2)
  PROVE  Covers(cells, n, s1 \o s2, f1 \o f2)
<1> DEFINE s == s1 \o s2
           f == f1 \o f2
<1>1. Len(s1) = Len(f1) /\ Len(s2) = Len(f2) /\ Len(f1) \in Nat /\ Len(f2) \in Nat
  BY DEF Covers
<1>2. /\ Len(s) = Len(f1) + Len(f2) /\ Len(f) = Len(f1) + Len(f2)
      /\ \A i \in 1..Len(f1) : s[i] = s1[i] /\ f[i] = f1[i]
      /\ \A i \in 1..Len(f2) : s[Len(f1) + i] = s2[i] /\ f[Len(f1) + i] = f2[i]
  <2>1. /\ Len(s) = Len(s1) + Len(s2)
        /\ \A i \in 1..Len(s1) : s[i] = s1[i]
        /\ \A i \in 1..Len(s2) : s[Len(s1) + i] = s2[i]
    BY Joined
  <2>2. /\ Len(f) = Len(f1) + Len(f2)
        /\ \A i \in 1..Len(f1) : f[i] = f1[i]
        /\ \A i \in 1..Len(f2) : f[Len(f1) + i] = f2[i]
    BY Joined
  <2> HIDE DEF s, f
  <2> QED
    BY <1>1, <2>1, <2>2
<1> DEFINE Found(x, y) == /\ x.size = y.size
                          /\ x.delta = y.delta
                          /\ x.offset >= 2
                          /\ x.offset - 2 + y.size <= n
                          /\ \A k \in 1..y.size : cells[x.offset - 2 + k] = Data(y)[k]
<1>3. \A i \in 1..Len(f1) : Found(s1[i], f1[i])
  BY DEF Covers
<1>4. \A i \in 1..Len(f2) : Found(s2[i], f2[i])
  BY DEF Covers
<1> HIDE DEF s, f, Found
<1>5. ASSUME NEW i \in 1..Len(f1) + Len(f2) PROVE Found(s[i], f[i])
  <2>1. CASE i \in 1..Len(f1)
    BY <1>2, <1>3, <2>1
  <2>2. CASE i \notin 1..Len(f1)
    <3> DEFINE j == i - Len(f1)
    <3>1. j \in 1..Len(f2) /\ i = Len(f1) + j
      BY <1>1, <2>2
    <3> HIDE DEF j
    <3> QED
      BY <1>2, <1>4, <3>1
  <2> QED
    BY <2>1, <2>2
<1>6. Covers(cells, n, s, f)
  BY <1>2, <1>5 DEF Covers, Found
<1> QED
  BY <1>6 DEF s, f

\* Data that is found where a sample says.
LEMMA BytesAt ==
  ASSUME NEW file, NEW n, NEW samples \in Seq(Samples), NEW frames \in Seq(Frames),
         Covers(file.cells, n, samples, frames), NEW i \in 1..Len(frames)
  PROVE  Bytes(file, samples[i].offset, samples[i].size) = Data(frames[i])
<1>1. samples[i] \in Samples /\ frames[i] \in Frames
  BY DEF Covers
<1>2. samples[i].offset \in Nat /\ frames[i].size \in Nat
  BY <1>1 DEF Samples, Frames
<1>3. /\ samples[i].size = frames[i].size
      /\ samples[i].offset >= 2
      /\ \A k \in 1..frames[i].size : file.cells[samples[i].offset - 2 + k] = Data(frames[i])[k]
  BY DEF Covers
<1> DEFINE o == samples[i].offset
           z == frames[i].size
           cells == file.cells
<1>4. Bytes(file, samples[i].offset, samples[i].size) = SubSeq(cells, o - 1, o + z - 2)
  BY <1>3 DEF Bytes
<1>5. Data(frames[i]) = [k \in 1..z |-> Data(frames[i])[k]]
  BY DEF Data
<1> HIDE DEF o, z, cells
<1>6. SubSeq(cells, o - 1, o + z - 2) = [k \in 1..z |-> cells[o - 2 + k]]
  <2>1. o \in Nat /\ z \in Nat
    BY <1>2 DEF o, z
  <2>2. (o + z - 2) - (o - 1) + 1 = z /\ \A k \in 1..z : (o - 1) + k - 1 = o - 2 + k
    BY <2>1
  <2> QED
    BY <2>1, <2>2
<1>7. \A k \in 1..z : cells[o - 2 + k] = Data(frames[i])[k]
  BY <1>3 DEF o, z, cells
<1> QED
  BY <1>4, <1>5, <1>6, <1>7

\* What a parser finds.
Infos == [config : Configs, video : Seq(Samples), audio : Seq(Samples)]

\* A file in which the parser finds the frames.
Reads(file, info, frames) ==
    /\ Structured(file)
    /\ info \in Infos
    /\ info.video # <<>>
    /\ frames \in Footage
    /\ Covers(file.cells, file.size - 1, info.video, frames.video)
    /\ Covers(file.cells, file.size - 1, info.audio, frames.audio)

\* A file that reads this way shows its frames in the sense of ReadsBack.
LEMMA ReadsHolds ==
  ASSUME NEW file, NEW info, NEW frames, Reads(file, info, frames)
  PROVE  Holds(file, info, frames)
<1>1. info \in Infos /\ frames \in Footage
  BY DEF Reads
<1>2. /\ info.video \in Seq(Samples) /\ info.audio \in Seq(Samples)
      /\ frames.video \in Seq(Frames) /\ frames.audio \in Seq(Frames)
  BY <1>1 DEF Infos, Footage
<1>3. info # None
  BY <1>1, Mp4Assumption DEF Infos
<1>4. ASSUME NEW samples \in Seq(Samples), NEW fs \in Seq(Frames),
             Covers(file.cells, file.size - 1, samples, fs)
      PROVE  Shows(file, samples, fs)
  <2>1. Len(samples) = Len(fs) /\ DOMAIN fs = 1..Len(fs)
    BY <1>4 DEF Covers
  <2>2. \A i \in 1..Len(fs) : samples[i].delta = fs[i].delta
    BY <1>4 DEF Covers
  <2>3. \A i \in 1..Len(fs) : Bytes(file, samples[i].offset, samples[i].size) = Data(fs[i])
    BY <1>4, BytesAt
  <2> QED
    BY <2>1, <2>2, <2>3 DEF Shows
<1> QED
  BY <1>2, <1>3, <1>4 DEF Reads, Holds

\* Copied finds the frames of some segments, one after the other.
LEMMA CopiedTrack ==
  ASSUME NEW track \in {"video", "audio"}, NEW S, NEW sources \in Seq(S),
         \A p \in S : /\ p.info[track] \in Seq(Samples)
                      /\ p.frames[track] \in Seq(Frames)
                      /\ Covers(p.file.cells, p.file.size - 1, p.info[track], p.frames[track])
  PROVE  /\ CopiesOf(Copied(sources, track),
                     FlattenSeq([i \in DOMAIN sources |-> sources[i].frames[track]]))
         /\ \A i \in 1..Len(sources) : sources[i].frames[track] # <<>> => Copied(sources, track) # <<>>
<1> DEFINE Copy(file, sample) ==
              [size |-> sample.size, delta |-> sample.delta, sync |-> sample.sync,
               bytes |-> Bytes(file, sample.offset, sample.size)]
           Track(p) == [i \in DOMAIN p.info[track] |-> Copy(p.file, p.info[track][i])]
           ss == [i \in DOMAIN sources |-> Track(sources[i])]
           uu == [i \in DOMAIN sources |-> sources[i].frames[track]]
           n == Len(sources)
           R == {x \in Copies \X Frames : /\ x[1].size = x[2].size
                                          /\ x[1].delta = x[2].delta
                                          /\ x[1].bytes = Data(x[2])}
<1>1. n \in Nat /\ DOMAIN sources = 1..n /\ \A i \in 1..n : sources[i] \in S
  OBVIOUS
<1>2. ASSUME NEW p \in S
      PROVE  /\ Track(p) \in Seq(Copies) /\ p.frames[track] \in Seq(Frames)
             /\ Len(Track(p)) = Len(p.frames[track])
             /\ \A j \in 1..Len(Track(p)) : <<Track(p)[j], p.frames[track][j]>> \in R
  <2> DEFINE samples == p.info[track]
             frames  == p.frames[track]
  <2>1. /\ samples \in Seq(Samples) /\ frames \in Seq(Frames)
        /\ Covers(p.file.cells, p.file.size - 1, samples, frames)
    OBVIOUS
  <2> DEFINE file == p.file
  <2>2. Track(p) = [i \in DOMAIN samples |-> Copy(file, samples[i])]
    OBVIOUS
  <2> HIDE DEF samples, frames, file, Track
  <2>3. Len(samples) = Len(frames) /\ DOMAIN samples = 1..Len(frames) /\ Len(frames) \in Nat
    BY <2>1 DEF Covers
  <2>4. ASSUME NEW i \in 1..Len(frames)
        PROVE  Copy(file, samples[i]) \in Copies /\ <<Copy(file, samples[i]), frames[i]>> \in R
    <3>1. Bytes(file, samples[i].offset, samples[i].size) = Data(frames[i])
      BY <2>1, BytesAt DEF file
    <3>2. samples[i] \in Samples /\ frames[i] \in Frames
      BY <2>1, <2>3
    <3>3. samples[i].size = frames[i].size /\ samples[i].delta = frames[i].delta
      BY <2>1 DEF Covers
    <3>4. samples[i].size \in Nat /\ samples[i].delta \in Nat /\ samples[i].sync \in BOOLEAN
      BY <3>2 DEF Samples
    <3>5. Data(frames[i]) \in Seq(Cells)
      BY <3>2, DataType
    <3> DEFINE c == Copy(file, samples[i])
    <3>6. /\ c = [size |-> samples[i].size, delta |-> samples[i].delta, sync |-> samples[i].sync,
                  bytes |-> Data(frames[i])]
      BY <3>1
    <3> HIDE DEF c
    <3>7. c \in Copies
      BY <3>4, <3>5, <3>6 DEF Copies
    <3>8. c.size = frames[i].size /\ c.delta = frames[i].delta /\ c.bytes = Data(frames[i])
      BY <3>3, <3>6
    <3>9. <<c, frames[i]>> \in R
      BY <3>2, <3>7, <3>8
    <3> QED
      BY <3>7, <3>9 DEF c
  <2>5. Track(p) = [i \in 1..Len(frames) |-> Track(p)[i]]
    BY <2>2, <2>3
  <2>6. \A i \in 1..Len(frames) : Track(p)[i] = Copy(file, samples[i])
    BY <2>2, <2>3
  <2> HIDE DEF Copy, R
  <2>7. \A i \in 1..Len(frames) : Track(p)[i] \in Copies /\ <<Track(p)[i], frames[i]>> \in R
    BY <2>4, <2>6
  <2>8. Track(p) \in Seq(Copies) /\ Len(Track(p)) = Len(frames)
    BY <2>3, <2>5, <2>7, IsSequence
  <2> QED
    BY <2>1, <2>7, <2>8 DEF frames
<1> HIDE DEF Copy, Track, R
<1>3. ss = [i \in 1..n |-> ss[i]] /\ uu = [i \in 1..n |-> uu[i]]
  BY <1>1
<1>4. \A i \in 1..n : ss[i] = Track(sources[i]) /\ uu[i] = sources[i].frames[track]
  BY <1>1
<1>5. Copied(sources, track) = FlattenSeq(ss)
  BY DEF Copied, Track, Copy
<1> HIDE DEF ss, uu
<1>6. ss \in Seq(Seq(Copies)) /\ Len(ss) = n /\ uu \in Seq(Seq(Frames)) /\ Len(uu) = n
  <2>1. \A i \in 1..n : ss[i] \in Seq(Copies)
    BY <1>1, <1>2, <1>4
  <2>2. \A i \in 1..n : uu[i] \in Seq(Frames)
    BY <1>1, <1>2, <1>4
  <2> HIDE DEF n
  <2>3. ss \in Seq(Seq(Copies)) /\ Len(ss) = n
    BY <1>1, <1>3, <2>1, IsSequence
  <2>4. uu \in Seq(Seq(Frames)) /\ Len(uu) = n
    BY <1>1, <1>3, <2>2, IsSequence
  <2> QED
    BY <2>3, <2>4
<1>7. \A i \in 1..Len(ss) : /\ Len(ss[i]) = Len(uu[i])
                            /\ \A j \in 1..Len(ss[i]) : <<ss[i][j], uu[i][j]>> \in R
  BY <1>1, <1>2, <1>4, <1>6
<1> DEFINE v == FlattenSeq(ss)
           w == FlattenSeq(uu)
<1>8. Len(v) = Len(w) /\ \A k \in 1..Len(v) : <<v[k], w[k]>> \in R
  BY <1>6, <1>7, FlattenRelated
<1>9. v \in Seq(Copies) /\ w \in Seq(Frames)
  BY <1>6, FlattenType
<1>10. ASSUME NEW i \in 1..n, uu[i] # <<>> PROVE v # <<>>
  <2>1. Len(uu[i]) \in Nat /\ Len(uu[i]) # 0
    BY <1>6, <1>10
  <2>2. Len(ss[i]) = Len(uu[i]) /\ i \in 1..Len(ss)
    BY <1>6, <1>7
  <2>3. Start(ss, i) \in Nat /\ Start(ss, i) + Len(ss[i]) <= Len(v)
    BY <1>6, <2>2, Starts, FlattenAt
  <2> HIDE DEF v
  <2>4. Len(v) # 0 
    BY <1>9, <2>1, <2>2, <2>3
  <2> QED
    BY <1>9, <2>4
<1> HIDE DEF v, w
<1>11. CopiesOf(v, w)
  <2>1. \A k \in 1..Len(w) : v[k].size = w[k].size /\ v[k].delta = w[k].delta /\ v[k].bytes = Data(w[k])
    <3> TAKE k \in 1..Len(w)
    <3>1. <<v[k], w[k]>> \in R
      BY <1>8
    <3> QED
      BY <3>1 DEF R
  <2> QED
    BY <1>8, <1>9, <2>1 DEF CopiesOf
<1> QED
  BY <1>4, <1>5, <1>10, <1>11 DEF v, w, uu

-----------------------------------------------------------------------------
(* What a merge and an append make of the frames *)

\* What Append does, element by element, to a sequence of other things.
LEMMA AppendOne ==
  ASSUME NEW S, NEW s \in Seq(S), NEW x
  PROVE  /\ Len(Append(s, x)) = Len(s) + 1
         /\ DOMAIN Append(s, x) = 1..Len(s) + 1
         /\ Append(s, x)[Len(s) + 1] = x
         /\ \A p \in 1..Len(s) : Append(s, x)[p] = s[p]
<1>1. s \in Seq(S \cup {x})
  OBVIOUS
<1> QED
  BY <1>1

\* One sequence, flattened.
LEMMA FlattenOne == ASSUME NEW S, NEW s \in Seq(S) PROVE FlattenSeq(<<s>>) = s
<1>1. <<s>> = Append(<<>>, s) /\ <<>> \in Seq(Seq(S)) /\ <<>> \o s = s
  OBVIOUS
<1> QED
  BY <1>1, FlattenAppend, FlattenEmpty

\* Sync marks do not matter to where frames lie.
LEMMA CoversForget ==
  ASSUME NEW cells, NEW n, NEW s \in Seq(Samples), NEW frames, Covers(cells, n, s, frames)
  PROVE  Covers(cells, n, Forget(s), frames)
<1>1. Len(s) = Len(frames) /\ Len(Forget(s)) = Len(s) /\ DOMAIN s = 1..Len(frames)
  BY ForgetType DEF Covers
<1>2. ASSUME NEW i \in 1..Len(frames)
      PROVE  /\ Forget(s)[i].size = s[i].size /\ Forget(s)[i].delta = s[i].delta
             /\ Forget(s)[i].offset = s[i].offset
  BY <1>1 DEF Forget
<1> QED
  BY <1>1, <1>2 DEF Covers

\* What the parser finds in the moov of an hour file.
LEMMA MoovReads ==
  ASSUME NEW config \in Configs, NEW vc, IsChunks(vc), NEW ac, IsChunks(ac), FlattenSeq(vc) # <<>>
  PROVE  LET moov == MergedMoov(config, vc, ac)
             info == Info(moov, SampleEntries(moov.video), SampleEntries(moov.audio))
         IN /\ info \in Infos /\ info.video = Forget(FlattenSeq(vc)) /\ info.audio = Forget(FlattenSeq(ac))
            /\ info.video # <<>> /\ IsMoov(moov)
<1> DEFINE moov  == MergedMoov(config, vc, ac)
           video == SampleEntries(moov.video)
           audio == SampleEntries(moov.audio)
           info  == Info(moov, video, audio)
<1>1. FlattenSeq(vc) \in Seq(Samples) /\ FlattenSeq(ac) \in Seq(Samples)
  BY FlattenType DEF IsChunks
<1>2. /\ moov.video = MergedTables(vc) /\ moov.audio = MergedTables(ac) /\ moov.config = config
      /\ moov.sound = IF ac = <<>> THEN "none" ELSE "aac"
      /\ IsMoov(moov)
  BY DEF MergedMoov, IsMoov
<1>3. video = Forget(FlattenSeq(vc)) /\ audio = Forget(FlattenSeq(ac))
  BY <1>2, MergedTablesRead
<1>4. /\ video \in Seq(Samples) /\ audio \in Seq(Samples) /\ Len(video) = Len(FlattenSeq(vc))
      /\ Len(audio) = Len(FlattenSeq(ac))
  BY <1>1, <1>3, ForgetType
<1>5. video # None /\ audio # None
  BY <1>4, NoneAssumption
<1>6. video # <<>>
  BY <1>1, <1>4
<1>7. ac = <<>> => audio = <<>>
  BY <1>1, <1>4, FlattenEmpty
<1> HIDE DEF moov, video, audio
<1>8. info = [config |-> config, video |-> video, audio |-> IF moov.sound = "aac" THEN audio ELSE <<>>]
  BY <1>2, <1>5, <1>6 DEF Info
<1>9. (IF moov.sound = "aac" THEN audio ELSE <<>>) = audio
  BY <1>2, <1>7
<1>10. info = [config |-> config, video |-> video, audio |-> audio]
  BY <1>8, <1>9
<1> HIDE DEF info
<1>11. info \in Infos /\ info.video = video /\ info.audio = audio
  BY <1>4, <1>10 DEF Infos
<1> QED
  BY <1>2, <1>3, <1>6, <1>11 DEF info, video, audio, moov

\* The data of the copies has the size of the frames.
LEMMA PayloadType ==
  ASSUME NEW copied, NEW frames, CopiesOf(copied, frames)
  PROVE  Payload(copied) \in Seq(Cells) /\ Len(Payload(copied)) = SizeOf(frames)
<1> DEFINE n     == Len(Payload(copied))
           cells == [p \in 1..n |-> Payload(copied)[p]]
<1>1. n \in Nat
  <2> DEFINE ss == [i \in DOMAIN copied |-> copied[i].bytes]
  <2>1. /\ DOMAIN copied = 1..Len(copied) /\ Len(copied) \in Nat
        /\ \A i \in 1..Len(copied) : copied[i] \in Copies
    BY DEF CopiesOf
  <2>2. \A i \in 1..Len(copied) : ss[i] \in Seq(Cells)
    BY <2>1 DEF Copies
  <2>3. ss = [i \in 1..Len(copied) |-> ss[i]]
    BY <2>1
  <2>4. Payload(copied) = FlattenSeq(ss)
    BY DEF Payload
  <2> HIDE DEF ss
  <2>5. ss \in Seq(Seq(Cells))
    BY <2>1, <2>2, <2>3, IsSequence
  <2>6. Payload(copied) \in Seq(Cells)
    BY <2>4, <2>5, FlattenType
  <2> QED
    BY <2>6
<1>2. 2 \in Nat /\ 2 >= 2 /\ 2 - 2 + n <= n /\ \A p \in 1..n : 2 - 2 + p = p
  BY <1>1
<1>3. \A p \in 1..n : cells[2 - 2 + p] = Payload(copied)[p]
  BY <1>2
<1> HIDE DEF cells
<1> QED
  BY <1>1, <1>2, <1>3, LaidOutCovers DEF n

\* An hour file made of some frames shows them, if it can be read at all; and it
\* can, if 32 bits hold its size.
LEMMA MergedReads ==
  ASSUME NEW key \in Keys, NEW V, NEW FV, CopiesOf(V, FV), V # <<>>, NEW A, NEW FA, CopiesOf(A, FA),
         Merged(key, V, A) # None
  PROVE  LET file == Merged(key, V, A) IN
         /\ 1 + SizeOf(FV) + SizeOf(FA) < Limit => Structured(file)
         /\ Structured(file) => Reads(file, Parse(file), [video |-> FV, audio |-> FA])
<1> DEFINE file  == Merged(key, V, A)
           lv    == LaidOut(V, 2)
           la    == LaidOut(A, 2 + Len(Payload(V)))
           vc    == <<lv>>
           ac    == IF A = <<>> THEN <<>> ELSE <<la>>
           bytes == Payload(V) \o Payload(A)
           moov  == MergedMoov(key.config, vc, ac)
           cells == Append(bytes, moov)
           n     == Len(bytes)
<1>1. file = Assembled(bytes, moov)
  BY DEF Merged
<1>2. file = [size |-> (1 + n) % Limit, cells |-> cells]
  BY <1>1 DEF Assembled
<1>3. /\ Payload(V) \in Seq(Cells) /\ Payload(A) \in Seq(Cells)
      /\ Len(Payload(V)) = SizeOf(FV) /\ Len(Payload(A)) = SizeOf(FA)
  BY PayloadType
<1>4. /\ n \in Nat /\ n = SizeOf(FV) + SizeOf(FA) /\ bytes \in Seq(Cells)
      /\ \A p \in 1..Len(Payload(V)) : bytes[p] = Payload(V)[p]
      /\ \A p \in 1..Len(Payload(A)) : bytes[Len(Payload(V)) + p] = Payload(A)[p]
  <2>1. /\ Len(bytes) = Len(Payload(V)) + Len(Payload(A)) /\ bytes \in Seq(Cells)
        /\ \A p \in 1..Len(Payload(V)) : bytes[p] = Payload(V)[p]
        /\ \A p \in 1..Len(Payload(A)) : bytes[Len(Payload(V)) + p] = Payload(A)[p]
    <3> DEFINE pv == Payload(V)
               pa == Payload(A)
    <3>1. pv \in Seq(Cells) /\ pa \in Seq(Cells)
      BY <1>3
    <3> HIDE DEF pv, pa
    <3>2. /\ Len(pv \o pa) = Len(pv) + Len(pa) /\ pv \o pa \in Seq(Cells)
          /\ \A p \in 1..Len(pv) : (pv \o pa)[p] = pv[p]
          /\ \A p \in 1..Len(pa) : (pv \o pa)[Len(pv) + p] = pa[p]
      BY <3>1, Joined
    <3> QED
      BY <3>2 DEF pv, pa
  <2>2. Len(bytes) \in Nat
    BY <2>1
  <2> HIDE DEF bytes
  <2> QED
    BY <1>3, <2>1, <2>2
<1>5. /\ Len(cells) = n + 1 /\ DOMAIN cells = 1..n + 1 /\ cells[n + 1] = moov
      /\ \A p \in 1..n : cells[p] = bytes[p]
  <2> HIDE DEF bytes, moov
  <2> QED
    BY <1>4, AppendOne
<1> HIDE DEF file, bytes, moov, cells, n
<1>6. /\ lv \in Seq(Samples) /\ Covers(cells, n, lv, FV) /\ IsChunk(lv) /\ Len(lv) = Len(FV)
  <2> DEFINE pv == Len(Payload(V))
  <2>1. pv \in Nat /\ Len(Payload(A)) \in Nat /\ n = pv + Len(Payload(A)) /\ n \in Nat
    BY <1>3, <1>4
  <2>2. 2 \in Nat /\ 2 >= 2 /\ 2 - 2 + pv <= n
    BY <2>1
  <2>3. \A p \in 1..pv : cells[2 - 2 + p] = Payload(V)[p]
    <3> TAKE p \in 1..pv
    <3>1. p \in 1..n /\ 2 - 2 + p = p
      BY <2>1
    <3> QED
      BY <1>4, <1>5, <3>1
  <2> QED
    BY <2>1, <2>2, <2>3, LaidOutCovers
<1>7. /\ la \in Seq(Samples) /\ Covers(cells, n, la, FA) /\ (A # <<>> => IsChunk(la)) /\ Len(la) = Len(FA)
  <2> DEFINE pv == Len(Payload(V))
             pa == Len(Payload(A))
             at == 2 + pv
  <2>1. pv \in Nat /\ pa \in Nat /\ n = pv + pa /\ n \in Nat
    BY <1>3, <1>4
  <2>2. at \in Nat /\ at >= 2 /\ at - 2 + pa <= n
    BY <2>1
  <2>3. \A p \in 1..pa : cells[at - 2 + p] = Payload(A)[p]
    <3> TAKE p \in 1..pa
    <3>1. pv + p \in 1..n /\ at - 2 + p = pv + p
      BY <2>1
    <3> QED
      BY <1>4, <1>5, <3>1
  <2>5. at - 2 + Len(Payload(A)) <= n /\ \A p \in 1..Len(Payload(A)) : cells[at - 2 + p] = Payload(A)[p]
    BY <2>2, <2>3
  <2> HIDE DEF pv, pa, at
  <2>4. LaidOut(A, at) \in Seq(Samples) /\ Covers(cells, n, LaidOut(A, at), FA)
        /\ (A # <<>> => IsChunk(LaidOut(A, at))) /\ Len(LaidOut(A, at)) = Len(FA)
    BY <2>1, <2>2, <2>5, LaidOutCovers
  <2> QED
    BY <2>4 DEF at, pv
<1> HIDE DEF lv, la
<1>8. IsChunks(vc) /\ FlattenSeq(vc) = lv /\ lv # <<>>
  <2>1. vc \in Seq(Seq(Samples)) /\ Len(vc) = 1 /\ vc[1] = lv
    BY <1>6
  <2> QED
    BY <1>6, <2>1, FlattenOne DEF IsChunks, IsChunk
<1>9. FA \in Seq(Frames) /\ A \in Seq(Copies) /\ Len(A) = Len(FA) /\ FV \in Seq(Frames)
  BY DEF CopiesOf
<1>10. IsChunks(ac) /\ FlattenSeq(ac) = la
  <2>1. CASE A = <<>>
    <3>3. Len(A) = 0 /\ ac = <<>>
      BY <2>1
    <3>4. Len(la) = 0 /\ la \in Seq(Samples)
      BY <1>7, <1>9, <3>3
    <3>1. la = <<>> /\ ac = <<>>
      BY <3>3, <3>4
    <3>2. <<>> \in Seq(Seq(Samples)) /\ Len(<<>>) = 0
      OBVIOUS
    <3> QED
      BY <3>1, <3>2, FlattenEmpty DEF IsChunks
  <2>2. CASE A # <<>>
    <3>1. ac = <<la>>
      BY <2>2
    <3>2. <<la>> \in Seq(Seq(Samples)) /\ Len(<<la>>) = 1 /\ <<la>>[1] = la
      BY <1>7
    <3> HIDE DEF ac
    <3> QED
      BY <1>7, <2>2, <3>1, <3>2, FlattenOne DEF IsChunks
  <2> QED
    BY <2>1, <2>2
<1> HIDE DEF vc, ac
<1> DEFINE info == Info(moov, SampleEntries(moov.video), SampleEntries(moov.audio))
<1>11. /\ info \in Infos /\ info.video = Forget(lv) /\ info.audio = Forget(la)
       /\ info.video # <<>> /\ IsMoov(moov)
  <2>1. key.config \in Configs /\ FlattenSeq(vc) # <<>>
    BY <1>8 DEF Keys
  <2> QED
    BY <1>8, <1>10, <2>1, MoovReads DEF moov
<1> HIDE DEF info
<1>12. ASSUME 1 + SizeOf(FV) + SizeOf(FA) < Limit PROVE Structured(file)
  <2>1. 1 + n \in Nat /\ 1 + n < Limit /\ Limit \in Nat
    BY <1>3, <1>4, <1>12, LimitAssumption
  <2>2. (1 + n) % Limit = 1 + n
    BY <2>1
  <2>3. file.size = n + 1 /\ file.cells = cells
    BY <1>2, <1>4, <2>2
  <2> QED
    BY <1>4, <1>5, <1>11, <2>3 DEF Structured
<1>13. ASSUME Structured(file) PROVE Reads(file, Parse(file), [video |-> FV, audio |-> FA])
  <2>1. file.cells = cells /\ file.size \in Nat \ {0} /\ DOMAIN cells = 1..file.size
    BY <1>2, <1>13 DEF Structured
  <2>2. file.size = n + 1 /\ file.size - 1 = n
    BY <1>4, <1>5, <2>1
  <2>3. Parse(file) = info
    BY <1>5, <1>13, <2>1, <2>2 DEF Parse, info
  <2>4. Covers(cells, n, info.video, FV) /\ Covers(cells, n, info.audio, FA)
    BY <1>6, <1>7, <1>11, CoversForget
  <2>5. [video |-> FV, audio |-> FA] \in Footage
    BY <1>9 DEF Footage
  <2> QED
    BY <1>11, <1>13, <2>1, <2>2, <2>3, <2>4, <2>5 DEF Reads
<1> QED
  BY <1>12, <1>13 DEF file

\* The file an append leaves, in front of its end.
Extended(cells, base, e) ==
    /\ \A p \in 1..base.size - 1 : cells[p] = base.cells[p]
    /\ \A j \in 1..Len(e.bytes) : cells[base.size - 1 + j] = e.bytes[j]
    /\ cells[base.size + Len(e.bytes)] = e.moov

\* The tables of an extension, together with the bytes it adds, show the frames of the base
\* and after them those that were copied.
LEMMA ExtendedReads ==
  ASSUME NEW key \in Keys, NEW base, NEW info, NEW frames, Reads(base, info, frames),
         NEW V, NEW FV, CopiesOf(V, FV), NEW A, NEW FA, CopiesOf(A, FA),
         NEW file, Structured(file),
         file.size = base.size + Len(ExtensionOf(key, info, V, A, base.size + 1).bytes),
         Extended(file.cells, base, ExtensionOf(key, info, V, A, base.size + 1))
  PROVE  Reads(file, Parse(file), [video |-> frames.video \o FV, audio |-> frames.audio \o FA])
<1> DEFINE e     == ExtensionOf(key, info, V, A, base.size + 1)
           at    == base.size + 1
           pv    == Len(Payload(V))
           pa    == Len(Payload(A))
           lv    == LaidOut(V, at)
           la    == LaidOut(A, at + pv)
           vc    == Chunks(info.video \o lv)
           ac    == Chunks(info.audio \o la)
           bytes == Payload(V) \o Payload(A)
           moov  == MergedMoov(key.config, vc, ac)
           cells == file.cells
           n     == file.size - 1
<1>1. e = [bytes |-> bytes, moov |-> moov]
  BY DEF ExtensionOf
<1>2. e.bytes = bytes /\ e.moov = moov
  BY <1>1
<1>3. Payload(V) \in Seq(Cells) /\ Payload(A) \in Seq(Cells)
  BY PayloadType
<1>4. /\ pv \in Nat /\ pa \in Nat /\ Len(bytes) = pv + pa
      /\ \A p \in 1..pv : bytes[p] = Payload(V)[p]
      /\ \A p \in 1..pa : bytes[pv + p] = Payload(A)[p]
  <2> DEFINE x == Payload(V)
             y == Payload(A)
  <2>1. x \in Seq(Cells) /\ y \in Seq(Cells)
    BY <1>3
  <2> HIDE DEF x, y
  <2>2. /\ Len(x \o y) = Len(x) + Len(y)
        /\ \A p \in 1..Len(x) : (x \o y)[p] = x[p]
        /\ \A p \in 1..Len(y) : (x \o y)[Len(x) + p] = y[p]
        /\ Len(x) \in Nat /\ Len(y) \in Nat
    BY <2>1, Joined
  <2> QED
    BY <2>2 DEF x, y
<1> HIDE DEF e, bytes, moov
<1>5. base.size \in Nat \ {0} /\ file.size = base.size + Len(bytes)
  BY <1>2 DEF Reads, Structured, e
<1>6. /\ \A p \in 1..base.size - 1 : cells[p] = base.cells[p]
      /\ \A j \in 1..Len(bytes) : cells[base.size - 1 + j] = bytes[j]
      /\ cells[base.size + Len(bytes)] = moov
  BY <1>2 DEF Extended, e
<1>7. n \in Nat /\ n = base.size - 1 + (pv + pa) /\ at \in Nat /\ at >= 2 /\ cells[file.size] = moov
  BY <1>4, <1>5, <1>6
<1> HIDE DEF cells, n
<1>8. lv \in Seq(Samples) /\ Covers(cells, n, lv, FV)
  <2>1. at - 2 + pv <= n
    BY <1>4, <1>5, <1>7
  <2>2. \A p \in 1..pv : cells[at - 2 + p] = Payload(V)[p]
    <3> TAKE p \in 1..pv
    <3>1. p \in 1..Len(bytes) /\ at - 2 + p = base.size - 1 + p
      BY <1>4, <1>5
    <3> QED
      BY <1>4, <1>6, <3>1
  <2> HIDE DEF at
  <2> QED
    BY <1>7, <2>1, <2>2, LaidOutCovers
<1>9. la \in Seq(Samples) /\ Covers(cells, n, la, FA)
  <2> DEFINE from == at + pv
  <2>1. from \in Nat /\ from >= 2 /\ from - 2 + Len(Payload(A)) <= n
    <3> DEFINE b == base.size
    <3>1. /\ b \in Nat \ {0} /\ pv \in Nat /\ pa \in Nat
          /\ n = b - 1 + (pv + pa) /\ from = b + 1 + pv
      BY <1>4, <1>5, <1>7
    <3> HIDE DEF b, from, pv, pa
    <3>2. from \in Nat /\ from >= 2 /\ from - 2 + pa <= n
      BY <3>1
    <3> QED
      BY <3>2 DEF pa
  <2>2. \A p \in 1..Len(Payload(A)) : cells[from - 2 + p] = Payload(A)[p]
    <3> TAKE p \in 1..pa
    <3>1. pv + p \in 1..Len(bytes) /\ from - 2 + p = base.size - 1 + (pv + p)
      BY <1>4, <1>5
    <3>2. cells[base.size - 1 + (pv + p)] = bytes[pv + p]
      BY <1>6, <3>1
    <3> QED
      BY <1>4, <3>1, <3>2
  <2> HIDE DEF from
  <2>3. LaidOut(A, from) \in Seq(Samples) /\ Covers(cells, n, LaidOut(A, from), FA)
    BY <1>7, <2>1, <2>2, LaidOutCovers
  <2> QED
    BY <2>3 DEF from
<1>10. /\ info.video \in Seq(Samples) /\ info.audio \in Seq(Samples) /\ info.video # <<>>
       /\ frames.video \in Seq(Frames) /\ frames.audio \in Seq(Frames)
       /\ FV \in Seq(Frames) /\ FA \in Seq(Frames)
  BY DEF Reads, Infos, Footage, CopiesOf
<1>11. ASSUME NEW s \in Seq(Samples), NEW f \in Seq(Frames), Covers(base.cells, base.size - 1, s, f)
       PROVE  Covers(cells, n, s, f)
  <2>1. base.size - 1 \in Nat /\ base.size - 1 <= n
    <3> DEFINE b == base.size
    <3>1. b \in Nat \ {0} /\ pv \in Nat /\ pa \in Nat /\ n = b - 1 + (pv + pa)
      BY <1>4, <1>5, <1>7
    <3> HIDE DEF b, pv, pa
    <3>2. b - 1 \in Nat /\ b - 1 <= n
      BY <3>1
    <3> QED
      BY <3>2 DEF b
  <2>2. \A i \in 1..Len(f) : s[i].offset \in Nat
    <3> TAKE i \in 1..Len(f)
    <3>1. s[i] \in Samples
      BY <1>11 DEF Covers
    <3> QED
      BY <3>1 DEF Samples
  <2> QED
    BY <1>6, <1>7, <1>11, <2>1, <2>2, CoversKept
<1>12. Covers(cells, n, info.video, frames.video) /\ Covers(cells, n, info.audio, frames.audio)
  BY <1>10, <1>11 DEF Reads
<1> HIDE DEF lv, la
<1>13. /\ Covers(cells, n, info.video \o lv, frames.video \o FV)
       /\ Covers(cells, n, info.audio \o la, frames.audio \o FA)
  BY <1>8, <1>9, <1>10, <1>12, CoversJoined
<1>14. /\ info.video \o lv \in Seq(Samples) /\ info.audio \o la \in Seq(Samples)
       /\ frames.video \o FV \in Seq(Frames) /\ frames.audio \o FA \in Seq(Frames)
       /\ info.video \o lv # <<>>
  BY <1>8, <1>9, <1>10
<1>15. /\ IsChunks(vc) /\ FlattenSeq(vc) = info.video \o lv
       /\ IsChunks(ac) /\ FlattenSeq(ac) = info.audio \o la
  BY <1>14, ChunksKeep
<1> HIDE DEF vc, ac
<1> DEFINE found == Info(moov, SampleEntries(moov.video), SampleEntries(moov.audio))
<1>16. /\ found \in Infos /\ found.video = Forget(info.video \o lv) /\ found.audio = Forget(info.audio \o la)
       /\ found.video # <<>>
  <2>1. key.config \in Configs /\ FlattenSeq(vc) # <<>>
    BY <1>14, <1>15 DEF Keys
  <2> QED
    <3>1. /\ found \in Infos /\ found.video = Forget(FlattenSeq(vc)) /\ found.audio = Forget(FlattenSeq(ac))
          /\ found.video # <<>>
      <4>1. IsChunks(vc) /\ IsChunks(ac)
        BY <1>15
      <4> QED
        BY <2>1, <4>1, MoovReads DEF moov
    <3> HIDE DEF found
    <3> QED
      BY <1>15, <3>1
<1> HIDE DEF found
<1>17. Parse(file) = found
  BY <1>7 DEF Parse, found, cells
<1>18. Covers(cells, n, found.video, frames.video \o FV) /\ Covers(cells, n, found.audio, frames.audio \o FA)
  BY <1>13, <1>14, <1>16, CoversForget
<1> DEFINE all == [video |-> frames.video \o FV, audio |-> frames.audio \o FA]
<1>19. all \in Footage /\ all.video = frames.video \o FV /\ all.audio = frames.audio \o FA
  BY <1>14 DEF Footage
<1> HIDE DEF all
<1>20. Reads(file, found, all)
  BY <1>16, <1>18, <1>19 DEF Reads, cells, n
<1> QED
  BY <1>17, <1>20 DEF all

\* A function that is x and then s is the concatenation.
LEMMA PrependIs ==
  ASSUME NEW S, NEW x \in S, NEW s \in Seq(S), NEW f, f = [i \in 1..Len(s) + 1 |-> f[i]],
         f[1] = x, \A i \in 1..Len(s) : f[i + 1] = s[i]
  PROVE  f = <<x>> \o s
<1> DEFINE n == Len(s)
           g == <<x>> \o s
<1>1. <<x>> \in Seq(S) /\ Len(<<x>>) = 1 /\ <<x>>[1] = x /\ n \in Nat
  OBVIOUS
<1>2. /\ Len(g) = 1 + n /\ g \in Seq(S) /\ g[1] = x /\ \A i \in 1..n : g[1 + i] = s[i]
  BY <1>1, Joined
<1>3. ASSUME NEW i \in 1..n + 1 PROVE f[i] = g[i]
  <2>1. CASE i = 1
    BY <1>2, <2>1
  <2>2. CASE i # 1
    <3> DEFINE j == i - 1
    <3>1. j \in 1..n /\ i = j + 1 /\ i = 1 + j
      BY <1>1, <2>2
    <3> HIDE DEF j, g
    <3>2. f[j + 1] = s[j] /\ g[1 + j] = s[j]
      BY <1>2, <3>1
    <3> QED
      BY <3>1, <3>2
  <2> QED
    BY <2>1, <2>2
<1> HIDE DEF g
<1>4. g = [i \in 1..n + 1 |-> g[i]]
  BY <1>1, <1>2
<1> QED
  BY <1>3, <1>4 DEF g

\* Concat puts the frames of both tracks one after the other.
LEMMA ConcatFirst ==
  ASSUME NEW frames \in Footage, NEW parts \in Seq(Footage)
  PROVE  Concat(<<frames>> \o parts)
           = [video |-> frames.video \o Concat(parts).video, audio |-> frames.audio \o Concat(parts).audio]
<1> DEFINE all == <<frames>> \o parts
           n   == Len(parts)
<1>1. /\ n \in Nat /\ DOMAIN parts = 1..n /\ DOMAIN all = 1..n + 1 /\ all[1] = frames
      /\ \A i \in 1..n : all[i + 1] = parts[i] /\ parts[i] \in Footage
  OBVIOUS
<1>2. \A f \in Footage : f.video \in Seq(Frames) /\ f.audio \in Seq(Frames)
  BY DEF Footage
<1> HIDE DEF all, n
<1> DEFINE vs == [i \in DOMAIN parts |-> parts[i].video]
           va == [i \in DOMAIN all |-> all[i].video]
           as == [i \in DOMAIN parts |-> parts[i].audio]
           aa == [i \in DOMAIN all |-> all[i].audio]
<1>3. /\ vs = [i \in 1..n |-> parts[i].video] /\ as = [i \in 1..n |-> parts[i].audio]
      /\ va = [i \in 1..n + 1 |-> all[i].video] /\ aa = [i \in 1..n + 1 |-> all[i].audio]
  BY <1>1
<1>4. /\ \A i \in 1..n : vs[i] = parts[i].video /\ as[i] = parts[i].audio
      /\ \A i \in 1..n : va[i + 1] = parts[i].video /\ aa[i + 1] = parts[i].audio
      /\ va[1] = frames.video /\ aa[1] = frames.audio
  BY <1>1
<1>5. vs \in Seq(Seq(Frames)) /\ as \in Seq(Seq(Frames)) /\ Len(vs) = n /\ Len(as) = n
  <2>1. \A i \in 1..n : vs[i] \in Seq(Frames) /\ as[i] \in Seq(Frames)
    BY <1>1, <1>2, <1>4
  <2>2. vs = [i \in 1..n |-> vs[i]] /\ as = [i \in 1..n |-> as[i]]
    BY <1>1
  <2> HIDE DEF vs, as
  <2>3. vs \in Seq(Seq(Frames)) /\ Len(vs) = n
    BY <1>1, <2>1, <2>2, IsSequence
  <2>4. as \in Seq(Seq(Frames)) /\ Len(as) = n
    BY <1>1, <2>1, <2>2, IsSequence
  <2> QED
    BY <2>3, <2>4
<1>6. va = <<frames.video>> \o vs /\ aa = <<frames.audio>> \o as
  <2>1. va = [i \in 1..n + 1 |-> va[i]] /\ aa = [i \in 1..n + 1 |-> aa[i]]
    BY <1>1
  <2>2. /\ frames.video \in Seq(Frames) /\ frames.audio \in Seq(Frames)
        /\ \A i \in 1..n : va[i + 1] = vs[i] /\ aa[i + 1] = as[i]
    BY <1>2, <1>4
  <2> HIDE DEF vs, as, va, aa
  <2> DEFINE U == Seq(Frames)
  <2>3. vs \in Seq(U) /\ as \in Seq(U) /\ frames.video \in U /\ frames.audio \in U
    BY <1>5, <2>2
  <2> HIDE DEF U
  <2>4. va = <<frames.video>> \o vs
    <3>1. /\ va = [i \in 1..Len(vs) + 1 |-> va[i]]
          /\ va[1] = frames.video /\ \A i \in 1..Len(vs) : va[i + 1] = vs[i]
      BY <1>4, <1>5, <2>1, <2>2
    <3> QED
      BY <2>3, <3>1, PrependIs
  <2>5. aa = <<frames.audio>> \o as
    <3>1. /\ aa = [i \in 1..Len(as) + 1 |-> aa[i]]
          /\ aa[1] = frames.audio /\ \A i \in 1..Len(as) : aa[i + 1] = as[i]
      BY <1>4, <1>5, <2>1, <2>2
    <3> QED
      BY <2>3, <3>1, PrependIs
  <2> QED
    BY <2>4, <2>5
<1>8. Concat(all) = [video |-> FlattenSeq(va), audio |-> FlattenSeq(aa)]
  BY DEF Concat
<1>9. Concat(parts).video = FlattenSeq(vs) /\ Concat(parts).audio = FlattenSeq(as)
  BY DEF Concat
<1> HIDE DEF vs, as, va, aa
<1>10. /\ FlattenSeq(va) = frames.video \o FlattenSeq(vs)
       /\ FlattenSeq(aa) = frames.audio \o FlattenSeq(as)
  BY <1>2, <1>5, <1>6, FlattenPrepend
<1> QED
  BY <1>8, <1>9, <1>10 DEF all

\* What lies in front of the old moov is what there was.
KeepsBase(cells, base) ==
    \A i \in 1..base.size - 1 : i \in DOMAIN cells /\ cells[i] = base.cells[i]

\* What each step finds: the moov behind the new samples once it is written, a
\* complete file before the commit, the old moov once it is put back.
StepInv ==
    LET cells == hour[job.key].file.cells IN
    /\ job.step \in {"copy", "patch", "commit", "undo", "resize"}
    /\ job.step = "patch" => IsMoov(cells[job.base.size + job.copied])
    /\ job.step = "commit" => Structured(hour[job.key].file)
    /\ job.step = "resize" =>
          /\ DOMAIN cells = 1..job.base.size
          /\ cells[job.base.size] = job.base.cells[job.base.size]

\* The record of an append.
JobShape ==
    /\ job = [key |-> job.key, base |-> job.base, extension |-> job.extension,
              copied |-> job.copied, step |-> job.step]
    /\ job.key \in DOMAIN hour
    /\ job.copied \in Nat
    /\ Structured(job.base)
    /\ IsMoov(job.extension.moov)

\* An hour file is a record, so that a part of it can be replaced.
HourShape ==
    /\ DOMAIN hour \subseteq Keys
    /\ hour = [k \in DOMAIN hour |-> hour[k]]
    /\ \A k \in DOMAIN hour : hour[k] = [file |-> hour[k].file, frames |-> hour[k].frames]

\* The shapes, and what an append in progress has left intact.
AppendInv ==
    /\ HourShape
    /\ ~Idle => JobShape /\ KeepsBase(hour[job.key].file.cells, job.base) /\ StepInv

\* A write at or behind the old moov leaves what is in front of it.
LEMMA WriteBehind == ASSUME NEW cells, NEW base, NEW n \in Nat, NEW cell,
                            Structured(base), KeepsBase(cells, base)
                     PROVE  KeepsBase(WriteAt(cells, base.size + n, cell), base)
  BY DEF KeepsBase, WriteAt, Structured

\* What was written is there.
LEMMA WriteFinds == ASSUME NEW cells, NEW i, NEW cell
                    PROVE  WriteAt(cells, i, cell)[i] = cell
  BY DEF WriteAt

\* A cut at or behind the old moov leaves what is in front of it.
LEMMA CutBehind == ASSUME NEW cells, NEW base, NEW n \in Nat,
                          Structured(base), KeepsBase(cells, base), n >= base.size - 1
                   PROVE  KeepsBase(Truncate(cells, n), base)
  BY DEF KeepsBase, Truncate, Structured

\* An interval and its last number.
LEMMA UpTo == ASSUME NEW n \in Nat \ {0} PROVE (1..n - 1) \cup {n} = 1..n
  OBVIOUS

\* An extension ends with a moov.
LEMMA ExtensionHasMoov == ASSUME NEW key, NEW base
                          PROVE  IsMoov(Extension(key, base).moov)
  BY DEF Extension, ExtensionOf, MergedMoov, IsMoov

\* A step that puts other bytes into the file keeps the shapes.
LEMMA PutShape == ASSUME AppendInv, ~Idle, NEW size, NEW cells, Put(size, cells)
                  PROVE  /\ HourShape'
                         /\ DOMAIN hour' = DOMAIN hour
                         /\ hour'[job.key] = [file |-> [size |-> size, cells |-> cells],
                                              frames |-> hour[job.key].frames]
<1>1. hour'[job.key] = [file |-> [size |-> size, cells |-> cells],
                        frames |-> hour[job.key].frames]
  BY DEF AppendInv, HourShape, JobShape, Put
<1>2. \A k \in DOMAIN hour : k # job.key => hour'[k] = hour[k]
  BY DEF AppendInv, HourShape, JobShape, Put
<1>3. DOMAIN hour' = DOMAIN hour /\ hour' = [k \in DOMAIN hour |-> hour'[k]]
  BY DEF AppendInv, HourShape, JobShape, Put
<1> QED
  BY <1>1, <1>2, <1>3 DEF AppendInv, HourShape

\* No append is in progress at first.
LEMMA AppendInvInit == Init => AppendInv
  BY DEF Init, AppendInv, HourShape, Idle, NoJob

\* Steps outside an append, and the commit.
LEMMA MergeKeeps == ASSUME AppendInv, NEW key \in Keys, NEW sources, MergeGroup(key, sources)
                    PROVE  AppendInv'
  BY DEF MergeGroup, AppendInv, HourShape, Idle, NoJob

\* The base of an append is the file as it is.
LEMMA BeginKeeps == ASSUME AppendInv, NEW key \in Keys, BeginAppend(key)
                    PROVE  AppendInv'
<1>1. job' = [key |-> key, base |-> hour[key].file,
              extension |-> Extension(key, hour[key].file), copied |-> 0, step |-> "copy"]
  BY DEF BeginAppend
<1>2. hour' = hour /\ key \in DOMAIN hour /\ Structured(hour[key].file)
  BY DEF BeginAppend
<1>3. IsMoov(job'.extension.moov)
  BY <1>1, ExtensionHasMoov
<1>4. JobShape'
  BY <1>1, <1>2, <1>3 DEF JobShape, AppendInv, HourShape
<1>5. KeepsBase(hour'[job'.key].file.cells, job'.base)
  BY <1>1, <1>2 DEF KeepsBase, Structured
<1>6. StepInv'
  BY <1>1 DEF StepInv
<1> QED
  BY <1>2, <1>4, <1>5, <1>6 DEF AppendInv, HourShape

\* A sample is written behind the base.
LEMMA CopyKeeps == ASSUME AppendInv, CopySample PROVE AppendInv'
<1> DEFINE cells == WriteAt(Grown.cells, job.base.size + job.copied,
                            job.extension.bytes[job.copied + 1])
<1>1. ~Idle /\ job.step = "copy" /\ Put(Grown.size, cells)
  BY DEF CopySample, At, Idle, NoJob
<1>2. job' = [job EXCEPT !.copied = @ + 1]
  BY DEF CopySample
<1>3. /\ job' = [key |-> job.key, base |-> job.base, extension |-> job.extension,
                 copied |-> job.copied + 1, step |-> "copy"]
      /\ job.key \in DOMAIN hour /\ job.copied \in Nat /\ Structured(job.base)
      /\ IsMoov(job.extension.moov)
  BY <1>1, <1>2 DEF AppendInv, JobShape
<1> HIDE DEF cells
<1>4. /\ HourShape' /\ DOMAIN hour' = DOMAIN hour
      /\ hour'[job.key] = [file |-> [size |-> Grown.size, cells |-> cells],
                           frames |-> hour[job.key].frames]
  BY <1>1, PutShape
<1>5. JobShape'
  BY <1>3, <1>4 DEF JobShape
<1>6. KeepsBase(cells, job.base)
  BY <1>1, <1>3, WriteBehind DEF cells, AppendInv, Grown
<1>7. StepInv'
  BY <1>3 DEF StepInv
<1> QED
  BY <1>3, <1>4, <1>5, <1>6, <1>7 DEF AppendInv

\* The new moov is written behind the samples.
LEMMA MoovKeeps == ASSUME AppendInv, WriteMoov PROVE AppendInv'
<1> DEFINE cells == WriteAt(Grown.cells, job.base.size + job.copied, job.extension.moov)
<1>1. ~Idle /\ Put(Grown.size, cells)
  BY DEF WriteMoov, At, Idle, NoJob
<1>2. job' = [job EXCEPT !.step = "patch"]
  BY DEF WriteMoov
<1>3. /\ job' = [key |-> job.key, base |-> job.base, extension |-> job.extension,
                 copied |-> job.copied, step |-> "patch"]
      /\ job.key \in DOMAIN hour /\ job.copied \in Nat /\ Structured(job.base)
      /\ IsMoov(job.extension.moov)
  BY <1>1, <1>2 DEF AppendInv, JobShape
<1>4. cells[job.base.size + job.copied] = job.extension.moov
  BY WriteFinds
<1>5. KeepsBase(cells, job.base)
  BY <1>1, <1>3, WriteBehind DEF AppendInv, Grown
<1> HIDE DEF cells
<1>6. /\ HourShape' /\ DOMAIN hour' = DOMAIN hour
      /\ hour'[job.key] = [file |-> [size |-> Grown.size, cells |-> cells],
                           frames |-> hour[job.key].frames]
  BY <1>1, PutShape
<1>7. JobShape'
  BY <1>3, <1>6 DEF JobShape
<1>8. StepInv'
  BY <1>3, <1>4, <1>6 DEF StepInv
<1> QED
  BY <1>3, <1>5, <1>6, <1>7, <1>8 DEF AppendInv

\* With its size the file is complete.
LEMMA PatchKeeps == ASSUME AppendInv, PatchSize PROVE AppendInv'
<1> DEFINE size == job.base.size + job.copied
           cells == Truncate(Grown.cells, size)
<1>1. ~Idle /\ job.step = "patch" /\ Put(size, cells)
  BY DEF PatchSize, At, Idle, NoJob
<1>2. job' = [job EXCEPT !.step = "commit"]
  BY DEF PatchSize
<1>3. /\ job' = [key |-> job.key, base |-> job.base, extension |-> job.extension,
                 copied |-> job.copied, step |-> "commit"]
      /\ job.key \in DOMAIN hour /\ job.copied \in Nat /\ Structured(job.base)
      /\ IsMoov(job.extension.moov)
  BY <1>1, <1>2 DEF AppendInv, JobShape
<1>4. size \in Nat \ {0} /\ size >= job.base.size - 1
  BY <1>3 DEF Structured
<1>5. IsMoov(Grown.cells[size])
  BY <1>1 DEF AppendInv, StepInv, Grown
<1>6. DOMAIN cells = 1..size /\ cells[size] = Grown.cells[size]
  BY <1>4 DEF Truncate
<1> HIDE DEF size
<1>7. KeepsBase(cells, job.base)
  BY <1>1, <1>3, <1>4, CutBehind DEF AppendInv, Grown
<1> HIDE DEF cells
<1>8. /\ HourShape' /\ DOMAIN hour' = DOMAIN hour
      /\ hour'[job.key] = [file |-> [size |-> size, cells |-> cells],
                           frames |-> hour[job.key].frames]
  BY <1>1, PutShape
<1>9. Structured([size |-> size, cells |-> cells])
  BY <1>4, <1>5, <1>6 DEF Structured
<1>10. JobShape'
  BY <1>3, <1>8 DEF JobShape
<1>11. StepInv'
  BY <1>3, <1>8, <1>9 DEF StepInv
<1> QED
  BY <1>3, <1>7, <1>8, <1>10, <1>11 DEF AppendInv

\* The commit does not touch the file.
LEMMA CommitKeeps == ASSUME AppendInv, Commit PROVE AppendInv'
<1>1. ~Idle /\ job' = NoJob /\ job.key \in DOMAIN hour
  BY DEF Commit, At, AppendInv, JobShape, Idle, NoJob
<1>2. hour' = [hour EXCEPT ![job.key] = [hour[job.key] EXCEPT !.frames = hour'[job.key].frames]]
  BY <1>1 DEF Commit, AppendInv, JobShape, HourShape
<1>3. hour'[job.key] = [file |-> hour[job.key].file, frames |-> hour'[job.key].frames]
  BY <1>1, <1>2 DEF AppendInv, JobShape, HourShape
<1>4. \A k \in DOMAIN hour : k # job.key => hour'[k] = hour[k]
  BY <1>1, <1>2 DEF AppendInv, HourShape
<1>5. DOMAIN hour' = DOMAIN hour /\ hour' = [k \in DOMAIN hour |-> hour'[k]]
  BY <1>1, <1>2 DEF AppendInv, HourShape
<1>6. HourShape'
  BY <1>3, <1>4, <1>5 DEF AppendInv, HourShape
<1> QED
  BY <1>1, <1>6 DEF AppendInv, Idle, NoJob

\* An interruption does not touch it, either.
LEMMA InterruptKeeps == ASSUME AppendInv, Interrupt PROVE AppendInv'
<1>1. ~Idle /\ hour' = hour /\ job' = [job EXCEPT !.step = "undo"]
  BY DEF Interrupt
<1>2. job' = [key |-> job.key, base |-> job.base, extension |-> job.extension,
              copied |-> job.copied, step |-> "undo"]
  BY <1>1 DEF AppendInv, JobShape
<1>3. JobShape' /\ StepInv'
  BY <1>1, <1>2 DEF AppendInv, JobShape, StepInv
<1> QED
  BY <1>1, <1>2, <1>3 DEF AppendInv, HourShape, KeepsBase

\* The old moov goes behind what an append leaves intact.
LEMMA RestoreMoovKeeps == ASSUME AppendInv, RestoreMoov PROVE AppendInv'
<1> DEFINE short == Truncate(Grown.cells, job.base.size - 1)
           cells == WriteAt(short, job.base.size, job.base.cells[job.base.size])
<1>1. ~Idle /\ Put(Grown.size, cells)
  BY DEF RestoreMoov, At, Idle, NoJob
<1>2. job' = [job EXCEPT !.step = "resize"]
  BY DEF RestoreMoov
<1>3. /\ job' = [key |-> job.key, base |-> job.base, extension |-> job.extension,
                 copied |-> job.copied, step |-> "resize"]
      /\ job.key \in DOMAIN hour /\ job.copied \in Nat /\ Structured(job.base)
      /\ IsMoov(job.extension.moov)
  BY <1>1, <1>2 DEF AppendInv, JobShape
<1>4. job.base.size - 1 \in Nat
  BY <1>3 DEF Structured
<1>5. KeepsBase(short, job.base)
  BY <1>1, <1>3, <1>4, CutBehind DEF AppendInv, Grown
<1>6. DOMAIN short = 1..job.base.size - 1
  BY DEF Truncate
<1>7. DOMAIN cells = 1..job.base.size
  <2>1. DOMAIN cells = (1..job.base.size - 1) \cup {job.base.size}
    BY <1>6 DEF WriteAt
  <2>2. job.base.size \in Nat \ {0}
    BY <1>3 DEF Structured
  <2> QED
    BY <2>1, <2>2, UpTo
<1>8. cells[job.base.size] = job.base.cells[job.base.size]
  BY WriteFinds
<1> HIDE DEF short
<1>9. KeepsBase(cells, job.base)
  <2>1. cells = WriteAt(short, job.base.size + 0, job.base.cells[job.base.size])
    BY <1>3 DEF Structured
  <2> QED
    BY <2>1, <1>3, <1>5, WriteBehind
<1> HIDE DEF cells
<1>10. /\ HourShape' /\ DOMAIN hour' = DOMAIN hour
       /\ hour'[job.key] = [file |-> [size |-> Grown.size, cells |-> cells],
                            frames |-> hour[job.key].frames]
  BY <1>1, PutShape
<1>11. JobShape'
  BY <1>3, <1>10 DEF JobShape
<1>12. StepInv'
  <2>1. hour'[job'.key].file.cells = cells
    BY <1>3, <1>10
  <2> QED
    BY <2>1, <1>3, <1>7, <1>8 DEF StepInv
<1> QED
  BY <1>3, <1>9, <1>10, <1>11, <1>12 DEF AppendInv

\* A restored append is over.
LEMMA RestoreSizeKeeps == ASSUME AppendInv, RestoreSize PROVE AppendInv'
<1>1. ~Idle /\ job' = NoJob /\ Put(job.base.size, Grown.cells)
  BY DEF RestoreSize, At, Idle, NoJob
<1>2. HourShape'
  BY <1>1, PutShape
<1> QED
  BY <1>1, <1>2 DEF AppendInv, Idle, NoJob

\* Every step keeps what appends leave intact.
LEMMA AppendInvKept == AppendInv /\ [Next]_vars => AppendInv'
<1> SUFFICES ASSUME AppendInv, [Next]_vars PROVE AppendInv'
  OBVIOUS
<1> DEFINE Outside == UNCHANGED <<hour, job>>
<1>0. ASSUME Outside PROVE AppendInv'
  BY <1>0 DEF AppendInv, HourShape, JobShape, KeepsBase, StepInv, Idle, NoJob
<1>1. CASE UNCHANGED vars
  BY <1>0, <1>1 DEF vars
<1>2. ASSUME NEW c \in Configs, NEW s \in Sounds, OpenSegment(c, s) PROVE AppendInv'
  BY <1>0, <1>2 DEF OpenSegment
<1>3. CASE WriteTimedSample \/ WriteAudioSample \/ WriteFails
  BY <1>0, <1>3 DEF WriteTimedSample, WriteAudioSample, WriteFails
<1>4. CASE Close \/ CloseRefused
  BY <1>0, <1>4 DEF Close, CloseRefused
<1>5. ASSUME NEW key \in Keys, MergeHour(key) \/ MergePeriodically(key) PROVE AppendInv'
  BY <1>5, MergeKeeps DEF MergeHour, MergePeriodically
<1>6. ASSUME NEW key \in Keys, BeginAppend(key) PROVE AppendInv'
  BY <1>6, BeginKeeps
<1>7. CASE CopySample \/ WriteMoov \/ PatchSize \/ Commit
  BY <1>7, CopyKeeps, MoovKeeps, PatchKeeps, CommitKeeps
<1>8. CASE Interrupt \/ RestoreMoov \/ RestoreSize
  BY <1>8, InterruptKeeps, RestoreMoovKeeps, RestoreSizeKeeps
<1> QED
  BY <1>1, <1>2, <1>3, <1>4, <1>5, <1>6, <1>7, <1>8 DEF Next

\* Whenever an append is interrupted, the journal's moov and size give back
\* the file there was: nothing in front of the moov has been touched.
THEOREM JournalSuffices == Spec => []BaseIntact
<1>1. AppendInv => BaseIntact
  BY DEF AppendInv, JobShape, KeepsBase, BaseIntact
<1> QED
  BY AppendInvInit, AppendInvKept, <1>1, PTL DEF Spec

\* An append that is done can be followed by another, and one that is undone
\* has given back the file.
THEOREM AppendsComplete == Spec => AppendsGoOn
<1> DEFINE Ends == /\ Commit \/ RestoreSize => Structured(hour'[job.key].file)
                   /\ RestoreSize => SameBytes(hour'[job.key].file, job.base)
<1>1. AppendInv => Ends
  <2> SUFFICES ASSUME AppendInv PROVE Ends
    OBVIOUS
  <2>1. Commit => Structured(hour'[job.key].file)
    BY DEF Commit, At, AppendInv, HourShape, JobShape, StepInv, Idle, NoJob
  <2>2. ASSUME RestoreSize
        PROVE  Structured(hour'[job.key].file) /\ SameBytes(hour'[job.key].file, job.base)
    <3>1. ~Idle /\ Put(job.base.size, Grown.cells) /\ job.step = "resize"
      BY <2>2 DEF RestoreSize, At, Idle, NoJob
    <3>2. hour'[job.key] = [file |-> [size |-> job.base.size, cells |-> Grown.cells],
                            frames |-> hour[job.key].frames]
      BY <3>1, PutShape
    <3>3. /\ Structured(job.base)
          /\ KeepsBase(Grown.cells, job.base)
          /\ DOMAIN Grown.cells = 1..job.base.size
          /\ Grown.cells[job.base.size] = job.base.cells[job.base.size]
      BY <3>1 DEF AppendInv, JobShape, StepInv, Grown
    <3>4. \A i \in 1..job.base.size : Grown.cells[i] = job.base.cells[i]
      BY <3>3 DEF KeepsBase, Structured
    <3> QED
      BY <3>2, <3>3, <3>4 DEF Structured, SameBytes
  <2> QED
    BY <2>1, <2>2
<1> QED
  BY AppendInvInit, AppendInvKept, <1>1, PTL DEF Spec, AppendsGoOn

-----------------------------------------------------------------------------
(* The inductive invariant *)

\* The sync samples are the keyframes, and the first is one.
Keyed(samples, frames) ==
    /\ \A i \in 1..Len(frames) : samples[i].sync = frames[i].key
    /\ frames # <<>> => frames[1].key

\* The open segment: its samples say where the frames lie.
MuxerOK(m) ==
    /\ m = [config |-> m.config, sound |-> m.sound, cells |-> m.cells, video |-> m.video,
            audio |-> m.audio, frames |-> [video |-> m.frames.video, audio |-> m.frames.audio]]
    /\ m.config \in Configs
    /\ m.cells \in Seq(Cells)
    /\ m.video \in Seq(Samples) /\ m.audio \in Seq(Samples)
    /\ m.frames \in Footage
    /\ Covers(m.cells, Len(m.cells), m.video, m.frames.video)
    /\ IF m.sound = "aac" THEN Covers(m.cells, Len(m.cells), m.audio, m.frames.audio)
                          ELSE m.frames.audio = <<>>
    /\ Keyed(m.video, m.frames.video)

\* The open segment, if there is one, is as it should be.
MuxerInv == muxer # None => MuxerOK(muxer)

\* A closed segment reads back, and its player seeks to its keyframes.
SegmentOK(p) ==
    /\ p = [file |-> p.file, info |-> p.info, frames |-> p.frames]
    /\ Reads(p.file, p.info, p.frames)
    /\ SeekPoints(Moov(p.file).video) = {n \in DOMAIN p.frames.video : p.frames.video[n].key}

\* Closed segments are taken from a set of good ones; stated with a set, it is kept
\* when the segments of a group are picked.
PendingInv == \E S : pending \in Seq(S) /\ \A p \in S : SegmentOK(p)

\* An hour file nobody works on can be read unless it is too large, and if it can,
\* it shows its frames.
HourOK(h) ==
    /\ Structured(h.file) => Reads(h.file, Parse(h.file), h.frames)
    /\ 1 + SizeOf(h.frames.video) + SizeOf(h.frames.audio) < Limit => Structured(h.file)

\* An hour file nobody works on is as it should be.
HourInv ==
    \A k \in DOMAIN hour : /\ hour[k].frames \in Footage
                           /\ Idle \/ job.key # k => HourOK(hour[k])

\* An append extends the hour file there was, and what it writes is the extension.
JobBase ==
    ~Idle =>
        /\ Reads(job.base, Parse(job.base), hour[job.key].frames)
        /\ job.extension = Extension(job.key, job.base)
        /\ job.copied \in 0..Len(job.extension.bytes)

\* What it has written, in its order.
JobWritten ==
    LET cells == hour[job.key].file.cells
        bytes == job.extension.bytes
    IN ~Idle =>
          /\ job.step \in {"copy", "patch", "commit"} =>
                \A j \in 1..job.copied :
                    /\ job.base.size - 1 + j \in DOMAIN cells
                    /\ cells[job.base.size - 1 + j] = bytes[j]
          /\ job.step \in {"patch", "commit"} =>
                /\ job.copied = Len(bytes)
                /\ cells[job.base.size + job.copied] = job.extension.moov
          /\ job.step = "commit" => hour[job.key].file.size = job.base.size + job.copied

\* The append in progress.
JobInv == JobBase /\ JobWritten

\* The counters within their bounds.
CountInv == nextId \in 1..MaxFrames + 1 /\ torn \in 0..MaxTorn /\ crashes \in 0..MaxCrashes

\* The inductive invariant.
FileInv == AppendInv /\ MuxerInv /\ PendingInv /\ HourInv /\ JobInv /\ CountInv
-----------------------------------------------------------------------------
(* The muxer *)

\* One frame in a file.
LEMMA CoversOne ==
  ASSUME NEW cells, NEW n, NEW s \in Samples, NEW f \in Frames,
         s.size = f.size, s.delta = f.delta, s.offset >= 2, s.offset - 2 + f.size <= n,
         \A k \in 1..f.size : cells[s.offset - 2 + k] = Data(f)[k]
  PROVE  Covers(cells, n, <<s>>, <<f>>)
<1>1. Len(<<s>>) = 1 /\ Len(<<f>>) = 1 /\ <<s>>[1] = s /\ <<f>>[1] = f
  OBVIOUS
<1>2. \A i \in 1..1 : i = 1
  OBVIOUS
<1> QED
  BY <1>1, <1>2 DEF Covers

\* A frame that is written behind all others.
LEMMA CoversAppended ==
  ASSUME NEW cells \in Seq(Cells), NEW samples \in Seq(Samples), NEW frames \in Seq(Frames),
         Covers(cells, Len(cells), samples, frames),
         NEW s \in Samples, NEW f \in Frames, s.size = f.size, s.delta = f.delta,
         s.offset = Len(cells) + 2
  PROVE  LET more == cells \o Data(f) IN
         /\ more \in Seq(Cells)
         /\ Covers(more, Len(more), samples, frames)
         /\ Covers(more, Len(more), Append(samples, s), Append(frames, f))
<1> DEFINE more == cells \o Data(f)
           n    == Len(cells)
<1>1. Data(f) \in Seq(Cells) /\ Len(Data(f)) = f.size /\ f.size \in Nat /\ n \in Nat
  BY DataType DEF Frames
<1>2. /\ more \in Seq(Cells) /\ Len(more) = n + f.size
      /\ \A p \in 1..n : more[p] = cells[p]
      /\ \A k \in 1..f.size : more[n + k] = Data(f)[k]
  <2> DEFINE d == Data(f)
  <2>1. d \in Seq(Cells) /\ Len(d) = f.size
    BY <1>1
  <2> HIDE DEF d
  <2>2. /\ Len(cells \o d) = Len(cells) + Len(d) /\ cells \o d \in Seq(Cells)
        /\ \A m \in 1..Len(cells) : (cells \o d)[m] = cells[m]
        /\ \A k \in 1..Len(d) : (cells \o d)[Len(cells) + k] = d[k]
    <3>1. \A u, v \in Seq(Cells) :
             /\ Len(u \o v) = Len(u) + Len(v) /\ u \o v \in Seq(Cells)
             /\ \A m \in 1..Len(u) : (u \o v)[m] = u[m]
             /\ \A k \in 1..Len(v) : (u \o v)[Len(u) + k] = v[k]
      BY Joined
    <3> QED
      BY <2>1, <3>1
  <2> QED
    BY <2>1, <2>2 DEF d
<1>3. Len(more) \in Nat /\ n <= Len(more)
  BY <1>1, <1>2
<1> HIDE DEF more
<1>4. Covers(more, Len(more), samples, frames)
  <2>1. \A i \in 1..Len(frames) : samples[i].offset \in Nat
    <3> TAKE i \in 1..Len(frames)
    <3>1. samples[i] \in Samples
      BY DEF Covers
    <3> QED
      BY <3>1 DEF Samples
  <2> QED
    BY <1>1, <1>2, <1>3, <2>1, CoversKept
<1>5. Covers(more, Len(more), <<s>>, <<f>>)
  <2>1. s.offset - 2 + f.size <= Len(more) /\ s.offset >= 2
    BY <1>1, <1>2
  <2>2. \A k \in 1..f.size : more[s.offset - 2 + k] = Data(f)[k]
    <3> TAKE k \in 1..f.size
    <3>1. s.offset - 2 + k = n + k
      BY <1>1
    <3> QED
      BY <1>2, <3>1
  <2> QED
    BY <2>1, <2>2, CoversOne
<1>6. Covers(more, Len(more), samples \o <<s>>, frames \o <<f>>)
  <2>1. <<s>> \in Seq(Samples) /\ <<f>> \in Seq(Frames)
    OBVIOUS
  <2> QED
    BY <1>4, <1>5, <2>1, CoversJoined
<1>7. samples \o <<s>> = Append(samples, s) /\ frames \o <<f>> = Append(frames, f)
  OBVIOUS
<1> QED
  BY <1>2, <1>4, <1>6, <1>7 DEF more

\* Marks of keyframes, with a frame behind all others.
LEMMA KeyedAppended ==
  ASSUME NEW samples \in Seq(Samples), NEW frames \in Seq(Frames), Len(samples) = Len(frames),
         Keyed(samples, frames), NEW s \in Samples, NEW f \in Frames, s.sync = f.key,
         samples = <<>> => f.key
  PROVE  Keyed(Append(samples, s), Append(frames, f))
<1> DEFINE n == Len(frames)
<1>1. /\ n \in Nat /\ Len(Append(frames, f)) = n + 1
      /\ Append(samples, s)[n + 1] = s /\ Append(frames, f)[n + 1] = f
      /\ \A i \in 1..n : Append(samples, s)[i] = samples[i] /\ Append(frames, f)[i] = frames[i]
  OBVIOUS
<1>2. \A i \in 1..n : samples[i].sync = frames[i].key
  BY DEF Keyed
<1>3. ASSUME NEW i \in 1..n + 1 PROVE Append(samples, s)[i].sync = Append(frames, f)[i].key
  <2>1. CASE i = n + 1
    BY <1>1, <2>1
  <2>2. CASE i # n + 1
    <3>1. i \in 1..n
      BY <1>1, <2>2
    <3> QED
      BY <1>1, <1>2, <3>1
  <2> QED
    BY <2>1, <2>2
<1>4. Append(frames, f)[1].key
  <2>1. CASE n = 0
    <3>1. samples = <<>>
      BY <2>1
    <3> QED
      BY <1>1, <2>1, <3>1
  <2>2. CASE n # 0
    <3>1. 1 \in 1..n /\ frames # <<>>
      BY <1>1, <2>2
    <3> QED
      BY <1>1, <3>1 DEF Keyed
  <2> QED
    BY <2>1, <2>2
<1> QED
  BY <1>1, <1>3, <1>4 DEF Keyed

\* A video frame is added to the open segment.
LEMMA VideoWritten ==
  ASSUME MuxerOK(muxer), NEW f \in Frames, muxer.video = <<>> => f.key
  PROVE  MuxerOK(Written("video", f))
<1> DEFINE s == [offset |-> Len(muxer.cells) + 2, size |-> f.size, delta |-> f.delta, sync |-> f.key]
           m == Written("video", f)
           more == muxer.cells \o Data(f)
<1>1. /\ muxer = [config |-> muxer.config, sound |-> muxer.sound, cells |-> muxer.cells,
                  video |-> muxer.video, audio |-> muxer.audio,
                  frames |-> [video |-> muxer.frames.video, audio |-> muxer.frames.audio]]
      /\ muxer.cells \in Seq(Cells) /\ muxer.video \in Seq(Samples) /\ muxer.audio \in Seq(Samples)
      /\ muxer.frames \in Footage
      /\ Covers(muxer.cells, Len(muxer.cells), muxer.video, muxer.frames.video)
      /\ Keyed(muxer.video, muxer.frames.video)
      /\ muxer.config \in Configs
  BY DEF MuxerOK
<1>2. m = [config |-> muxer.config, sound |-> muxer.sound, cells |-> more,
           video |-> Append(muxer.video, s), audio |-> muxer.audio,
           frames |-> [video |-> Append(muxer.frames.video, f), audio |-> muxer.frames.audio]]
  <2> DEFINE m0 == [muxer EXCEPT !.cells = more]
  <2>1. m0 = [config |-> muxer.config, sound |-> muxer.sound, cells |-> more,
              video |-> muxer.video, audio |-> muxer.audio,
              frames |-> [video |-> muxer.frames.video, audio |-> muxer.frames.audio]]
    <3> HIDE DEF more
    <3> QED
      BY <1>1
  <2>2. m = [m0 EXCEPT !.video = Append(@, s), !.frames.video = Append(@, f)]
    BY <1>1 DEF Written, Recorded
  <2> HIDE DEF m0, more, s, m
  <2> QED
    BY <2>1, <2>2
<1>3. muxer.frames.video \in Seq(Frames) /\ muxer.frames.audio \in Seq(Frames)
  BY <1>1 DEF Footage
<1>4. /\ f.size \in Nat /\ f.delta \in Nat /\ f.key \in BOOLEAN /\ Len(muxer.cells) + 2 \in Nat
  BY <1>1 DEF Frames
<1>5. /\ s \in Samples /\ s.size = f.size /\ s.delta = f.delta /\ s.offset = Len(muxer.cells) + 2
      /\ s.sync = f.key
  BY <1>4 DEF Samples
<1> HIDE DEF s, m
<1>6. /\ more \in Seq(Cells)
      /\ Covers(more, Len(more), Append(muxer.video, s), Append(muxer.frames.video, f))
  BY <1>1, <1>3, <1>5, CoversAppended
<1>7. IF muxer.sound = "aac" THEN Covers(more, Len(more), muxer.audio, muxer.frames.audio)
                             ELSE muxer.frames.audio = <<>>
  <2>1. CASE muxer.sound = "aac"
    <3>1. Covers(muxer.cells, Len(muxer.cells), muxer.audio, muxer.frames.audio)
      BY <2>1 DEF MuxerOK
    <3> QED
      BY <1>1, <1>3, <1>5, <2>1, <3>1, CoversAppended
  <2>2. CASE muxer.sound # "aac"
    BY <2>2 DEF MuxerOK
  <2> QED
    BY <2>1, <2>2
<1>8. Keyed(Append(muxer.video, s), Append(muxer.frames.video, f))
  <2>1. Len(muxer.video) = Len(muxer.frames.video)
    BY <1>1 DEF Covers
  <2> QED
    BY <1>1, <1>3, <1>5, <2>1, KeyedAppended
<1>9. /\ Append(muxer.video, s) \in Seq(Samples) /\ Append(muxer.frames.video, f) \in Seq(Frames)
  BY <1>1, <1>3, <1>5
<1> HIDE DEF more
<1>10. /\ m.config = muxer.config /\ m.sound = muxer.sound /\ m.cells = more
       /\ m.video = Append(muxer.video, s) /\ m.audio = muxer.audio
       /\ m.frames.video = Append(muxer.frames.video, f) /\ m.frames.audio = muxer.frames.audio
       /\ m.frames = [video |-> m.frames.video, audio |-> m.frames.audio]
       /\ m = [config |-> m.config, sound |-> m.sound, cells |-> m.cells, video |-> m.video,
               audio |-> m.audio, frames |-> [video |-> m.frames.video, audio |-> m.frames.audio]]
  BY <1>2
<1>11. m.frames \in Footage
  BY <1>3, <1>9, <1>10 DEF Footage
<1>12. MuxerOK(m)
  BY <1>1, <1>6, <1>7, <1>8, <1>9, <1>10, <1>11 DEF MuxerOK
<1> QED
  BY <1>12 DEF m

\* A frame of sound is added; only that of AAC is found again.
LEMMA AudioWritten ==
  ASSUME MuxerOK(muxer), NEW f \in Frames
  PROVE  MuxerOK(Written("audio", f))
<1> DEFINE s == [offset |-> Len(muxer.cells) + 2, size |-> f.size, delta |-> f.delta, sync |-> f.key]
           m == Written("audio", f)
           more == muxer.cells \o Data(f)
           frames == IF muxer.sound = "aac" THEN Append(muxer.frames.audio, f) ELSE muxer.frames.audio
<1>1. /\ muxer = [config |-> muxer.config, sound |-> muxer.sound, cells |-> muxer.cells,
                  video |-> muxer.video, audio |-> muxer.audio,
                  frames |-> [video |-> muxer.frames.video, audio |-> muxer.frames.audio]]
      /\ muxer.cells \in Seq(Cells) /\ muxer.video \in Seq(Samples) /\ muxer.audio \in Seq(Samples)
      /\ muxer.frames \in Footage
      /\ Covers(muxer.cells, Len(muxer.cells), muxer.video, muxer.frames.video)
      /\ Keyed(muxer.video, muxer.frames.video)
      /\ muxer.config \in Configs
  BY DEF MuxerOK
<1>2. m = [config |-> muxer.config, sound |-> muxer.sound, cells |-> more,
           video |-> muxer.video, audio |-> Append(muxer.audio, s),
           frames |-> [video |-> muxer.frames.video, audio |-> frames]]
  <2> DEFINE m0 == [muxer EXCEPT !.cells = more]
  <2>1. m0 = [config |-> muxer.config, sound |-> muxer.sound, cells |-> more,
              video |-> muxer.video, audio |-> muxer.audio,
              frames |-> [video |-> muxer.frames.video, audio |-> muxer.frames.audio]]
    <3> HIDE DEF more, frames, s, m
    <3>1. muxer = [config |-> muxer.config, sound |-> muxer.sound, cells |-> muxer.cells,
                   video |-> muxer.video, audio |-> muxer.audio,
                   frames |-> [video |-> muxer.frames.video, audio |-> muxer.frames.audio]]
      BY <1>1
    <3> QED
      BY <3>1
  <2>2. m = [m0 EXCEPT !.audio = Append(@, s), !.frames.audio = IF m0.sound = "aac" THEN Append(@, f) ELSE @]
    BY <1>1 DEF Written, Recorded
  <2> HIDE DEF m0, more, s, m
  <2> QED
    BY <2>1, <2>2
<1>3. muxer.frames.video \in Seq(Frames) /\ muxer.frames.audio \in Seq(Frames)
  BY <1>1 DEF Footage
<1>4. /\ f.size \in Nat /\ f.delta \in Nat /\ f.key \in BOOLEAN /\ Len(muxer.cells) + 2 \in Nat
  BY <1>1 DEF Frames
<1>5. /\ s \in Samples /\ s.size = f.size /\ s.delta = f.delta /\ s.offset = Len(muxer.cells) + 2
      /\ s.sync = f.key
  BY <1>4 DEF Samples
<1> HIDE DEF s, m
<1>6. /\ more \in Seq(Cells)
      /\ Covers(more, Len(more), muxer.video, muxer.frames.video)
  BY <1>1, <1>3, <1>5, CoversAppended
<1>7. /\ IF muxer.sound = "aac" THEN Covers(more, Len(more), Append(muxer.audio, s), frames)
                                ELSE frames = <<>>
      /\ frames \in Seq(Frames)
  <2>1. CASE muxer.sound = "aac"
    <3>1. Covers(muxer.cells, Len(muxer.cells), muxer.audio, muxer.frames.audio)
      BY <2>1 DEF MuxerOK
    <3>2. frames = Append(muxer.frames.audio, f)
      BY <2>1
    <3> HIDE DEF frames
    <3>3. Covers(more, Len(more), Append(muxer.audio, s), Append(muxer.frames.audio, f))
      BY <1>1, <1>3, <1>5, <3>1, CoversAppended
    <3> QED
      BY <1>3, <2>1, <3>2, <3>3
  <2>2. CASE muxer.sound # "aac"
    BY <1>3, <2>2 DEF MuxerOK
  <2> QED
    BY <2>1, <2>2
<1>9. Append(muxer.audio, s) \in Seq(Samples)
  BY <1>1, <1>5
<1> HIDE DEF more, frames
<1>10. /\ m.config = muxer.config /\ m.sound = muxer.sound /\ m.cells = more
       /\ m.video = muxer.video /\ m.audio = Append(muxer.audio, s)
       /\ m.frames.video = muxer.frames.video /\ m.frames.audio = frames
       /\ m.frames = [video |-> m.frames.video, audio |-> m.frames.audio]
       /\ m = [config |-> m.config, sound |-> m.sound, cells |-> m.cells, video |-> m.video,
               audio |-> m.audio, frames |-> [video |-> m.frames.video, audio |-> m.frames.audio]]
  BY <1>2
<1>11. m.frames \in Footage
  BY <1>3, <1>7, <1>10 DEF Footage
<1>12. MuxerOK(m)
  BY <1>1, <1>6, <1>7, <1>9, <1>10, <1>11 DEF MuxerOK
<1> QED
  BY <1>12 DEF m

\* What the muxer makes of a shape is a frame.
LEMMA FrameType ==
  ASSUME NEW shape \in Shapes \cup {SoundShape}, nextId \in 1..MaxFrames + 1, nextId <= MaxFrames
  PROVE  Frame(shape) \in Frames /\ Frame(shape).key = shape.key
<1>1. shape \in [key : BOOLEAN, size : Nat \ {0}, gap : Nat]
  BY Mp4Assumption
<1>2. nextId \in 1..MaxFrames
  BY Mp4Assumption
<1>3. (IF shape.gap = 0 THEN 1 ELSE shape.gap) \in Nat \ {0}
  BY <1>1
<1>4. shape.key \in BOOLEAN /\ shape.size \in Nat \ {0}
  BY <1>1
<1> QED
  BY <1>2, <1>3, <1>4 DEF Frame, Frames

\* The steps of the muxer.
LEMMA MuxerSteps ==
  ASSUME FileInv,
         \/ \E c \in Configs, s \in Sounds : OpenSegment(c, s)
         \/ WriteTimedSample \/ WriteAudioSample \/ WriteFails \/ Close \/ CloseRefused
  PROVE  MuxerInv' /\ CountInv'
<1>1. ASSUME NEW c \in Configs, NEW s \in Sounds, OpenSegment(c, s) PROVE MuxerInv' /\ CountInv'
  <2> DEFINE m == [config |-> c, sound |-> s, cells |-> <<>>, video |-> <<>>, audio |-> <<>>,
                   frames |-> [video |-> <<>>, audio |-> <<>>]]
  <2>1. muxer' = m /\ CountInv'
    BY <1>1 DEF OpenSegment, FileInv, CountInv
  <2>2. /\ m.config = c /\ m.sound = s /\ m.cells = <<>> /\ m.video = <<>> /\ m.audio = <<>>
        /\ m.frames.video = <<>> /\ m.frames.audio = <<>>
        /\ m.frames = [video |-> <<>>, audio |-> <<>>]
        /\ m = [config |-> m.config, sound |-> m.sound, cells |-> m.cells, video |-> m.video,
                audio |-> m.audio, frames |-> [video |-> m.frames.video, audio |-> m.frames.audio]]
    OBVIOUS
  <2>3. <<>> \in Seq(Cells) /\ <<>> \in Seq(Samples) /\ <<>> \in Seq(Frames) /\ Len(<<>>) = 0
    OBVIOUS
  <2>4. Covers(<<>>, 0, <<>>, <<>>) /\ Keyed(<<>>, <<>>)
    BY <2>3 DEF Covers, Keyed
  <2> HIDE DEF m
  <2>5. m.frames \in Footage
    BY <2>2, <2>3 DEF Footage
  <2>6. MuxerOK(m)
    BY <2>2, <2>3, <2>4, <2>5 DEF MuxerOK
  <2> QED
    BY <2>1, <2>6 DEF MuxerInv
<1>2. CASE WriteTimedSample
  <2>1. PICK shape \in Shapes : (muxer.video = <<>> => shape.key) /\ muxer' = Written("video", Frame(shape))
    BY <1>2 DEF WriteTimedSample
  <2>2. muxer # None /\ nextId <= MaxFrames /\ nextId' = nextId + 1 /\ UNCHANGED <<torn, crashes>>
    BY <1>2 DEF WriteTimedSample
  <2>3. MuxerOK(muxer) /\ CountInv
    BY <2>2 DEF FileInv, MuxerInv
  <2>4. Frame(shape) \in Frames /\ Frame(shape).key = shape.key
    BY <2>2, <2>3, FrameType DEF CountInv
  <2>5. MuxerOK(muxer')
    BY <2>1, <2>3, <2>4, VideoWritten
  <2>6. CountInv'
    BY <2>2, <2>3, Mp4Assumption DEF CountInv
  <2> QED
    BY <2>5, <2>6 DEF MuxerInv
<1>3. CASE WriteAudioSample
  <2>1. /\ muxer # None /\ nextId <= MaxFrames /\ nextId' = nextId + 1 /\ UNCHANGED <<torn, crashes>>
        /\ muxer' = Written("audio", Frame(SoundShape))
    BY <1>3 DEF WriteAudioSample
  <2>2. MuxerOK(muxer) /\ CountInv
    BY <2>1 DEF FileInv, MuxerInv
  <2>3. Frame(SoundShape) \in Frames
    BY <2>1, <2>2, FrameType DEF CountInv
  <2>4. MuxerOK(muxer')
    BY <2>1, <2>2, <2>3, AudioWritten
  <2>5. CountInv'
    BY <2>1, <2>2, Mp4Assumption DEF CountInv
  <2> QED
    BY <2>4, <2>5 DEF MuxerInv
<1>4. CASE WriteFails
  <2> DEFINE part == [id |-> 0, part |-> 1, key |-> FALSE]
             more == Append(muxer.cells, part)
             n    == Len(muxer.cells)
  <2>1. /\ muxer # None /\ torn < MaxTorn /\ torn' = torn + 1 /\ UNCHANGED <<nextId, crashes>>
        /\ muxer' = [muxer EXCEPT !.cells = more]
    BY <1>4 DEF WriteFails
  <2>2. MuxerOK(muxer) /\ CountInv
    BY <2>1 DEF FileInv, MuxerInv
  <2>3. CountInv'
    BY <2>1, <2>2, Mp4Assumption DEF CountInv
  <2>4. muxer.cells \in Seq(Cells) /\ part \in Cells /\ n \in Nat
    BY <2>2 DEF MuxerOK, Cells
  <2>5. more \in Seq(Cells) /\ Len(more) = n + 1 /\ \A p \in 1..n : more[p] = muxer.cells[p]
    <3> HIDE DEF part
    <3> QED
      BY <2>4
  <2>6. Len(more) \in Nat /\ n <= Len(more)
    BY <2>4, <2>5
  <2> HIDE DEF more, n
  <2>7. ASSUME NEW samples \in Seq(Samples), NEW frames \in Seq(Frames), Covers(muxer.cells, n, samples, frames)
        PROVE  Covers(more, Len(more), samples, frames)
    <3>1. \A i \in 1..Len(frames) : samples[i].offset \in Nat
      <4> TAKE i \in 1..Len(frames)
      <4>1. samples[i] \in Samples
        BY <2>7 DEF Covers
      <4> QED
        BY <4>1 DEF Samples
    <3> QED
      BY <2>4, <2>5, <2>6, <2>7, <3>1, CoversKept
  <2> DEFINE m == muxer'
  <2>8. /\ m = [config |-> muxer.config, sound |-> muxer.sound, cells |-> more,
                video |-> muxer.video, audio |-> muxer.audio,
                frames |-> [video |-> muxer.frames.video, audio |-> muxer.frames.audio]]
    BY <2>1, <2>2 DEF MuxerOK
  <2>9. /\ m.config = muxer.config /\ m.sound = muxer.sound /\ m.cells = more
        /\ m.video = muxer.video /\ m.audio = muxer.audio
        /\ m.frames.video = muxer.frames.video /\ m.frames.audio = muxer.frames.audio
        /\ m.frames = [video |-> muxer.frames.video, audio |-> muxer.frames.audio]
        /\ m = [config |-> m.config, sound |-> m.sound, cells |-> m.cells, video |-> m.video,
                audio |-> m.audio, frames |-> [video |-> m.frames.video, audio |-> m.frames.audio]]
    BY <2>8
  <2> HIDE DEF m
  <2>10. /\ muxer.config \in Configs /\ muxer.video \in Seq(Samples) /\ muxer.audio \in Seq(Samples)
         /\ muxer.frames \in Footage /\ Keyed(muxer.video, muxer.frames.video)
         /\ Covers(muxer.cells, n, muxer.video, muxer.frames.video)
         /\ muxer.sound = "aac" => Covers(muxer.cells, n, muxer.audio, muxer.frames.audio)
         /\ muxer.sound # "aac" => muxer.frames.audio = <<>>
    BY <2>2 DEF MuxerOK, n
  <2>11. muxer.frames.video \in Seq(Frames) /\ muxer.frames.audio \in Seq(Frames)
    BY <2>10 DEF Footage
  <2>12. /\ Covers(more, Len(more), muxer.video, muxer.frames.video)
         /\ muxer.sound = "aac" => Covers(more, Len(more), muxer.audio, muxer.frames.audio)
    BY <2>7, <2>10, <2>11
  <2>13. m.frames \in Footage
    BY <2>9, <2>11 DEF Footage
  <2>14. MuxerOK(m)
    BY <2>5, <2>9, <2>10, <2>12, <2>13 DEF MuxerOK
  <2> QED
    BY <2>3, <2>14 DEF MuxerInv, m
<1>5. CASE Close \/ CloseRefused
  BY <1>5 DEF Close, CloseRefused, MuxerInv, CountInv, FileInv
<1> QED
  BY <1>1, <1>2, <1>3, <1>4, <1>5

-----------------------------------------------------------------------------
(* Closing a segment *)

\* The sync samples a segment is closed with are its keyframes.
LEMMA SegmentSeekPoints ==
  ASSUME NEW samples \in Seq(Samples), NEW frames \in Seq(Frames), Len(samples) = Len(frames),
         Keyed(samples, frames), frames # <<>>
  PROVE  SeekPoints(SegmentTables(samples)) = {n \in DOMAIN frames : frames[n].key}
<1> DEFINE nums == {i \in DOMAIN samples : samples[i].sync}
           keys == {n \in DOMAIN frames : frames[n].key}
           t    == SegmentTables(samples)
<1>1. DOMAIN samples = 1..Len(frames) /\ DOMAIN frames = 1..Len(frames) /\ 1 \in DOMAIN frames
  <2>1. Len(frames) \in Nat /\ Len(frames) # 0
    OBVIOUS
  <2> QED
    BY <2>1
<1>2. \A i \in DOMAIN frames : samples[i].sync = frames[i].key
  BY <1>1 DEF Keyed
<1>3. nums = keys
  BY <1>1, <1>2
<1>4. frames[1].key
  BY DEF Keyed
<1>5. keys # {}
  BY <1>1, <1>4
<1>6. t.stss = IF nums = DOMAIN samples THEN {} ELSE nums
  BY DEF SegmentTables, Tables, SyncNumbers
<1>7. DOMAIN t.stsz = DOMAIN samples
  BY DEF SegmentTables, Tables, Sizes
<1> HIDE DEF nums, keys, t
<1>8. SeekPoints(t) = keys
  BY <1>3, <1>5, <1>6, <1>7 DEF SeekPoints
<1> QED
  BY <1>8 DEF keys, t

\* A segment that is closed reads back, and its player seeks to its keyframes.
LEMMA ClosedOK ==
  ASSUME NEW m, MuxerOK(m), m.video # <<>>
  PROVE  SegmentOK([file |-> Closed(m), info |-> Parse(Closed(m)), frames |-> m.frames])
<1> DEFINE moov  == SegmentMoov(m)
           file  == Closed(m)
           n     == Len(m.cells)
           cells == Append(m.cells, moov)
           video == SampleEntries(moov.video)
           audio == SampleEntries(moov.audio)
           info  == Info(moov, video, audio)
           p     == [file |-> file, info |-> Parse(file), frames |-> m.frames]
<1>1. /\ m.config \in Configs /\ m.cells \in Seq(Cells)
      /\ m.video \in Seq(Samples) /\ m.audio \in Seq(Samples) /\ m.frames \in Footage
      /\ Covers(m.cells, n, m.video, m.frames.video)
      /\ m.sound = "aac" => Covers(m.cells, n, m.audio, m.frames.audio)
      /\ m.sound # "aac" => m.frames.audio = <<>>
      /\ Keyed(m.video, m.frames.video)
  BY DEF MuxerOK
<1>2. m.frames.video \in Seq(Frames) /\ m.frames.audio \in Seq(Frames)
  BY <1>1 DEF Footage
<1>3. /\ moov.video = SegmentTables(m.video) /\ moov.audio = SegmentTables(m.audio)
      /\ moov.config = m.config /\ moov.sound = m.sound /\ IsMoov(moov)
  BY DEF SegmentMoov, IsMoov
<1>4. file = [size |-> n + 1, cells |-> cells]
  BY DEF Closed
<1> HIDE DEF moov, file
<1>5. /\ n \in Nat /\ DOMAIN cells = 1..n + 1 /\ cells[n + 1] = moov
      /\ \A i \in 1..n : cells[i] = m.cells[i]
  BY <1>1, AppendOne
<1> HIDE DEF cells, n
<1>6. file.size = n + 1 /\ file.cells = cells /\ file.size - 1 = n /\ Structured(file)
  BY <1>3, <1>4, <1>5 DEF Structured
<1>7. video = Forget(m.video) /\ audio = Forget(m.audio)
  BY <1>1, <1>3, SegmentTablesRead
<1>8. video \in Seq(Samples) /\ audio \in Seq(Samples) /\ Len(video) = Len(m.video)
  BY <1>1, <1>7, ForgetType
<1>9. video # None /\ audio # None /\ video # <<>>
  BY <1>1, <1>8, NoneAssumption
<1>10. /\ Covers(m.cells, n, video, m.frames.video)
       /\ m.sound = "aac" => Covers(m.cells, n, audio, m.frames.audio)
  BY <1>1, <1>7, CoversForget
<1> HIDE DEF video, audio
<1> DEFINE sound == IF m.sound = "aac" THEN audio ELSE <<>>
<1>11. info = [config |-> m.config, video |-> video, audio |-> sound]
  BY <1>3, <1>9 DEF Info
<1>12. sound \in Seq(Samples) /\ Covers(m.cells, n, sound, m.frames.audio)
  <2>1. CASE m.sound = "aac"
    BY <1>8, <1>10, <2>1
  <2>2. CASE m.sound # "aac"
    <3>1. sound = <<>>
      BY <2>2
    <3> HIDE DEF sound
    <3>2. m.frames.audio = <<>> /\ Len(<<>>) = 0 /\ <<>> \in Seq(Samples)
      BY <1>1, <2>2
    <3>3. Covers(m.cells, n, <<>>, <<>>)
      BY <3>2 DEF Covers
    <3> QED
      BY <3>1, <3>2, <3>3
  <2> QED
    BY <2>1, <2>2
<1> HIDE DEF info, sound
<1>13. info \in Infos /\ info.video = video /\ info.audio = sound
  BY <1>1, <1>8, <1>11, <1>12 DEF Infos
<1>14. Parse(file) = info
  BY <1>5, <1>6 DEF Parse, info, video, audio
<1>15. ASSUME NEW s \in Seq(Samples), NEW f \in Seq(Frames), Covers(m.cells, n, s, f)
       PROVE  Covers(cells, n, s, f)
  <2>1. \A i \in 1..Len(f) : s[i].offset \in Nat
    <3> TAKE i \in 1..Len(f)
    <3>1. s[i] \in Samples
      BY <1>15 DEF Covers
    <3> QED
      BY <3>1 DEF Samples
  <2>2. n <= n
    BY <1>5
  <2> QED
    BY <1>5, <1>15, <2>1, <2>2, CoversKept
<1>16. Covers(cells, n, video, m.frames.video) /\ Covers(cells, n, sound, m.frames.audio)
  BY <1>2, <1>8, <1>10, <1>12, <1>15
<1>17. Reads(file, info, m.frames)
  BY <1>1, <1>6, <1>9, <1>13, <1>16 DEF Reads
<1>18. SeekPoints(Moov(file).video) = {i \in DOMAIN m.frames.video : m.frames.video[i].key}
  <2>1. Moov(file) = moov
    BY <1>5, <1>6 DEF Moov
  <2>2. Len(m.video) = Len(m.frames.video)
    BY <1>1 DEF Covers
  <2>3. m.frames.video # <<>>
    BY <1>1, <1>2, <2>2
  <2> QED
    BY <1>1, <1>2, <1>3, <2>1, <2>2, <2>3, SegmentSeekPoints
<1>19. p.file = file /\ p.info = info /\ p.frames = m.frames /\ p = [file |-> p.file, info |-> p.info, frames |-> p.frames]
  BY <1>14
<1> HIDE DEF p
<1>20. SegmentOK(p)
  BY <1>17, <1>18, <1>19 DEF SegmentOK
<1> QED
  BY <1>20 DEF p, file

-----------------------------------------------------------------------------
(* The segments of a group *)

\* Only picks elements.
LEMMA OnlyType == ASSUME NEW S, NEW s \in Seq(S), NEW ids PROVE Only(s, ids) \in Seq(S)
<1> DEFINE ss == [i \in DOMAIN s |-> IF i \in ids THEN <<s[i]>> ELSE <<>>]
           n == Len(s)
<1>1. n \in Nat /\ DOMAIN s = 1..n /\ \A i \in 1..n : s[i] \in S
  OBVIOUS
<1>2. ss = [i \in 1..n |-> ss[i]]
  BY <1>1
<1>3. \A i \in 1..n : ss[i] \in Seq(S)
  <2> TAKE i \in 1..n
  <2>1. <<s[i]>> \in Seq(S) /\ <<>> \in Seq(S)
    BY <1>1
  <2> QED
    BY <1>1, <2>1
<1>4. Only(s, ids) = FlattenSeq(ss)
  BY DEF Only
<1> HIDE DEF ss, n
<1>5. ss \in Seq(Seq(S))
  BY <1>1, <1>2, <1>3, IsSequence
<1> QED
  BY <1>4, <1>5, FlattenType

\* A segment that can be merged: keyframes may have been marked in it.
SourceOK(p) == Reads(p.file, p.info, p.frames)

\* The frames of some segments are copied, those of one after those of the other.
LEMMA SourcesCopied ==
  ASSUME NEW S, NEW sources \in Seq(S), \A p \in S : SourceOK(p)
  PROVE  LET frames == Concat([i \in DOMAIN sources |-> sources[i].frames]) IN
         /\ CopiesOf(Copied(sources, "video"), frames.video)
         /\ CopiesOf(Copied(sources, "audio"), frames.audio)
         /\ sources # <<>> => Copied(sources, "video") # <<>>
         /\ frames \in Footage
         /\ frames = [video |-> frames.video, audio |-> frames.audio]
         /\ [i \in DOMAIN sources |-> sources[i].frames] \in Seq(Footage)
<1> DEFINE parts  == [i \in DOMAIN sources |-> sources[i].frames]
           frames == Concat(parts)
           n      == Len(sources)
           vs == FlattenSeq([i \in DOMAIN sources |-> sources[i].frames["video"]])
           as == FlattenSeq([i \in DOMAIN sources |-> sources[i].frames["audio"]])
<1>1. n \in Nat /\ DOMAIN sources = 1..n /\ \A i \in 1..n : sources[i] \in S
  OBVIOUS
<1>2. ASSUME NEW p \in S
      PROVE  /\ p.info["video"] \in Seq(Samples) /\ p.info["audio"] \in Seq(Samples)
             /\ p.frames["video"] \in Seq(Frames) /\ p.frames["audio"] \in Seq(Frames)
             /\ p.frames \in Footage
             /\ Covers(p.file.cells, p.file.size - 1, p.info["video"], p.frames["video"])
             /\ Covers(p.file.cells, p.file.size - 1, p.info["audio"], p.frames["audio"])
             /\ p.frames["video"] # <<>>
  <2>1. Reads(p.file, p.info, p.frames)
    BY DEF SourceOK
  <2>2. p.info \in Infos /\ p.frames \in Footage /\ p.info.video # <<>>
    BY <2>1 DEF Reads
  <2>3. /\ p.info.video \in Seq(Samples) /\ p.info.audio \in Seq(Samples)
        /\ p.frames.video \in Seq(Frames) /\ p.frames.audio \in Seq(Frames)
    BY <2>2 DEF Infos, Footage
  <2>4. /\ Covers(p.file.cells, p.file.size - 1, p.info.video, p.frames.video)
        /\ Covers(p.file.cells, p.file.size - 1, p.info.audio, p.frames.audio)
    BY <2>1 DEF Reads
  <2>5. Len(p.info.video) = Len(p.frames.video)
    BY <2>4 DEF Covers
  <2>6. p.frames.video # <<>>
    BY <2>2, <2>3, <2>5
  <2> QED
    BY <2>2, <2>3, <2>4, <2>6
<1>3. /\ CopiesOf(Copied(sources, "video"), vs)
      /\ \A i \in 1..n : sources[i].frames["video"] # <<>> => Copied(sources, "video") # <<>>
  BY <1>2, CopiedTrack
<1>4. CopiesOf(Copied(sources, "audio"), as)
  BY <1>2, CopiedTrack
<1>5. DOMAIN parts = DOMAIN sources /\ \A i \in DOMAIN sources : parts[i] = sources[i].frames
  OBVIOUS
<1>6. frames = [video |-> vs, audio |-> as]
  <2>1. [i \in DOMAIN parts |-> parts[i].video] = [i \in DOMAIN sources |-> sources[i].frames["video"]]
    BY <1>5
  <2>2. [i \in DOMAIN parts |-> parts[i].audio] = [i \in DOMAIN sources |-> sources[i].frames["audio"]]
    BY <1>5
  <2> QED
    BY <2>1, <2>2 DEF Concat
<1>7. parts \in Seq(Footage)
  <2>1. parts = [i \in 1..n |-> parts[i]] /\ \A i \in 1..n : parts[i] \in Footage
    BY <1>1, <1>2
  <2> HIDE DEF parts
  <2> QED
    BY <1>1, <2>1, IsSequence
<1> HIDE DEF frames, parts, vs, as
<1>8. frames.video = vs /\ frames.audio = as /\ frames = [video |-> frames.video, audio |-> frames.audio]
  BY <1>6
<1>9. frames \in Footage
  BY <1>3, <1>4, <1>6 DEF Footage, CopiesOf
<1>10. sources # <<>> => Copied(sources, "video") # <<>>
  <2>1. sources # <<>> => 1 \in 1..n
    BY <1>1
  <2> QED
    BY <1>1, <1>2, <1>3, <2>1
<1> QED
  BY <1>3, <1>4, <1>7, <1>8, <1>9, <1>10 DEF frames, parts

\* Looking for keyframes changes nothing but their marks.
LEMMA DetectKeepsSource ==
  ASSUME NEW p, SegmentOK(p)
  PROVE  SourceOK(DetectKeyframes(p)) /\ DetectKeyframes(p).frames = p.frames
<1> DEFINE First(sample) == p.file.cells[sample.offset - 1]
           marked == [i \in DOMAIN p.info.video |->
                         [p.info.video[i] EXCEPT !.sync = First(p.info.video[i]).key]]
           q == DetectKeyframes(p)
           samples == p.info.video
           frames  == p.frames.video
           n == Len(frames)
<1>1. /\ p = [file |-> p.file, info |-> p.info, frames |-> p.frames]
      /\ Structured(p.file) /\ p.info \in Infos /\ p.info.video # <<>> /\ p.frames \in Footage
      /\ Covers(p.file.cells, p.file.size - 1, p.info.video, p.frames.video)
      /\ Covers(p.file.cells, p.file.size - 1, p.info.audio, p.frames.audio)
  BY DEF SegmentOK, Reads
<1>2. p.info = [config |-> p.info.config, video |-> p.info.video, audio |-> p.info.audio]
  BY <1>1 DEF Infos
<1>3. q = [p EXCEPT !.info.video = marked]
  BY DEF DetectKeyframes
<1>4. samples \in Seq(Samples) /\ frames \in Seq(Frames) /\ p.info.config \in Configs /\ p.info.audio \in Seq(Samples)
  BY <1>1 DEF Infos, Footage
<1>5. Len(samples) = n /\ DOMAIN samples = 1..n /\ n \in Nat
  BY <1>1, <1>4 DEF Covers
<1>6. ASSUME NEW i \in 1..n
      PROVE  /\ marked[i] \in Samples /\ marked[i].offset = samples[i].offset
             /\ marked[i].size = samples[i].size /\ marked[i].delta = samples[i].delta
  <2>1. samples[i] \in Samples /\ frames[i] \in Frames
    BY <1>4, <1>5
  <2>2. samples[i] = [offset |-> samples[i].offset, size |-> samples[i].size,
                      delta |-> samples[i].delta, sync |-> samples[i].sync]
    BY <2>1 DEF Samples
  <2>3. frames[i].size \in Nat \ {0} /\ frames[i].key \in BOOLEAN
    BY <2>1 DEF Frames
  <2>4. p.file.cells[samples[i].offset - 2 + 1] = Data(frames[i])[1]
    <3>1. 1 \in 1..frames[i].size
      BY <2>3
    <3> QED
      BY <1>1, <3>1 DEF Covers
  <2>5. Data(frames[i])[1] = [id |-> frames[i].id, part |-> 1, key |-> frames[i].key]
    BY <2>3 DEF Data
  <2>6. samples[i].offset - 2 + 1 = samples[i].offset - 1
    <3>1. samples[i].offset \in Nat
      BY <2>1 DEF Samples
    <3> QED
      BY <3>1
  <2>7. First(samples[i]).key = frames[i].key
    BY <2>4, <2>5, <2>6
  <2>8. marked[i] = [samples[i] EXCEPT !.sync = frames[i].key]
    BY <1>5, <2>7
  <2> HIDE DEF marked, samples, frames
  <2>9. marked[i] = [offset |-> samples[i].offset, size |-> samples[i].size,
                     delta |-> samples[i].delta, sync |-> frames[i].key]
    BY <2>2, <2>8
  <2>10. samples[i].offset \in Nat /\ samples[i].size \in Nat /\ samples[i].delta \in Nat
    BY <2>1 DEF Samples
  <2> QED
    BY <2>3, <2>9, <2>10 DEF Samples
<1>7. marked = [i \in 1..n |-> marked[i]]
  BY <1>5
<1> HIDE DEF q, marked, n, First
<1>8. marked \in Seq(Samples) /\ Len(marked) = n
  BY <1>5, <1>6, <1>7, IsSequence
<1>9. marked # <<>>
  <2>1. n # 0
    BY <1>1, <1>4, <1>5
  <2> QED
    BY <1>8, <2>1
<1>10. q = [file |-> p.file, info |-> [config |-> p.info.config, video |-> marked, audio |-> p.info.audio],
            frames |-> p.frames]
  BY <1>1, <1>2, <1>3
<1>11. q.file = p.file /\ q.frames = p.frames /\ q.info \in Infos /\ q.info.video = marked /\ q.info.audio = p.info.audio
  BY <1>4, <1>8, <1>10 DEF Infos
<1>12. Covers(p.file.cells, p.file.size - 1, marked, frames)
  BY <1>1, <1>5, <1>6, <1>8 DEF Covers, n, samples, frames
<1>13. SourceOK(q)
  BY <1>1, <1>9, <1>11, <1>12 DEF SourceOK, Reads
<1> QED
  BY <1>11, <1>13 DEF q

-----------------------------------------------------------------------------
(* The merges *)

\* A closed segment can be merged.
LEMMA SegmentsAreSources == ASSUME NEW p, SegmentOK(p) PROVE SourceOK(p)
  BY DEF SegmentOK, SourceOK

\* The segments of a group and all others are good segments, too.
LEMMA PendingParts ==
  ASSUME PendingInv, NEW key
  PROVE  \E S : /\ Sources(key) \in Seq(S) /\ Others(key) \in Seq(S)
                /\ \A p \in S : SegmentOK(p) /\ SourceOK(p)
<1>1. PICK S : pending \in Seq(S) /\ \A p \in S : SegmentOK(p)
  BY DEF PendingInv
<1>2. Only(pending, OfKey(key)) \in Seq(S) /\ Only(pending, DOMAIN pending \ OfKey(key)) \in Seq(S)
  BY <1>1, OnlyType
<1>3. Sources(key) \in Seq(S) /\ Others(key) \in Seq(S)
  BY <1>2 DEF Sources, Others
<1>4. \A p \in S : SegmentOK(p) /\ SourceOK(p)
  BY <1>1, SegmentsAreSources
<1> QED
  BY <1>3, <1>4

\* The segments that are left are good ones.
LEMMA OthersOK == ASSUME PendingInv, NEW key, pending' = Others(key) PROVE PendingInv'
<1>1. PICK S : Others(key) \in Seq(S) /\ \A p \in S : SegmentOK(p)
  BY PendingParts
<1> QED
  BY <1>1 DEF PendingInv

\* A closed segment joins those that wait.
LEMMA CloseKeepsPending == ASSUME FileInv, Close PROVE PendingInv'
<1> DEFINE p == [file |-> Closed(muxer), info |-> Parse(Closed(muxer)), frames |-> muxer.frames]
<1>1. muxer # None /\ muxer.video # <<>> /\ pending' = Append(pending, p)
  BY DEF Close
<1>2. MuxerOK(muxer)
  BY <1>1 DEF FileInv, MuxerInv
<1>3. SegmentOK(p)
  BY <1>1, <1>2, ClosedOK
<1> HIDE DEF p
<1>4. PICK S : pending \in Seq(S) /\ \A q \in S : SegmentOK(q)
  BY DEF FileInv, PendingInv
<1>5. Append(pending, p) \in Seq(S \cup {p})
  <2>1. pending \in Seq(S \cup {p}) /\ p \in S \cup {p}
    BY <1>4
  <2> QED
    BY <2>1
<1>6. \A q \in S \cup {p} : SegmentOK(q)
  BY <1>3, <1>4
<1> QED
  BY <1>1, <1>5, <1>6 DEF PendingInv

\* A merge makes an hour file that shows the frames of its sources.
LEMMA GroupMerged ==
  ASSUME FileInv, NEW key \in Keys, NEW S, NEW sources \in Seq(S), \A p \in S : SourceOK(p),
         MergeGroup(key, sources)
  PROVE  MuxerInv' /\ PendingInv' /\ HourInv' /\ JobInv' /\ CountInv'
<1> DEFINE file   == MergeMP4Segments(key, sources)
           frames == Concat([i \in DOMAIN sources |-> sources[i].frames])
           V == Copied(sources, "video")
           A == Copied(sources, "audio")
           h == [file |-> file, frames |-> frames]
<1>1. /\ Idle /\ Len(sources) >= 2 /\ file # None
      /\ hour' = [k \in DOMAIN hour \cup {key} |-> IF k # key THEN hour[k] ELSE h]
      /\ pending' = Others(key) /\ UNCHANGED <<muxer, job, nextId, torn, crashes>>
  BY DEF MergeGroup
<1>2. /\ CopiesOf(V, frames.video) /\ CopiesOf(A, frames.audio)
      /\ sources # <<>> => V # <<>>
      /\ frames \in Footage /\ frames = [video |-> frames.video, audio |-> frames.audio]
  BY SourcesCopied
<1>3. sources # <<>>
  BY <1>1
<1>4. file = Merged(key, V, A)
  BY DEF MergeMP4Segments
<1> HIDE DEF file, frames, V, A
<1>5. /\ 1 + SizeOf(frames.video) + SizeOf(frames.audio) < Limit => Structured(file)
      /\ Structured(file) => Reads(file, Parse(file), [video |-> frames.video, audio |-> frames.audio])
  <2>1. /\ CopiesOf(V, frames.video) /\ CopiesOf(A, frames.audio) /\ V # <<>>
        /\ Merged(key, V, A) # None
    BY <1>1, <1>2, <1>3, <1>4
  <2>2. LET merged == Merged(key, V, A) IN
        /\ 1 + SizeOf(frames.video) + SizeOf(frames.audio) < Limit => Structured(merged)
        /\ Structured(merged) => Reads(merged, Parse(merged), [video |-> frames.video, audio |-> frames.audio])
    BY <2>1, MergedReads
  <2> QED
    BY <1>4, <2>2
<1>6. h.file = file /\ h.frames = frames
  OBVIOUS
<1> HIDE DEF h
<1>7. HourOK(h) /\ h.frames \in Footage
  BY <1>2, <1>5, <1>6 DEF HourOK
<1>8. HourInv /\ PendingInv /\ MuxerInv /\ CountInv
  BY DEF FileInv, AppendInv, HourShape
<1>9. HourInv'
  <2>1. /\ DOMAIN hour' = DOMAIN hour \cup {key} /\ hour'[key] = h
        /\ \A k \in DOMAIN hour : k # key => hour'[k] = hour[k]
    BY <1>1
  <2>2. Idle /\ Idle'
    BY <1>1 DEF Idle
  <2>3. ASSUME NEW k \in DOMAIN hour' PROVE hour'[k].frames \in Footage /\ HourOK(hour'[k])
    <3>1. CASE k = key
      BY <1>7, <2>1, <3>1
    <3>2. CASE k # key
      BY <1>8, <2>1, <2>2, <2>3, <3>2 DEF HourInv
    <3> QED
      BY <3>1, <3>2
  <2> QED
    BY <2>3 DEF HourInv
<1>10. JobInv'
  BY <1>1 DEF JobInv, JobBase, JobWritten, Idle
<1>11. PendingInv'
  BY <1>1, <1>8, OthersOK
<1> QED
  BY <1>1, <1>8, <1>9, <1>10, <1>11 DEF MuxerInv, CountInv

\* Both merges: what the periodic one marks as keyframes can be merged, too.
LEMMA MergeSteps ==
  ASSUME FileInv, NEW key \in Keys, MergeHour(key) \/ MergePeriodically(key)
  PROVE  MuxerInv' /\ PendingInv' /\ HourInv' /\ JobInv' /\ CountInv'
<1>1. PICK S : Sources(key) \in Seq(S) /\ \A p \in S : SegmentOK(p) /\ SourceOK(p)
  BY PendingParts DEF FileInv
<1>2. CASE MergeHour(key)
  BY <1>1, <1>2, GroupMerged DEF MergeHour
<1>3. CASE MergePeriodically(key)
  <2> DEFINE sources == Sources(key)
             marked  == [i \in DOMAIN sources |-> DetectKeyframes(sources[i])]
             M       == {DetectKeyframes(p) : p \in S}
             n       == Len(sources)
  <2>1. n \in Nat /\ DOMAIN sources = 1..n /\ \A i \in 1..n : sources[i] \in S
    BY <1>1
  <2>2. marked = [i \in 1..n |-> marked[i]] /\ \A i \in 1..n : marked[i] \in M
    BY <2>1
  <2>3. \A q \in M : SourceOK(q)
    BY <1>1, DetectKeepsSource
  <2>4. MergeGroup(key, marked)
    BY <1>3 DEF MergePeriodically
  <2> HIDE DEF marked, M, n
  <2>5. marked \in Seq(M)
    BY <2>1, <2>2, IsSequence
  <2> QED
    BY <2>3, <2>4, <2>5, GroupMerged
<1> QED
  BY <1>2, <1>3

-----------------------------------------------------------------------------
(* An append *)

\* The new samples are cells, whose number is that of the frames' units.
LEMMA ExtensionType ==
  ASSUME PendingInv, NEW key, NEW base
  PROVE  Extension(key, base).bytes \in Seq(Cells) /\ Len(Extension(key, base).bytes) \in Nat
<1> DEFINE V == Copied(Sources(key), "video")
           A == Copied(Sources(key), "audio")
           e == ExtensionOf(key, Parse(base), V, A, base.size + 1)
<1>1. PICK S : Sources(key) \in Seq(S) /\ \A p \in S : SourceOK(p)
  BY PendingParts
<1>2. \E fv, fa : CopiesOf(V, fv) /\ CopiesOf(A, fa)
  BY <1>1, SourcesCopied
<1>3. Payload(V) \in Seq(Cells) /\ Payload(A) \in Seq(Cells)
  BY <1>2, PayloadType
<1>4. Extension(key, base) = e
  BY DEF Extension
<1>5. e.bytes = Payload(V) \o Payload(A)
  BY DEF ExtensionOf
<1> HIDE DEF V, A, e
<1> QED
  BY <1>3, <1>4, <1>5

\* An append begins with a base that can be read.
LEMMA BeginSteps ==
  ASSUME FileInv, NEW key \in Keys, BeginAppend(key)
  PROVE  MuxerInv' /\ PendingInv' /\ HourInv' /\ JobInv' /\ CountInv'
<1> DEFINE base == hour[key].file
<1>1. job' = [key |-> key, base |-> base, extension |-> Extension(key, base), copied |-> 0,
              step |-> "copy"]
  BY DEF BeginAppend
<1>2. /\ job'.key = key /\ job'.base = base /\ job'.extension = Extension(key, base)
      /\ job'.copied = 0 /\ job'.step = "copy" /\ ~Idle'
  BY <1>1 DEF Idle
<1>3. /\ Idle /\ key \in DOMAIN hour /\ Structured(base)
      /\ UNCHANGED <<muxer, pending, hour, nextId, torn, crashes>>
  BY DEF BeginAppend
<1>4. MuxerInv /\ PendingInv /\ HourInv /\ CountInv
  BY DEF FileInv
<1>5. hour[key].frames \in Footage /\ HourOK(hour[key])
  BY <1>3, <1>4 DEF HourInv
<1>6. Reads(base, Parse(base), hour[key].frames)
  BY <1>3, <1>5 DEF HourOK
<1>7. Len(Extension(key, base).bytes) \in Nat
  BY <1>4, ExtensionType
<1> HIDE DEF base
<1>8. job'.copied \in 0..Len(job'.extension.bytes)
  BY <1>2, <1>7
<1>9. JobBase'
  <2>1. (job.extension = Extension(job.key, job.base))'
    BY <1>2, <1>3 DEF Extension, Sources, OfKey
  <2> QED
    BY <1>2, <1>3, <1>6, <1>8, <2>1 DEF JobBase
<1>10. JobWritten'
  BY <1>2 DEF JobWritten
<1>11. HourInv'
  BY <1>3, <1>4 DEF HourInv, HourOK
<1> QED
  BY <1>3, <1>4, <1>9, <1>10, <1>11 DEF MuxerInv, PendingInv, CountInv, JobInv

\* A step of an append changes neither what it extends nor what it extends it with.
LEMMA PutSteps ==
  ASSUME FileInv, ~Idle, NEW size, NEW cells, Put(size, cells), NEW copied, NEW step,
         job' = [key |-> job.key, base |-> job.base, extension |-> job.extension,
                 copied |-> copied, step |-> step],
         step # "idle", copied \in 0..Len(job.extension.bytes),
         UNCHANGED <<muxer, pending, nextId, torn, crashes>>
  PROVE  /\ MuxerInv' /\ PendingInv' /\ HourInv' /\ JobBase' /\ CountInv'
         /\ hour'[job'.key].file = [size |-> size, cells |-> cells]
<1>1. /\ job'.key = job.key /\ job'.base = job.base /\ job'.extension = job.extension
      /\ job'.copied = copied /\ job'.step = step /\ ~Idle'
  BY DEF Idle
<1>2. MuxerInv /\ PendingInv /\ HourInv /\ CountInv /\ JobBase /\ AppendInv
  BY DEF FileInv, JobInv
<1>3. job.key \in DOMAIN hour
  BY <1>2 DEF AppendInv, JobShape
<1>4. DOMAIN hour' = DOMAIN hour /\ hour'[job.key] = [file |-> [size |-> size, cells |-> cells], frames |-> hour[job.key].frames]
  BY <1>2, PutShape
<1>5. hour'[job.key].frames = hour[job.key].frames /\ hour'[job.key].file = [size |-> size, cells |-> cells]
  BY <1>4
<1>6. \A k \in DOMAIN hour : k # job.key => hour'[k] = hour[k]
  BY <1>2 DEF AppendInv, HourShape, Put
<1>7. hour[job.key].frames \in Footage
  BY <1>2, <1>3 DEF HourInv
<1>8. HourInv'
  <2>1. ASSUME NEW k \in DOMAIN hour'
        PROVE  hour'[k].frames \in Footage /\ (job'.key # k => HourOK(hour'[k]))
    <3>1. CASE k = job.key
      BY <1>1, <1>5, <1>7, <3>1
    <3>2. CASE k # job.key
      BY <1>1, <1>2, <1>4, <1>6, <2>1, <3>2 DEF HourInv
    <3> QED
      BY <3>1, <3>2
  <2> QED
    BY <1>1, <2>1 DEF HourInv, HourOK
<1>9. JobBase'
  <2>1. (job.extension = Extension(job.key, job.base))'
    <3>1. job.extension = Extension(job.key, job.base)
      BY <1>2 DEF JobBase
    <3> QED
      BY <1>1, <3>1 DEF Extension, Sources, OfKey
  <2>2. Reads(job.base, Parse(job.base), hour[job.key].frames)
    BY <1>2 DEF JobBase
  <2> QED
    BY <1>1, <1>2, <1>5, <2>1, <2>2 DEF JobBase
<1> QED
  BY <1>1, <1>2, <1>5, <1>8, <1>9 DEF MuxerInv, PendingInv, CountInv

\* What a step of an append needs to know.
LEMMA JobFacts ==
  ASSUME FileInv, ~Idle
  PROVE  /\ job = [key |-> job.key, base |-> job.base, extension |-> job.extension,
                   copied |-> job.copied, step |-> job.step]
         /\ job.key \in DOMAIN hour /\ Structured(job.base) /\ job.base.size \in Nat \ {0}
         /\ Len(job.extension.bytes) \in Nat
         /\ job.copied \in 0..Len(job.extension.bytes) /\ job.copied \in Nat
         /\ job.extension = Extension(job.key, job.base)
         /\ Reads(job.base, Parse(job.base), hour[job.key].frames)
         /\ KeepsBase(hour[job.key].file.cells, job.base)
<1>1. AppendInv /\ JobBase /\ PendingInv
  BY DEF FileInv, JobInv
<1>2. JobShape /\ KeepsBase(hour[job.key].file.cells, job.base)
  BY <1>1 DEF AppendInv
<1>3. Structured(job.base) /\ job.base.size \in Nat \ {0}
  BY <1>2 DEF JobShape, Structured
<1>4. job.extension = Extension(job.key, job.base)
  BY <1>1 DEF JobBase
<1>5. Len(job.extension.bytes) \in Nat
  BY <1>1, <1>4, ExtensionType
<1> QED
  BY <1>1, <1>2, <1>3, <1>4, <1>5 DEF JobShape, JobBase

\* A sample is written behind those before it.
LEMMA CopySteps ==
  ASSUME FileInv, CopySample
  PROVE  MuxerInv' /\ PendingInv' /\ HourInv' /\ JobInv' /\ CountInv'
<1> DEFINE bytes == job.extension.bytes
           at    == job.base.size + job.copied
           cells == WriteAt(Grown.cells, at, bytes[job.copied + 1])
<1>1. /\ ~Idle /\ job.step = "copy" /\ job.copied < Len(bytes) /\ Put(Grown.size, cells)
      /\ job' = [job EXCEPT !.copied = @ + 1]
      /\ UNCHANGED <<muxer, pending, nextId, torn, crashes>>
  BY DEF CopySample, At, Idle
<1>2. /\ job = [key |-> job.key, base |-> job.base, extension |-> job.extension,
                copied |-> job.copied, step |-> job.step]
      /\ job.base.size \in Nat \ {0} /\ Len(bytes) \in Nat /\ job.copied \in Nat
  BY <1>1, JobFacts
<1>3. job' = [key |-> job.key, base |-> job.base, extension |-> job.extension,
              copied |-> job.copied + 1, step |-> "copy"]
  BY <1>1, <1>2
<1>4. job.copied + 1 \in 0..Len(bytes) /\ "copy" # "idle"
  BY <1>1, <1>2
<1> HIDE DEF cells
<1>5. /\ MuxerInv' /\ PendingInv' /\ HourInv' /\ JobBase' /\ CountInv'
      /\ hour'[job'.key].file = [size |-> Grown.size, cells |-> cells]
  BY <1>1, <1>3, <1>4, PutSteps
<1>6. ASSUME NEW j \in 1..job.copied + 1
      PROVE  job.base.size - 1 + j \in DOMAIN cells /\ cells[job.base.size - 1 + j] = bytes[j]
  <2>1. at \in DOMAIN cells /\ cells[at] = bytes[job.copied + 1]
    BY DEF cells, WriteAt
  <2>2. CASE j = job.copied + 1
    <3>1. job.base.size - 1 + j = at
      BY <1>2, <2>2
    <3> QED
      BY <2>1, <2>2, <3>1
  <2>3. CASE j # job.copied + 1
    <3>1. j \in 1..job.copied /\ job.base.size - 1 + j # at
      BY <1>2, <2>3
    <3>2. /\ job.base.size - 1 + j \in DOMAIN Grown.cells
          /\ Grown.cells[job.base.size - 1 + j] = bytes[j]
      BY <1>1, <3>1 DEF FileInv, JobInv, JobWritten, Grown
    <3> QED
      BY <3>1, <3>2 DEF cells, WriteAt
  <2> QED
    BY <2>2, <2>3
<1>7. /\ job'.step = "copy" /\ job'.base = job.base /\ job'.extension = job.extension
      /\ job'.copied = job.copied + 1 /\ hour'[job'.key].file.cells = cells
  BY <1>3, <1>5
<1>8. JobWritten'
  BY <1>6, <1>7 DEF JobWritten
<1> QED
  BY <1>5, <1>8 DEF JobInv

\* The moov is written behind the samples.
LEMMA MoovSteps ==
  ASSUME FileInv, WriteMoov
  PROVE  MuxerInv' /\ PendingInv' /\ HourInv' /\ JobInv' /\ CountInv'
<1> DEFINE bytes == job.extension.bytes
           at    == job.base.size + job.copied
           cells == WriteAt(Grown.cells, at, job.extension.moov)
<1>1. /\ ~Idle /\ job.step = "copy" /\ job.copied = Len(bytes) /\ Put(Grown.size, cells)
      /\ job' = [job EXCEPT !.step = "patch"]
      /\ UNCHANGED <<muxer, pending, nextId, torn, crashes>>
  BY DEF WriteMoov, At, Idle
<1>2. /\ job = [key |-> job.key, base |-> job.base, extension |-> job.extension,
                copied |-> job.copied, step |-> job.step]
      /\ job.base.size \in Nat \ {0} /\ job.copied \in Nat /\ job.copied \in 0..Len(bytes)
  BY <1>1, JobFacts
<1>3. job' = [key |-> job.key, base |-> job.base, extension |-> job.extension,
              copied |-> job.copied, step |-> "patch"]
  BY <1>1, <1>2
<1> HIDE DEF cells
<1>4. /\ MuxerInv' /\ PendingInv' /\ HourInv' /\ JobBase' /\ CountInv'
      /\ hour'[job'.key].file = [size |-> Grown.size, cells |-> cells]
  BY <1>1, <1>2, <1>3, PutSteps
<1>5. ASSUME NEW j \in 1..job.copied
      PROVE  job.base.size - 1 + j \in DOMAIN cells /\ cells[job.base.size - 1 + j] = bytes[j]
  <2>1. job.base.size - 1 + j # at
    BY <1>2
  <2>2. /\ job.base.size - 1 + j \in DOMAIN Grown.cells
        /\ Grown.cells[job.base.size - 1 + j] = bytes[j]
    BY <1>1 DEF FileInv, JobInv, JobWritten, Grown
  <2> QED
    BY <2>1, <2>2 DEF cells, WriteAt
<1>6. cells[at] = job.extension.moov
  BY WriteFinds DEF cells
<1>7. /\ job'.step = "patch" /\ job'.base = job.base /\ job'.extension = job.extension
      /\ job'.copied = job.copied /\ hour'[job'.key].file.cells = cells
  BY <1>3, <1>4
<1>8. JobWritten'
  BY <1>1, <1>5, <1>6, <1>7 DEF JobWritten
<1> QED
  BY <1>4, <1>8 DEF JobInv

\* The file is cut behind its moov.
LEMMA PatchSteps ==
  ASSUME FileInv, PatchSize
  PROVE  MuxerInv' /\ PendingInv' /\ HourInv' /\ JobInv' /\ CountInv'
<1> DEFINE bytes == job.extension.bytes
           size  == job.base.size + job.copied
           cells == Truncate(Grown.cells, size)
<1>1. /\ ~Idle /\ job.step = "patch" /\ Put(size, cells)
      /\ job' = [job EXCEPT !.step = "commit"]
      /\ UNCHANGED <<muxer, pending, nextId, torn, crashes>>
  BY DEF PatchSize, At, Idle
<1>2. /\ job = [key |-> job.key, base |-> job.base, extension |-> job.extension,
                copied |-> job.copied, step |-> job.step]
      /\ job.base.size \in Nat \ {0} /\ job.copied \in Nat /\ job.copied \in 0..Len(bytes)
  BY <1>1, JobFacts
<1>3. job' = [key |-> job.key, base |-> job.base, extension |-> job.extension,
              copied |-> job.copied, step |-> "commit"]
  BY <1>1, <1>2
<1>4. /\ \A j \in 1..job.copied : Grown.cells[job.base.size - 1 + j] = bytes[j]
      /\ job.copied = Len(bytes) /\ Grown.cells[size] = job.extension.moov
  BY <1>1 DEF FileInv, JobInv, JobWritten, Grown
<1>5. DOMAIN cells = 1..size /\ \A i \in 1..size : cells[i] = Grown.cells[i]
  BY DEF Truncate
<1>6. /\ size \in 1..size
      /\ \A j \in 1..job.copied : job.base.size - 1 + j \in 1..size
  BY <1>2
<1> HIDE DEF cells
<1>7. \A j \in 1..job.copied :
         job.base.size - 1 + j \in DOMAIN cells /\ cells[job.base.size - 1 + j] = bytes[j]
  BY <1>4, <1>5, <1>6
<1>8. cells[size] = job.extension.moov
  BY <1>4, <1>5, <1>6
<1>9. /\ MuxerInv' /\ PendingInv' /\ HourInv' /\ JobBase' /\ CountInv'
      /\ hour'[job'.key].file = [size |-> size, cells |-> cells]
  BY <1>1, <1>2, <1>3, PutSteps
<1>10. /\ job'.step = "commit" /\ job'.base = job.base /\ job'.extension = job.extension
       /\ job'.copied = job.copied /\ hour'[job'.key].file.cells = cells
       /\ hour'[job'.key].file.size = size
  BY <1>3, <1>9
<1>11. JobWritten'
  BY <1>4, <1>7, <1>8, <1>10 DEF JobWritten
<1> QED
  BY <1>9, <1>11 DEF JobInv

\* While a file is being restored, nothing new is claimed of it.
LEMMA RestoreMoovSteps ==
  ASSUME FileInv, RestoreMoov
  PROVE  MuxerInv' /\ PendingInv' /\ HourInv' /\ JobInv' /\ CountInv'
<1> DEFINE cells == WriteAt(Truncate(Grown.cells, job.base.size - 1), job.base.size,
                            job.base.cells[job.base.size])
<1>1. /\ ~Idle /\ Put(Grown.size, cells) /\ job' = [job EXCEPT !.step = "resize"]
      /\ UNCHANGED <<muxer, pending, nextId, torn, crashes>>
  BY DEF RestoreMoov, At, Idle
<1>2. /\ job = [key |-> job.key, base |-> job.base, extension |-> job.extension,
                copied |-> job.copied, step |-> job.step]
      /\ job.copied \in 0..Len(job.extension.bytes)
  BY <1>1, JobFacts
<1>3. job' = [key |-> job.key, base |-> job.base, extension |-> job.extension,
              copied |-> job.copied, step |-> "resize"]
  BY <1>1, <1>2
<1> HIDE DEF cells
<1>4. MuxerInv' /\ PendingInv' /\ HourInv' /\ JobBase' /\ CountInv'
  BY <1>1, <1>2, <1>3, PutSteps
<1>5. JobWritten'
  BY <1>3 DEF JobWritten
<1> QED
  BY <1>4, <1>5 DEF JobInv

\* An interruption leaves the file as it is, to be restored.
LEMMA InterruptSteps ==
  ASSUME FileInv, Interrupt
  PROVE  MuxerInv' /\ PendingInv' /\ HourInv' /\ JobInv' /\ CountInv'
<1>1. /\ ~Idle /\ job' = [job EXCEPT !.step = "undo"]
      /\ crashes < MaxCrashes /\ crashes' = crashes + 1
      /\ UNCHANGED <<muxer, pending, hour, nextId, torn>>
  BY DEF Interrupt
<1>2. job = [key |-> job.key, base |-> job.base, extension |-> job.extension,
             copied |-> job.copied, step |-> job.step]
  BY <1>1, JobFacts
<1>3. job' = [key |-> job.key, base |-> job.base, extension |-> job.extension,
              copied |-> job.copied, step |-> "undo"]
  BY <1>1, <1>2
<1>4. /\ job'.step = "undo" /\ job'.base = job.base /\ job'.extension = job.extension
      /\ job'.copied = job.copied /\ job'.key = job.key /\ ~Idle'
  BY <1>3 DEF Idle
<1>5. MuxerInv /\ PendingInv /\ HourInv /\ JobBase /\ CountInv
  BY DEF FileInv, JobInv
<1>6. MuxerInv' /\ PendingInv'
  BY <1>1, <1>5 DEF MuxerInv, PendingInv
<1>7. CountInv'
  BY <1>1, <1>5, Mp4Assumption DEF CountInv
<1>8. HourInv'
  BY <1>1, <1>4, <1>5 DEF HourInv, HourOK
<1>9. JobWritten'
  BY <1>4 DEF JobWritten
<1>10. JobBase'
  <2>1. (job.extension = Extension(job.key, job.base))'
    <3>1. job.extension = Extension(job.key, job.base)
      BY <1>1, <1>5 DEF JobBase
    <3> QED
      BY <1>1, <1>4, <3>1 DEF Extension, Sources, OfKey
  <2> QED
    BY <1>1, <1>4, <1>5, <2>1 DEF JobBase
<1> QED
  BY <1>6, <1>7, <1>8, <1>9, <1>10 DEF JobInv

\* A commit makes the extended file show the frames of the segments it absorbed, too.
LEMMA CommitSteps ==
  ASSUME FileInv, Commit
  PROVE  MuxerInv' /\ PendingInv' /\ HourInv' /\ JobInv' /\ CountInv'
<1> DEFINE key     == job.key
           base    == job.base
           sources == Sources(key)
           parts   == [i \in DOMAIN sources |-> sources[i].frames]
           more    == Concat(parts)
           V       == Copied(sources, "video")
           A       == Copied(sources, "audio")
           e       == ExtensionOf(key, Parse(base), V, A, base.size + 1)
           frames  == hour[key].frames
           file    == hour[key].file
           h       == [file |-> file, frames |-> Concat(<<frames>> \o parts)]
<1>1. /\ ~Idle /\ job.step = "commit" /\ pending' = Others(key) /\ job' = NoJob
      /\ hour' = [hour EXCEPT ![key].frames = Concat(<<@>> \o parts)]
      /\ UNCHANGED <<muxer, nextId, torn, crashes>>
  BY DEF Commit, At, Idle
<1>2. /\ key \in DOMAIN hour /\ base.size \in Nat \ {0}
      /\ job.extension = Extension(key, base)
      /\ Reads(base, Parse(base), frames)
      /\ KeepsBase(file.cells, base)
  BY <1>1, JobFacts
<1>3. Extension(key, base) = e
  BY DEF Extension
<1>4. /\ HourShape /\ Structured(file)
      /\ HourInv /\ PendingInv /\ MuxerInv /\ CountInv /\ JobWritten
  BY <1>1 DEF FileInv, JobInv, AppendInv, StepInv
<1>5. key \in Keys /\ frames \in Footage
  BY <1>2, <1>4 DEF HourShape, HourInv
<1>6. PICK S : sources \in Seq(S) /\ \A p \in S : SourceOK(p)
  BY <1>4, PendingParts
<1>7. /\ CopiesOf(V, more.video) /\ CopiesOf(A, more.audio)
      /\ more \in Footage /\ parts \in Seq(Footage)
  BY <1>6, SourcesCopied
<1>8. Concat(<<frames>> \o parts)
        = [video |-> frames.video \o more.video, audio |-> frames.audio \o more.audio]
  BY <1>5, <1>7, ConcatFirst
<1>9. Concat(<<frames>> \o parts) \in Footage
  <2>1. /\ frames.video \in Seq(Frames) /\ frames.audio \in Seq(Frames)
        /\ more.video \in Seq(Frames) /\ more.audio \in Seq(Frames)
    BY <1>5, <1>7 DEF Footage
  <2> HIDE DEF frames, more, parts
  <2> DEFINE v == frames.video \o more.video
             a == frames.audio \o more.audio
  <2>2. v \in Seq(Frames) /\ a \in Seq(Frames)
    BY <2>1
  <2>3. Concat(<<frames>> \o parts) = [video |-> v, audio |-> a]
    BY <1>8
  <2> HIDE DEF v, a
  <2> QED
    BY <2>2, <2>3 DEF Footage
<1>10. /\ hour' = [hour EXCEPT ![key] = [hour[key] EXCEPT !.frames = Concat(<<frames>> \o parts)]]
       /\ hour[key] = [file |-> file, frames |-> frames]
  BY <1>1, <1>2, <1>4 DEF HourShape
<1> HIDE DEF sources, parts, more, V, A, e, frames, file
<1>11. /\ hour'[key] = h /\ DOMAIN hour' = DOMAIN hour
       /\ \A k \in DOMAIN hour : k # key => hour'[k] = hour[k]
  BY <1>2, <1>10
<1>12. /\ job.copied = Len(e.bytes)
       /\ \A j \in 1..Len(e.bytes) : file.cells[base.size - 1 + j] = e.bytes[j]
       /\ file.cells[base.size + Len(e.bytes)] = e.moov
       /\ file.size = base.size + Len(e.bytes)
  BY <1>1, <1>2, <1>3, <1>4 DEF JobWritten, file
<1>13. Extended(file.cells, base, e)
  BY <1>2, <1>12 DEF Extended, KeepsBase
<1>14. Reads(file, Parse(file),
             [video |-> frames.video \o more.video, audio |-> frames.audio \o more.audio])
  BY <1>2, <1>4, <1>5, <1>7, <1>12, <1>13, ExtendedReads DEF e
<1>15. h.file = file /\ h.frames = Concat(<<frames>> \o parts)
  OBVIOUS
<1> HIDE DEF h
<1>16. HourOK(h) /\ h.frames \in Footage
  BY <1>4, <1>8, <1>9, <1>14, <1>15 DEF HourOK
<1>17. HourInv'
  <2>1. ASSUME NEW k \in DOMAIN hour' PROVE hour'[k].frames \in Footage /\ HourOK(hour'[k])
    <3>1. CASE k = key
      BY <1>11, <1>16, <3>1
    <3>2. CASE k # key
      <4>1. k \in DOMAIN hour /\ hour'[k] = hour[k]
        BY <1>11, <3>2
      <4>2. hour[k].frames \in Footage /\ HourOK(hour[k])
        BY <1>4, <3>2, <4>1 DEF HourInv
      <4> QED
        BY <4>1, <4>2
    <3> QED
      BY <3>1, <3>2
  <2> QED
    BY <2>1 DEF HourInv, HourOK
<1>18. JobInv'
  BY <1>1 DEF JobInv, JobBase, JobWritten, Idle, NoJob
<1>19. PendingInv'
  BY <1>1, <1>4, OthersOK
<1> QED
  BY <1>1, <1>4, <1>17, <1>18, <1>19 DEF MuxerInv, CountInv

\* A file with the bytes of one that can be read shows the same.
LEMMA SameFileReads ==
  ASSUME NEW base, NEW frames, Reads(base, Parse(base), frames),
         NEW file, SameBytes(file, base)
  PROVE  Structured(file) /\ Reads(file, Parse(file), frames)
<1> DEFINE info == Parse(base)
           n    == base.size - 1
<1>1. /\ Structured(base) /\ info \in Infos /\ info.video # <<>> /\ frames \in Footage
      /\ Covers(base.cells, n, info.video, frames.video)
      /\ Covers(base.cells, n, info.audio, frames.audio)
  BY DEF Reads
<1>2. /\ base.size \in Nat \ {0} /\ DOMAIN base.cells = 1..base.size
      /\ IsMoov(base.cells[base.size])
  BY <1>1 DEF Structured
<1>3. /\ file.size = base.size /\ DOMAIN file.cells = 1..base.size
      /\ \A i \in 1..base.size : file.cells[i] = base.cells[i]
  BY <1>2 DEF SameBytes
<1>4. base.size \in 1..base.size /\ n \in Nat /\ n <= n /\ \A i \in 1..n : i \in 1..base.size
  BY <1>2
<1>5. file.cells[file.size] = base.cells[base.size]
  BY <1>3, <1>4
<1>6. Structured(file)
  BY <1>2, <1>3, <1>5 DEF Structured
<1>7. Parse(file) = info
  BY <1>1, <1>5, <1>6 DEF Parse
<1> HIDE DEF info, n
<1>8. ASSUME NEW s \in Seq(Samples), NEW f \in Seq(Frames), Covers(base.cells, n, s, f)
      PROVE  Covers(file.cells, n, s, f)
  <2>1. \A i \in 1..Len(f) : s[i].offset \in Nat
    <3> TAKE i \in 1..Len(f)
    <3>1. s[i] \in Samples
      BY <1>8 DEF Covers
    <3> QED
      BY <3>1 DEF Samples
  <2>2. \A p \in 1..n : file.cells[p] = base.cells[p]
    BY <1>3, <1>4
  <2> QED
    BY <1>4, <1>8, <2>1, <2>2, CoversKept
<1>9. /\ info.video \in Seq(Samples) /\ info.audio \in Seq(Samples)
      /\ frames.video \in Seq(Frames) /\ frames.audio \in Seq(Frames)
  BY <1>1 DEF Infos, Footage
<1>10. Covers(file.cells, n, info.video, frames.video) /\ Covers(file.cells, n, info.audio, frames.audio)
  BY <1>1, <1>8, <1>9
<1> QED
  BY <1>1, <1>3, <1>6, <1>7, <1>10 DEF Reads, n

\* An append that is undone leaves the file there was.
LEMMA RestoreSteps ==
  ASSUME FileInv, RestoreSize
  PROVE  MuxerInv' /\ PendingInv' /\ HourInv' /\ JobInv' /\ CountInv'
<1> DEFINE key  == job.key
           base == job.base
           file == [size |-> base.size, cells |-> Grown.cells]
<1>1. /\ ~Idle /\ job.step = "resize" /\ Put(base.size, Grown.cells) /\ job' = NoJob
      /\ UNCHANGED <<muxer, pending, nextId, torn, crashes>>
  BY DEF RestoreSize, At, Idle
<1>2. /\ key \in DOMAIN hour /\ Structured(base) /\ Reads(base, Parse(base), hour[key].frames)
      /\ KeepsBase(Grown.cells, base)
  BY <1>1, JobFacts DEF Grown
<1>3. /\ AppendInv /\ HourInv /\ PendingInv /\ MuxerInv /\ CountInv
  BY DEF FileInv
<1>4. DOMAIN Grown.cells = 1..base.size /\ Grown.cells[base.size] = base.cells[base.size]
  BY <1>1, <1>3 DEF AppendInv, StepInv, Grown
<1>5. DOMAIN hour' = DOMAIN hour /\ hour'[key] = [file |-> file, frames |-> hour[key].frames]
  BY <1>1, <1>3, PutShape
<1>6. \A k \in DOMAIN hour : k # key => hour'[k] = hour[k]
  BY <1>1, <1>3 DEF AppendInv, HourShape, Put
<1>7. SameBytes(file, base)
  <2>1. \A i \in 1..base.size : Grown.cells[i] = base.cells[i]
    BY <1>2, <1>4 DEF KeepsBase, Structured
  <2> QED
    BY <1>2, <1>4, <2>1 DEF SameBytes, Structured
<1> HIDE DEF file
<1>8. Structured(file) /\ Reads(file, Parse(file), hour[key].frames)
  BY <1>2, <1>7, SameFileReads
<1>9. hour'[key].file = file /\ hour'[key].frames = hour[key].frames
  BY <1>5
<1>10. HourOK(hour'[key]) /\ hour'[key].frames \in Footage
  BY <1>2, <1>3, <1>8, <1>9 DEF HourOK, HourInv
<1>11. HourInv'
  <2>1. ASSUME NEW k \in DOMAIN hour' PROVE hour'[k].frames \in Footage /\ HourOK(hour'[k])
    <3>1. CASE k = key
      BY <1>10, <3>1
    <3>2. CASE k # key
      <4>1. k \in DOMAIN hour /\ hour'[k] = hour[k]
        BY <1>5, <1>6, <3>2
      <4>2. hour[k].frames \in Footage /\ HourOK(hour[k])
        BY <1>3, <3>2, <4>1 DEF HourInv
      <4> QED
        BY <4>1, <4>2
    <3> QED
      BY <3>1, <3>2
  <2> QED
    BY <2>1 DEF HourInv, HourOK
<1>12. JobInv'
  BY <1>1 DEF JobInv, JobBase, JobWritten, Idle, NoJob
<1> QED
  BY <1>1, <1>3, <1>11, <1>12 DEF MuxerInv, PendingInv, CountInv
-----------------------------------------------------------------------------
(* The invariant and what follows from it *)

\* There is nothing at first.
LEMMA FileInvInit == Init => FileInv
<1> SUFFICES ASSUME Init PROVE FileInv
  OBVIOUS
<1>1. AppendInv
  BY AppendInvInit
<1>2. muxer = None /\ pending = <<>> /\ hour = <<>> /\ job = NoJob
  BY DEF Init
<1>3. MuxerInv /\ JobInv /\ HourInv
  BY <1>2 DEF MuxerInv, JobInv, JobBase, JobWritten, HourInv, Idle, NoJob
<1>4. PendingInv
  <2>1. pending \in Seq({}) /\ \A p \in {} : SegmentOK(p)
    BY <1>2
  <2> QED
    BY <2>1 DEF PendingInv
<1>5. CountInv
  BY Mp4Assumption DEF Init, CountInv
<1> QED
  BY <1>1, <1>3, <1>4, <1>5 DEF FileInv

\* Every step keeps the invariant.
LEMMA FileInvKept == FileInv /\ [Next]_vars => FileInv'
<1> SUFFICES ASSUME FileInv, [Next]_vars PROVE FileInv'
  OBVIOUS
<1> DEFINE Rest == MuxerInv' /\ PendingInv' /\ HourInv' /\ JobInv' /\ CountInv'
<1>1. AppendInv'
  BY AppendInvKept DEF FileInv
<1> SUFFICES Rest
  BY <1>1 DEF FileInv
<1>2. MuxerInv /\ PendingInv /\ HourInv /\ JobInv /\ CountInv
  BY DEF FileInv
<1>3. ASSUME UNCHANGED <<pending, hour, job>> PROVE PendingInv' /\ HourInv' /\ JobInv'
  <2>1. PendingInv' /\ HourInv'
    BY <1>2, <1>3 DEF PendingInv, HourInv, HourOK, Idle
  <2>2. JobInv'
    BY <1>2, <1>3 DEF JobInv, JobBase, JobWritten, Extension, Sources, OfKey, Idle
  <2> QED
    BY <2>1, <2>2
<1>4. CASE UNCHANGED vars
  BY <1>2, <1>3, <1>4 DEF vars, MuxerInv, CountInv
<1>5. CASE \/ \E c \in Configs, s \in Sounds : OpenSegment(c, s)
           \/ WriteTimedSample \/ WriteAudioSample \/ WriteFails \/ CloseRefused
  <2>1. UNCHANGED <<pending, hour, job>>
    BY <1>5 DEF OpenSegment, WriteTimedSample, WriteAudioSample, WriteFails, CloseRefused
  <2>2. MuxerInv' /\ CountInv'
    BY <1>5, MuxerSteps
  <2> QED
    BY <1>3, <2>1, <2>2
<1>6. CASE Close
  <2>1. UNCHANGED <<hour, job>> /\ Idle
    BY <1>6 DEF Close
  <2>2. MuxerInv' /\ CountInv' /\ PendingInv'
    BY <1>6, MuxerSteps, CloseKeepsPending
  <2>3. HourInv' /\ JobInv'
    BY <1>2, <2>1 DEF HourInv, HourOK, JobInv, JobBase, JobWritten, Idle
  <2> QED
    BY <2>2, <2>3
<1>7. ASSUME NEW key \in Keys, MergeHour(key) \/ MergePeriodically(key) PROVE Rest
  BY <1>7, MergeSteps
<1>8. ASSUME NEW key \in Keys, BeginAppend(key) PROVE Rest
  BY <1>8, BeginSteps
<1>9. CASE CopySample \/ WriteMoov \/ PatchSize \/ Commit
  BY <1>9, CopySteps, MoovSteps, PatchSteps, CommitSteps
<1>10. CASE Interrupt \/ RestoreMoov \/ RestoreSize
  BY <1>10, InterruptSteps, RestoreMoovSteps, RestoreSteps
<1> QED
  BY <1>4, <1>5, <1>6, <1>7, <1>8, <1>9, <1>10 DEF Next

\* The frames of every file and of the open segment are frames that were written;
\* a closed segment is a complete file, and an append has its hour file.
THEOREM FileTypes == Spec => []TypeOK
<1>1. FileInv => TypeOK
  <2> SUFFICES ASSUME FileInv PROVE TypeOK
    OBVIOUS
  <2>1. muxer # None => muxer.frames \in Footage
    BY DEF FileInv, MuxerInv, MuxerOK
  <2>2. \A i \in DOMAIN pending : pending[i].frames \in Footage /\ Structured(pending[i].file)
    <3>1. PICK S : pending \in Seq(S) /\ \A p \in S : SegmentOK(p)
      BY DEF FileInv, PendingInv
    <3>2. \A p \in S : p.frames \in Footage /\ Structured(p.file)
      BY <3>1 DEF SegmentOK, Reads
    <3> QED
      BY <3>1, <3>2
  <2>3. DOMAIN hour \subseteq Keys /\ \A k \in DOMAIN hour : hour[k].frames \in Footage
    BY DEF FileInv, AppendInv, HourShape, HourInv
  <2>4. ASSUME ~Idle
        PROVE  /\ job.key \in DOMAIN hour
               /\ job.step \in {"copy", "patch", "commit", "undo", "resize"}
               /\ job.copied \in 0..Len(job.extension.bytes)
    BY <2>4 DEF FileInv, AppendInv, JobShape, StepInv, JobInv, JobBase
  <2>5. CountInv
    BY DEF FileInv
  <2> QED
    BY <2>1, <2>2, <2>3, <2>4, <2>5 DEF TypeOK, CountInv
<1> QED
  BY FileInvInit, FileInvKept, <1>1, PTL DEF Spec

\* Whatever was muxed, merged, appended and undone, the parser finds in every
\* segment and every hour file below 4 GiB the frames that were written, in their
\* order, with their data and for as long as they last.
THEOREM FilesReadBack == Spec => []ReadsBack
<1>1. FileInv => ReadsBack
  <2> SUFFICES ASSUME FileInv PROVE ReadsBack
    OBVIOUS
  <2>1. \A i \in DOMAIN pending : Holds(pending[i].file, pending[i].info, pending[i].frames)
    <3>1. PICK S : pending \in Seq(S) /\ \A p \in S : SegmentOK(p)
      BY DEF FileInv, PendingInv
    <3>2. \A p \in S : Holds(p.file, p.info, p.frames)
      BY <3>1, ReadsHolds DEF SegmentOK
    <3> QED
      BY <3>1, <3>2
  <2>2. ASSUME NEW k \in DOMAIN hour, Idle \/ job.key # k,
               1 + SizeOf(hour[k].frames.video) + SizeOf(hour[k].frames.audio) < Limit
        PROVE  Holds(hour[k].file, Parse(hour[k].file), hour[k].frames)
    <3>1. HourOK(hour[k])
      BY <2>2 DEF FileInv, HourInv
    <3>2. Reads(hour[k].file, Parse(hour[k].file), hour[k].frames)
      BY <2>2, <3>1 DEF HourOK
    <3> QED
      BY <3>2, ReadsHolds
  <2> QED
    BY <2>1, <2>2 DEF ReadsBack
<1> QED
  BY FileInvInit, FileInvKept, <1>1, PTL DEF Spec

\* A player that opens a closed segment seeks to the keyframes that were written
\* and to nothing else.
THEOREM SegmentsSeekable == Spec => []SegmentsSeek
<1>1. FileInv => SegmentsSeek
  <2> SUFFICES ASSUME FileInv PROVE SegmentsSeek
    OBVIOUS
  <2>1. PICK S : pending \in Seq(S) /\ \A p \in S : SegmentOK(p)
    BY DEF FileInv, PendingInv
  <2>2. \A i \in DOMAIN pending : pending[i] \in S
    BY <2>1
  <2> QED
    BY <2>1, <2>2 DEF SegmentsSeek, SegmentOK
<1> QED
  BY FileInvInit, FileInvKept, <1>1, PTL DEF Spec

=============================================================================
