---------------------------- MODULE ListTheorems ----------------------------
(***************************************************************************)
(* What the proofs about lists rest on: induction in a form that has no    *)
(* operator as a parameter, and what FlattenSeq makes of a list.           *)
(***************************************************************************)
EXTENDS Integers, Sequences, SequencesExt, SequenceTheorems,
        WellFoundedInduction, TLAPS

-----------------------------------------------------------------------------
(* Induction, and the items of a flattened sequence.                       *)

\* A set with 0 that holds n + 1 whenever it holds n holds every number.
LEMMA Induction ==
    ASSUME NEW T, 0 \in T, \A n \in Nat : n \in T => n + 1 \in T
    PROVE  Nat \subseteq T
<1>1. SUFFICES ASSUME Nat \ T # {} PROVE FALSE
  OBVIOUS
<1>2. PICK m \in Nat \ T : \A k \in Nat \ T : ~(<<k, m>> \in OpToRel(<, Nat))
  BY <1>1, NatLessThanWellFounded, WFMin
<1>3. m - 1 \in Nat /\ m - 1 < m /\ m = (m - 1) + 1
  <2>1. m \in Nat /\ m \notin T /\ m # 0
    BY ONLY m \in Nat \ T, 0 \in T
  <2> QED
    BY ONLY <2>1
<1>4. <<m - 1, m>> \in OpToRel(<, Nat)
  BY <1>2, <1>3 DEF OpToRel
<1>5. m - 1 \in T
  BY <1>2, <1>3, <1>4
<1> QED
  BY <1>2, <1>3, <1>5

\* The first k items of a sequence of sequences, one behind the other.
Flat(ss, k) == FlattenSeq([i \in 1 .. k |-> ss[i]])

FlatIs(ss, n, f) ==
    f = [i \in 1 .. n |-> IF i = 1 THEN ss[i] ELSE f[i - 1] \o ss[i]]

\* Putting n items together item by item comes to one result for each number.
LEMMA FlatExists ==
    ASSUME NEW ss, NEW n \in Nat
    PROVE  \E f : FlatIs(ss, n, f)
<1> DEFINE T == { m \in Nat : \E f : FlatIs(ss, m, f) }
<1>1. 0 \in T
  <2>1. FlatIs(ss, 0, [i \in 1 .. 0 |-> 0])
    BY DEF FlatIs
  <2> QED
    BY <2>1
<1>2. ASSUME NEW m \in Nat, m \in T
      PROVE  m + 1 \in T
  <2>1. PICK f : FlatIs(ss, m, f)
    BY <1>2
  <2> DEFINE g == [i \in 1 .. m + 1 |->
                      IF i = m + 1 THEN IF m = 0 THEN ss[1] ELSE f[m] \o ss[m + 1]
                      ELSE f[i]]
  <2>2. \A i \in 1 .. m + 1 : g[i] = IF i = 1 THEN ss[i] ELSE g[i - 1] \o ss[i]
    <3>1. TAKE i \in 1 .. m + 1
    <3>2. CASE i = m + 1
      BY <3>2
    <3>3. CASE i # m + 1
      <4>1. i \in 1 .. m /\ (i # 1 => i - 1 \in 1 .. m /\ i - 1 # m + 1 /\ i - 1 \in 1 .. m + 1)
        BY <3>3
      <4>2. f[i] = IF i = 1 THEN ss[i] ELSE f[i - 1] \o ss[i]
        BY <2>1, <4>1 DEF FlatIs
      <4> QED
        BY <3>3, <4>1, <4>2
    <3> QED
      BY <3>2, <3>3
  <2>3. FlatIs(ss, m + 1, g)
    BY <2>2 DEF FlatIs
  <2> QED
    BY <2>3
<1> HIDE DEF T
<1>3. Nat \subseteq T
  BY <1>1, <1>2, Induction
<1> QED
  BY <1>3 DEF T

\* Whatever function has the recursion of the items is the one of FlattenSeq.
LEMMA FlatUnique ==
    ASSUME NEW ss, NEW n \in Nat, NEW k \in Nat, k <= n,
           NEW f, FlatIs(ss, n, f), NEW g, FlatIs(ss, k, g)
    PROVE  \A i \in 1 .. k : f[i] = g[i]
<1> DEFINE T == { i \in Nat : i \in 1 .. k => f[i] = g[i] }
<1>1. 0 \in T
  OBVIOUS
<1>2. ASSUME NEW i \in Nat, i \in T
      PROVE  i + 1 \in T
  <2>1. SUFFICES ASSUME i + 1 \in 1 .. k PROVE f[i + 1] = g[i + 1]
    OBVIOUS
  <2>2. i + 1 \in 1 .. n
    BY <2>1
  <2>3. f[i + 1] = (IF i + 1 = 1 THEN ss[i + 1] ELSE f[(i + 1) - 1] \o ss[i + 1])
    BY <2>2 DEF FlatIs
  <2>4. g[i + 1] = (IF i + 1 = 1 THEN ss[i + 1] ELSE g[(i + 1) - 1] \o ss[i + 1])
    BY <2>1 DEF FlatIs
  <2>5. CASE i = 0
    BY <2>3, <2>4, <2>5
  <2>6. CASE i # 0
    <3>1. i \in 1 .. k /\ (i + 1) - 1 = i
      BY <2>1, <2>6
    <3>2. f[i] = g[i]
      BY <1>2, <3>1
    <3> QED
      BY <2>3, <2>4, <2>6, <3>1, <3>2
  <2> QED
    BY <2>5, <2>6
<1> HIDE DEF T
<1>3. Nat \subseteq T
  BY <1>1, <1>2, Induction
<1> QED
  BY <1>3 DEF T

\* FlattenSeq of k items, by such a function.
LEMMA FlatByFcn ==
    ASSUME NEW ss, NEW k \in Nat, k # 0
    PROVE  \E f : FlatIs(ss, k, f) /\ Flat(ss, k) = f[k]
<1> DEFINE r == [i \in 1 .. k |-> ss[i]]
           F == CHOOSE f : f = [i \in 1 .. Len(r) |->
                                   IF i = 1 THEN r[i] ELSE f[i - 1] \o r[i]]
<1>1. Len(r) = k
  OBVIOUS
<1>2. PICK g : FlatIs(ss, k, g)
  BY FlatExists
<1>3. g = [i \in 1 .. Len(r) |-> IF i = 1 THEN r[i] ELSE g[i - 1] \o r[i]]
  <2>1. [i \in 1 .. k |-> IF i = 1 THEN ss[i] ELSE g[i - 1] \o ss[i]]
        = [i \in 1 .. k |-> IF i = 1 THEN r[i] ELSE g[i - 1] \o r[i]]
    OBVIOUS
  <2> QED
    BY <1>1, <1>2, <2>1 DEF FlatIs
<1>4. F = [i \in 1 .. Len(r) |-> IF i = 1 THEN r[i] ELSE F[i - 1] \o r[i]]
  BY <1>3
<1>5. FlattenSeq(r) = F[Len(r)]
  BY <1>1 DEF FlattenSeq
<1> HIDE DEF F
<1>6. FlatIs(ss, k, F)
  <2>1. [i \in 1 .. k |-> IF i = 1 THEN ss[i] ELSE F[i - 1] \o ss[i]]
        = [i \in 1 .. k |-> IF i = 1 THEN r[i] ELSE F[i - 1] \o r[i]]
    OBVIOUS
  <2> QED
    BY <1>1, <1>4, <2>1 DEF FlatIs
<1> QED
  BY <1>1, <1>5, <1>6 DEF Flat

LEMMA FlatNone ==
    ASSUME NEW ss
    PROVE  Flat(ss, 0) = << >>
BY DEF Flat, FlattenSeq

\* One item more is put behind what there is.
LEMMA FlatNext ==
    ASSUME NEW S, NEW ss \in Seq(Seq(S)), NEW k \in Nat, k < Len(ss)
    PROVE  Flat(ss, k + 1) = Flat(ss, k) \o ss[k + 1]
<1>1. PICK f : FlatIs(ss, k + 1, f) /\ Flat(ss, k + 1) = f[k + 1]
  <2>1. k + 1 \in Nat /\ k + 1 # 0
    OBVIOUS
  <2> QED
    BY <2>1, FlatByFcn
<1>2. f[k + 1] = (IF k + 1 = 1 THEN ss[k + 1] ELSE f[(k + 1) - 1] \o ss[k + 1])
  <2>1. k + 1 \in 1 .. k + 1
    OBVIOUS
  <2> QED
    BY <1>1, <2>1 DEF FlatIs
<1>3. CASE k = 0
  <2>1. ss[k + 1] \in Seq(S)
    BY <1>3
  <2>2. << >> \o ss[k + 1] = ss[k + 1]
    BY <2>1, ConcatEmptySeq
  <2> QED
    BY <1>1, <1>2, <1>3, <2>2, FlatNone
<1>4. CASE k # 0
  <2>1. PICK g : FlatIs(ss, k, g) /\ Flat(ss, k) = g[k]
    BY <1>4, FlatByFcn
  <2>2. f[k] = g[k]
    BY <1>1, <1>4, <2>1, FlatUnique
  <2>3. (k + 1) - 1 = k /\ k + 1 # 1
    BY <1>4
  <2> QED
    BY <1>1, <1>2, <2>1, <2>2, <2>3
<1> QED
  BY <1>3, <1>4

LEMMA FlatType ==
    ASSUME NEW S, NEW ss \in Seq(Seq(S)), NEW k \in 0 .. Len(ss)
    PROVE  Flat(ss, k) \in Seq(S)
<1> DEFINE T == { n \in Nat : n <= Len(ss) => Flat(ss, n) \in Seq(S) }
<1>1. 0 \in T
  <2>1. Flat(ss, 0) \in Seq(S)
    BY FlatNone, EmptySeq
  <2> QED
    BY <2>1
<1>2. ASSUME NEW n \in Nat, n \in T
      PROVE  n + 1 \in T
  <2>1. SUFFICES ASSUME n + 1 <= Len(ss) PROVE Flat(ss, n + 1) \in Seq(S)
    OBVIOUS
  <2>2. Len(ss) \in Nat /\ n < Len(ss) /\ n <= Len(ss) /\ n + 1 \in 1 .. Len(ss)
    BY <2>1
  <2>3. Flat(ss, n) \in Seq(S)
    BY <1>2, <2>2
  <2>4. ss[n + 1] \in Seq(S)
    BY <2>2
  <2> QED
    BY <2>2, <2>3, <2>4, FlatNext, ConcatProperties
<1> HIDE DEF T
<1>3. Nat \subseteq T
  BY <1>1, <1>2, Induction
<1> QED
  BY <1>3 DEF T

\* What was put together first stays where it is.
LEMMA FlatPrefix ==
    ASSUME NEW S, NEW ss \in Seq(Seq(S)), NEW k \in 0 .. Len(ss), NEW j \in k .. Len(ss)
    PROVE  /\ Len(Flat(ss, k)) <= Len(Flat(ss, j))
           /\ \A p \in 1 .. Len(Flat(ss, k)) : Flat(ss, j)[p] = Flat(ss, k)[p]
<1> DEFINE P(n) == /\ Len(Flat(ss, k)) <= Len(Flat(ss, n))
                   /\ \A p \in 1 .. Len(Flat(ss, k)) : Flat(ss, n)[p] = Flat(ss, k)[p]
           T == { n \in Nat : k <= n /\ n <= Len(ss) => P(n) }
<1>k. Flat(ss, k) \in Seq(S) /\ Len(Flat(ss, k)) \in Nat
  BY FlatType
<1>1. 0 \in T
  <2>1. 0 >= k => k = 0
    OBVIOUS
  <2> QED
    BY <2>1, <1>k
<1>2. ASSUME NEW n \in Nat, n \in T
      PROVE  n + 1 \in T
  <2>1. SUFFICES ASSUME k <= n + 1, n + 1 <= Len(ss) PROVE P(n + 1)
    OBVIOUS
  <2>2. CASE k = n + 1
    BY <2>2, <1>k
  <2>3. CASE k # n + 1
    <3>1. k <= n /\ n <= Len(ss) /\ n < Len(ss) /\ n \in 0 .. Len(ss) /\ n + 1 \in 1 .. Len(ss)
      BY <2>1, <2>3
    <3>2. P(n)
      BY <1>2, <3>1
    <3>3. Flat(ss, n) \in Seq(S) /\ ss[n + 1] \in Seq(S)
      BY <3>1, FlatType
    <3>4. Flat(ss, n + 1) = Flat(ss, n) \o ss[n + 1]
      BY <3>1, FlatNext
    <3>5. /\ Len(Flat(ss, n + 1)) = Len(Flat(ss, n)) + Len(ss[n + 1])
          /\ \A p \in 1 .. Len(Flat(ss, n)) : Flat(ss, n + 1)[p] = Flat(ss, n)[p]
          /\ Len(Flat(ss, n)) \in Nat /\ Len(ss[n + 1]) \in Nat
      BY <3>3, <3>4
    <3> QED
      BY <1>k, <3>2, <3>5
  <2> QED
    BY <2>2, <2>3
<1> HIDE DEF T, P
<1>3. Nat \subseteq T
  BY <1>1, <1>2, Induction
<1>4. P(j)
  BY <1>3 DEF T
<1> QED
  BY <1>4 DEF P

\* Each item stands behind those before it.
LEMMA FlatItem ==
    ASSUME NEW S, NEW ss \in Seq(Seq(S)), NEW k \in Nat, NEW j \in k + 1 .. Len(ss),
           NEW p \in 1 .. Len(ss[k + 1])
    PROVE  /\ Len(Flat(ss, k)) + p \in 1 .. Len(Flat(ss, j))
           /\ Flat(ss, j)[Len(Flat(ss, k)) + p] = ss[k + 1][p]
<1>1. k \in 0 .. Len(ss) /\ k + 1 \in 0 .. Len(ss) /\ k + 1 \in 1 .. Len(ss) /\ k < Len(ss)
  OBVIOUS
<1>2. Flat(ss, k) \in Seq(S) /\ ss[k + 1] \in Seq(S) /\ Flat(ss, j) \in Seq(S)
  BY <1>1, FlatType
<1>3. Flat(ss, k + 1) = Flat(ss, k) \o ss[k + 1]
  BY <1>1, FlatNext
<1>4. /\ Len(Flat(ss, k + 1)) = Len(Flat(ss, k)) + Len(ss[k + 1])
      /\ Flat(ss, k + 1)[Len(Flat(ss, k)) + p] = ss[k + 1][p]
      /\ Len(Flat(ss, k)) \in Nat /\ Len(ss[k + 1]) \in Nat /\ Len(Flat(ss, j)) \in Nat
  BY <1>2, <1>3
<1>5. /\ Len(Flat(ss, k + 1)) <= Len(Flat(ss, j))
      /\ \A q \in 1 .. Len(Flat(ss, k + 1)) : Flat(ss, j)[q] = Flat(ss, k + 1)[q]
  BY <1>1, FlatPrefix
<1>6. Len(Flat(ss, k)) + p \in 1 .. Len(Flat(ss, k + 1))
  BY <1>4, SMTT(30)
<1> QED
  BY <1>4, <1>5, <1>6

LEMMA FlatAll ==
    ASSUME NEW S, NEW ss \in Seq(S)
    PROVE  Flat(ss, Len(ss)) = FlattenSeq(ss)
<1>1. [i \in 1 .. Len(ss) |-> ss[i]] = ss
  OBVIOUS
<1> QED
  BY <1>1 DEF Flat

=============================================================================
