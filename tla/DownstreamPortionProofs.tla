---------------------- MODULE DownstreamPortionProofs ----------------------
(***************************************************************************)
(* Proofs about DownstreamPortion for every list of devices, however much  *)
(* of its bytes arrived and whatever stands behind them.  The length of a  *)
(* list is found descriptor by descriptor, and the bytes of a list were    *)
(* put together item by item: both are inductions.  The inductive          *)
(* invariant places the iterator at the start of a device of the list.     *)
(***************************************************************************)
EXTENDS DownstreamPortion, ListTheorems

-----------------------------------------------------------------------------
(* How far a list of descriptors reaches, descriptor by descriptor.        *)

\* Behind one descriptor more.
BehindOne(bytes, end) == IF end = Error THEN Error ELSE DescriptorEnd(bytes, end)

EndIs(bytes, at, n, f) ==
    f = [i \in 0 .. n |-> IF i = 0 THEN at ELSE BehindOne(bytes, f[i - 1])]

LEMMA EndExists ==
    ASSUME NEW bytes, NEW at, NEW n \in Nat
    PROVE  \E f : EndIs(bytes, at, n, f)
<1> DEFINE T == { m \in Nat : \E f : EndIs(bytes, at, m, f) }
<1>1. 0 \in T
  <2> DEFINE f == [i \in 0 .. 0 |-> at]
  <2>1. \A i \in 0 .. 0 : i = 0
    OBVIOUS
  <2>2. EndIs(bytes, at, 0, f)
    BY <2>1 DEF EndIs
  <2> QED
    BY <2>2
<1>2. ASSUME NEW m \in Nat, m \in T
      PROVE  m + 1 \in T
  <2>1. PICK f : EndIs(bytes, at, m, f)
    BY <1>2
  <2> DEFINE g == [i \in 0 .. m + 1 |-> IF i = m + 1 THEN BehindOne(bytes, f[m]) ELSE f[i]]
  <2>2. \A i \in 0 .. m + 1 :
           g[i] = IF i = 0 THEN at ELSE BehindOne(bytes, g[i - 1])
    <3>1. TAKE i \in 0 .. m + 1
    <3>2. CASE i = m + 1
      <4>1. g[i - 1] = f[m] /\ i # 0
        BY <3>2
      <4> QED
        BY <3>2, <4>1
    <3>3. CASE i # m + 1
      <4>1. i \in 0 .. m /\ (i # 0 => i - 1 # m + 1 /\ i - 1 \in 0 .. m + 1)
        BY <3>3
      <4>2. f[i] = IF i = 0 THEN at ELSE BehindOne(bytes, f[i - 1])
        BY <2>1, <4>1 DEF EndIs
      <4> QED
        BY <3>3, <4>1, <4>2
    <3> QED
      BY <3>2, <3>3
  <2>3. EndIs(bytes, at, m + 1, g)
    BY <2>2 DEF EndIs
  <2> QED
    BY <2>3
<1> HIDE DEF T
<1>3. Nat \subseteq T
  BY <1>1, <1>2, Induction
<1> QED
  BY <1>3 DEF T

LEMMA EndUnique ==
    ASSUME NEW bytes, NEW at, NEW n \in Nat, NEW k \in Nat, k <= n,
           NEW f, EndIs(bytes, at, n, f), NEW g, EndIs(bytes, at, k, g)
    PROVE  f[k] = g[k]
<1> DEFINE T == { i \in Nat : i <= k => f[i] = g[i] }
<1>1. 0 \in T
  <2>1. 0 \in 0 .. n /\ 0 \in 0 .. k
    OBVIOUS
  <2> QED
    BY <2>1 DEF EndIs
<1>2. ASSUME NEW i \in Nat, i \in T
      PROVE  i + 1 \in T
  <2>1. SUFFICES ASSUME i + 1 <= k PROVE f[i + 1] = g[i + 1]
    OBVIOUS
  <2>2. /\ i + 1 \in 0 .. n /\ i + 1 \in 0 .. k
        /\ i <= k /\ i + 1 # 0 /\ (i + 1) - 1 = i
    BY <2>1
  <2>3. f[i + 1] = BehindOne(bytes, f[(i + 1) - 1])
    BY <2>2 DEF EndIs
  <2>4. g[i + 1] = BehindOne(bytes, g[(i + 1) - 1])
    BY <2>2 DEF EndIs
  <2>5. f[i] = g[i]
    BY <1>2, <2>2
  <2> QED
    BY <2>2, <2>3, <2>4, <2>5
<1> HIDE DEF T
<1>3. Nat \subseteq T
  BY <1>1, <1>2, Induction
<1> QED
  BY <1>3 DEF T

LEMMA EndByFcn ==
    ASSUME NEW bytes, NEW at, NEW n \in Nat
    PROVE  \E f : EndIs(bytes, at, n, f) /\ DescriptorsEnd(bytes, at, n) = f[n]
<1> DEFINE F == CHOOSE f : EndIs(bytes, at, n, f)
<1>1. EndIs(bytes, at, n, F)
  BY EndExists
<1>2. DescriptorsEnd(bytes, at, n) = F[n]
  BY DEF DescriptorsEnd, BehindOne, EndIs
<1> QED
  BY <1>1, <1>2

LEMMA EndNone ==
    ASSUME NEW bytes, NEW at
    PROVE  DescriptorsEnd(bytes, at, 0) = at
<1>1. PICK f : EndIs(bytes, at, 0, f) /\ DescriptorsEnd(bytes, at, 0) = f[0]
  BY EndByFcn
<1> QED
  BY <1>1 DEF EndIs

LEMMA EndNext ==
    ASSUME NEW bytes, NEW at, NEW n \in Nat
    PROVE  DescriptorsEnd(bytes, at, n + 1) = BehindOne(bytes, DescriptorsEnd(bytes, at, n))
<1>1. PICK f : EndIs(bytes, at, n + 1, f) /\ DescriptorsEnd(bytes, at, n + 1) = f[n + 1]
  BY n + 1 \in Nat, EndByFcn
<1>2. PICK g : EndIs(bytes, at, n, g) /\ DescriptorsEnd(bytes, at, n) = g[n]
  BY EndByFcn
<1>3. f[n] = g[n]
  BY <1>1, <1>2, n + 1 \in Nat, n <= n + 1, EndUnique
<1>4. f[n + 1] = BehindOne(bytes, f[(n + 1) - 1]) /\ (n + 1) - 1 = n
  BY <1>1, n + 1 \in 0 .. n + 1, n + 1 # 0 DEF EndIs
<1> QED
  BY <1>1, <1>2, <1>3, <1>4

-----------------------------------------------------------------------------
(* What the bytes of a descriptor and of a device are read as.             *)

\* The two bytes of a u16 give it back.
LEMMA LowHighIs ==
    ASSUME NEW n \in Word
    PROVE  /\ LowHigh(n) \in Seq(Byte) /\ Len(LowHigh(n)) = 2
           /\ LowHigh(n)[1] + 256 * LowHigh(n)[2] = n
<1>1. n % 256 \in Byte /\ n \div 256 \in Byte /\ (n % 256) + 256 * (n \div 256) = n
  BY DEF Word, Byte
<1> QED
  BY <1>1 DEF LowHigh

\* From an offset on, the bytes are those of an item as far as they reach.
ReadsAs(bytes, at, item) ==
    \A p \in 1 .. Len(item) : at + p <= Len(bytes) => bytes[at + p] = item[p]

\* Of bytes that are there the numbers are.
LEMMA U16Type ==
    ASSUME NEW bytes \in Seq(Byte), NEW at \in Nat, at + 2 <= Len(bytes)
    PROVE  U16(bytes, at) \in Word
<1>1. at + 1 \in 1 .. Len(bytes) /\ at + 2 \in 1 .. Len(bytes)
  OBVIOUS
<1>2. bytes[at + 1] \in Byte /\ bytes[at + 2] \in Byte
  BY <1>1
<1> QED
  BY <1>2 DEF U16, Byte, Word

\* A descriptor ends behind its header, or not at all.
LEMMA DescriptorEndType ==
    ASSUME NEW bytes \in Seq(Byte), NEW at \in Nat, DescriptorEnd(bytes, at) # Error
    PROVE  /\ DescriptorEnd(bytes, at) \in at + DESCRIPTOR_HEADER .. Len(bytes)
           /\ DescriptorEnd(bytes, at) \in Nat
<1>1. at + DESCRIPTOR_HEADER <= Len(bytes) /\ Len(bytes) \in Nat
  BY DEF DescriptorEnd, DESCRIPTOR_HEADER
<1>2. U16(bytes, at + 2) \in Nat
  BY <1>1, U16Type DEF DESCRIPTOR_HEADER, Word
<1>3. /\ DescriptorEnd(bytes, at) = at + DESCRIPTOR_HEADER + U16(bytes, at + 2)
      /\ DescriptorEnd(bytes, at) <= Len(bytes)
  BY <1>1, <1>2, NumberAssumption DEF DescriptorEnd, DESCRIPTOR_HEADER
<1> QED
  BY <1>1, <1>2, <1>3 DEF DESCRIPTOR_HEADER

\* The bytes of two runs, one behind the other.
IsJoin(w, s, t) ==
    /\ w \in Seq(Byte) /\ Len(w) = Len(s) + Len(t)
    /\ \A i \in 1 .. Len(s) : w[i] = s[i]
    /\ \A p \in 1 .. Len(t) : w[Len(s) + p] = t[p]

LEMMA Joined ==
    ASSUME NEW s \in Seq(Byte), NEW t \in Seq(Byte)
    PROVE  IsJoin(s \o t, s, t)
<1>1. Len(s) \in Nat /\ Len(t) \in Nat
  OBVIOUS
<1>2. /\ s \o t \in Seq(Byte) /\ Len(s \o t) = Len(s) + Len(t)
      /\ \A i \in 1 .. Len(s) + Len(t) :
            (s \o t)[i] = IF i <= Len(s) THEN s[i] ELSE t[i - Len(s)]
  BY ConcatProperties
<1>3. \A i \in 1 .. Len(s) : i \in 1 .. Len(s) + Len(t) /\ i <= Len(s)
  BY <1>1
<1>4. \A p \in 1 .. Len(t) :
         /\ Len(s) + p \in 1 .. Len(s) + Len(t)
         /\ ~(Len(s) + p <= Len(s)) /\ (Len(s) + p) - Len(s) = p
  BY <1>1
<1> QED
  BY <1>2, <1>3, <1>4 DEF IsJoin

LEMMA DescriptorBytesAre ==
    ASSUME NEW d \in Descriptor, Len(d.data) \in Word
    PROVE  /\ DescriptorBytes(d) \in Seq(Byte)
           /\ Len(DescriptorBytes(d)) = DESCRIPTOR_HEADER + Len(d.data)
           /\ U16(DescriptorBytes(d), 0) = d.type
           /\ U16(DescriptorBytes(d), 2) = Len(d.data)
           /\ \A p \in 1 .. Len(d.data) :
                 DescriptorBytes(d)[DESCRIPTOR_HEADER + p] = d.data[p]
<1> DEFINE t == LowHigh(d.type)
           l == LowHigh(Len(d.data))
<1>1. d.type \in Word /\ d.data \in Seq(Byte) /\ Len(d.data) \in Nat
  BY DEF Descriptor, Word
<1>2. /\ t \in Seq(Byte) /\ Len(t) = 2 /\ t[1] + 256 * t[2] = d.type
      /\ l \in Seq(Byte) /\ Len(l) = 2 /\ l[1] + 256 * l[2] = Len(d.data)
  BY <1>1, LowHighIs
<1>3. DescriptorBytes(d) = (t \o l) \o d.data
  BY DEF DescriptorBytes
<1> HIDE DEF t, l
<1> DEFINE h == t \o l
           w == h \o d.data
<1>4. /\ h \in Seq(Byte) /\ Len(h) = 2 + 2
      /\ h[1] = t[1] /\ h[2] = t[2] /\ h[2 + 1] = l[1] /\ h[2 + 2] = l[2]
  <2>1. IsJoin(h, t, l)
    BY <1>2, Joined
  <2> HIDE DEF h
  <2> QED
    BY <1>2, <2>1 DEF IsJoin
<1> HIDE DEF h
<1>5. /\ w \in Seq(Byte) /\ Len(w) = 4 + Len(d.data)
      /\ w[1] = h[1] /\ w[2] = h[2] /\ w[3] = h[3] /\ w[4] = h[4]
      /\ \A p \in 1 .. Len(d.data) : w[4 + p] = d.data[p]
  <2>1. IsJoin(w, h, d.data)
    BY <1>1, <1>4, Joined
  <2> HIDE DEF w
  <2> QED
    BY <1>1, <1>4, <2>1 DEF IsJoin
<1> HIDE DEF w
<1>6. DescriptorBytes(d) = w
  BY <1>3 DEF w, h
<1>7. 0 + 1 = 1 /\ 0 + 2 = 2 /\ 2 + 1 = 3 /\ 2 + 2 = 4
  OBVIOUS
<1> QED
  BY <1>2, <1>4, <1>5, <1>6, <1>7 DEF U16, DESCRIPTOR_HEADER

\* Where a descriptor was put it is found, if it is all there and not too long.
LEMMA DescriptorHere ==
    ASSUME NEW bytes \in Seq(Byte), NEW at \in Nat, NEW d \in Descriptor, Len(d.data) \in Word,
           ReadsAs(bytes, at, DescriptorBytes(d))
    PROVE  LET end == at + Len(DescriptorBytes(d))
           IN  IF Len(d.data) <= DESCRIPTOR_DATA_MAX_LEN /\ end <= Len(bytes)
               THEN DescriptorEnd(bytes, at) = end /\ DescriptorAt(bytes, at) = d
               ELSE DescriptorEnd(bytes, at) = Error
<1> DEFINE b == DescriptorBytes(d)
<1>d. PICK data \in Seq(Byte) : data = d.data
  BY DEF Descriptor
<1>1. data \in Seq(Byte) /\ Len(data) \in Nat
  OBVIOUS
<1>2. /\ Len(b) = 4 + Len(data)
      /\ b[1] + 256 * b[2] = d.type /\ b[3] + 256 * b[4] = Len(data)
      /\ \A p \in 1 .. Len(data) : b[4 + p] = data[p]
  <2>1. 0 + 1 = 1 /\ 0 + 2 = 2 /\ 2 + 1 = 3 /\ 2 + 2 = 4
    OBVIOUS
  <2> QED
    BY <2>1, <1>d, DescriptorBytesAre DEF U16, DESCRIPTOR_HEADER
<1>3. \A p \in 1 .. Len(b) : at + p <= Len(bytes) => bytes[at + p] = b[p]
  BY DEF ReadsAs
<1>4. Len(bytes) \in Nat /\ DESCRIPTOR_DATA_MAX_LEN \in Nat
  BY NumberAssumption
<1> HIDE DEF b
<1>b. Len(b) \in Nat /\ Len(b) = 4 + Len(data) /\ Len(data) \in Nat
  BY <1>1, <1>2
<1>5. CASE at + 4 > Len(bytes)
  BY <1>d, <1>1, <1>2, <1>4, <1>5 DEF DescriptorEnd, DESCRIPTOR_HEADER, b
<1>6. CASE at + 4 <= Len(bytes)
  <2>1. bytes[at + 1] = b[1] /\ bytes[at + 2] = b[2] /\ bytes[at + 3] = b[3] /\ bytes[at + 4] = b[4]
    <3>1. \A p \in 1 .. 4 : p \in 1 .. Len(b) /\ at + p <= Len(bytes)
      BY ONLY <1>b, <1>4, <1>6, at \in Nat
    <3> QED
      BY ONLY <1>3, <3>1
  <2>2. (at + 2) + 1 = at + 3 /\ (at + 2) + 2 = at + 4
    OBVIOUS
  <2>3. U16(bytes, at) = d.type /\ U16(bytes, at + 2) = Len(data)
    BY <1>2, <2>1, <2>2 DEF U16
  <2>4. DescriptorEnd(bytes, at) =
           IF Len(data) > DESCRIPTOR_DATA_MAX_LEN \/ at + 4 + Len(data) > Len(bytes)
           THEN Error ELSE at + 4 + Len(data)
    <3>1. ~(at + 4 > Len(bytes))
      BY <1>4, <1>6
    <3> QED
      BY <2>3, <3>1 DEF DescriptorEnd, DESCRIPTOR_HEADER
  <2>5. CASE Len(data) <= DESCRIPTOR_DATA_MAX_LEN /\ at + Len(b) <= Len(bytes)
    <3>1. DescriptorEnd(bytes, at) = at + Len(b) /\ at + Len(b) = at + 4 + Len(data)
      <4>1. /\ ~(Len(data) > DESCRIPTOR_DATA_MAX_LEN)
            /\ ~(at + 4 + Len(data) > Len(bytes))
            /\ at + Len(b) = at + 4 + Len(data)
        BY ONLY <1>b, <1>4, <2>5, at \in Nat
      <4> QED
        BY <2>4, <4>1
    <3>2. \A i \in at + 4 + 1 .. at + Len(b) : bytes[i] \in Byte
      BY <2>5, <1>1, <1>2, <1>4
    <3> DEFINE r == SubSeq(bytes, at + 4 + 1, at + Len(b))
    <3>3. /\ r \in Seq(Byte) /\ Len(r) = Len(data)
          /\ \A i \in 1 .. Len(data) : r[i] = bytes[at + 4 + i]
      <4>1. at + 4 + 1 \in Int /\ at + Len(b) \in Int
        BY <1>1, <1>2
      <4>2. /\ r \in Seq(Byte)
            /\ Len(r) = (IF at + 4 + 1 <= at + Len(b)
                         THEN at + Len(b) - (at + 4 + 1) + 1 ELSE 0)
            /\ \A i \in 1 .. at + Len(b) - (at + 4 + 1) + 1 : r[i] = bytes[at + 4 + 1 + i - 1]
        BY <3>2, <4>1, SubSeqProperties, SMTT(30)
      <4>3. \A i \in 1 .. Len(data) : at + 4 + 1 + i - 1 = at + 4 + i
        OBVIOUS
      <4> HIDE DEF r
      <4> QED
        BY <1>1, <1>2, <4>2, <4>3
    <3>4. ASSUME NEW i \in 1 .. Len(data)
          PROVE  r[i] = data[i]
      <4>1. /\ 4 + i \in 1 .. Len(b) /\ at + (4 + i) <= Len(bytes)
            /\ at + (4 + i) = at + 4 + i
        BY <1>1, <1>2, <1>4, <2>5
      <4>2. bytes[at + (4 + i)] = b[4 + i] /\ b[4 + i] = data[i]
        BY <1>2, <1>3, <4>1
      <4>3. r[i] = bytes[at + 4 + i]
        BY <3>3
      <4> QED
        BY <4>1, <4>2, <4>3
    <3> HIDE DEF r
    <3>5. r = data
      BY <1>1, <3>3, <3>4, SeqEqual
    <3>6. DescriptorAt(bytes, at) = [type |-> d.type, data |-> r]
      BY <2>3, <3>1 DEF DescriptorAt, DESCRIPTOR_HEADER, r
    <3>7. d = [type |-> d.type, data |-> data]
      BY <1>d DEF Descriptor
    <3> QED
      BY <1>d, <2>5, <3>1, <3>5, <3>6, <3>7 DEF b
  <2>6. CASE ~(Len(data) <= DESCRIPTOR_DATA_MAX_LEN /\ at + Len(b) <= Len(bytes))
    <3>1. DescriptorEnd(bytes, at) = Error
      <4>1. \/ Len(data) > DESCRIPTOR_DATA_MAX_LEN
            \/ at + 4 + Len(data) > Len(bytes)
        BY ONLY <1>b, <1>4, <2>6, at \in Nat
      <4> QED
        BY <2>4, <4>1
    <3> QED
      BY <1>d, <2>6, <3>1 DEF b
  <2> QED
    BY <2>5, <2>6
<1> QED
  BY <1>4, <1>5, <1>6

-----------------------------------------------------------------------------
(* What the bytes of a list of descriptors are read as.                    *)

IsWire(ds) == ds \in Seq(Descriptor) /\ \A i \in DOMAIN ds : Len(ds[i].data) \in Word

Short(d) == Len(d.data) <= DESCRIPTOR_DATA_MAX_LEN

Parts(ds) == [i \in DOMAIN ds |-> DescriptorBytes(ds[i])]

\* Where the descriptors behind the first j begin.
OffsetOf(ds, j) == Len(Flat(Parts(ds), j))

LEMMA PartsType ==
    ASSUME NEW ds, IsWire(ds)
    PROVE  /\ Len(ds) \in Nat /\ DOMAIN ds = 1 .. Len(ds)
           /\ Parts(ds) \in Seq(Seq(Byte)) /\ Len(Parts(ds)) = Len(ds)
           /\ \A i \in 1 .. Len(ds) : /\ ds[i] \in Descriptor /\ Len(ds[i].data) \in Word
                                      /\ Parts(ds)[i] = DescriptorBytes(ds[i])
                                      /\ DescriptorBytes(ds[i]) \in Seq(Byte)
           /\ DescriptorsBytes(ds) = Flat(Parts(ds), Len(ds))
           /\ DescriptorsBytes(ds) \in Seq(Byte)
<1>1. ds \in Seq(Descriptor) /\ \A i \in DOMAIN ds : Len(ds[i].data) \in Word
  BY DEF IsWire
<1>2. Len(ds) \in Nat /\ DOMAIN ds = 1 .. Len(ds) /\ \A i \in 1 .. Len(ds) : ds[i] \in Descriptor
  BY <1>1
<1>3. \A i \in 1 .. Len(ds) : DescriptorBytes(ds[i]) \in Seq(Byte)
  BY <1>1, <1>2, DescriptorBytesAre
<1>4. Parts(ds) = [i \in 1 .. Len(ds) |-> DescriptorBytes(ds[i])]
  BY <1>2 DEF Parts
<1>5. Parts(ds) \in [1 .. Len(ds) -> Seq(Byte)]
  BY <1>3, <1>4
<1>6. Parts(ds) \in Seq(Seq(Byte)) /\ Len(Parts(ds)) = Len(ds)
  BY <1>2, <1>5, SeqDef
<1>7. DescriptorsBytes(ds) = Flat(Parts(ds), Len(ds))
  BY <1>6, FlatAll DEF DescriptorsBytes, Parts
<1>8. DescriptorsBytes(ds) \in Seq(Byte)
  BY <1>2, <1>6, <1>7, FlatType
<1> QED
  BY <1>1, <1>2, <1>3, <1>4, <1>6, <1>7, <1>8

\* The offsets grow by what each descriptor takes.
LEMMA Offsets ==
    ASSUME NEW ds, IsWire(ds), NEW j \in Nat, j < Len(ds)
    PROVE  /\ OffsetOf(ds, j) \in Nat /\ Len(DescriptorBytes(ds[j + 1])) \in Nat
           /\ OffsetOf(ds, j + 1) = OffsetOf(ds, j) + Len(DescriptorBytes(ds[j + 1]))
           /\ OffsetOf(ds, j + 1) <= Len(DescriptorsBytes(ds))
           /\ Len(DescriptorsBytes(ds)) \in Nat
<1>1. /\ Len(ds) \in Nat
      /\ Parts(ds) \in Seq(Seq(Byte)) /\ Len(Parts(ds)) = Len(ds)
      /\ Parts(ds)[j + 1] = DescriptorBytes(ds[j + 1])
      /\ DescriptorBytes(ds[j + 1]) \in Seq(Byte)
      /\ DescriptorsBytes(ds) = Flat(Parts(ds), Len(ds))
      /\ DescriptorsBytes(ds) \in Seq(Byte)
  <2>1. Len(ds) \in Nat
    BY PartsType
  <2>2. j + 1 \in 1 .. Len(ds)
    BY <2>1
  <2> QED
    BY <2>1, <2>2, PartsType
<1>2. /\ j \in 0 .. Len(Parts(ds)) /\ j < Len(Parts(ds)) /\ j + 1 \in 0 .. Len(Parts(ds))
      /\ Len(ds) \in j + 1 .. Len(Parts(ds))
  BY <1>1
<1>3. Flat(Parts(ds), j) \in Seq(Byte)
  BY <1>1, <1>2, FlatType
<1>4. Flat(Parts(ds), j + 1) = Flat(Parts(ds), j) \o DescriptorBytes(ds[j + 1])
  BY <1>1, <1>2, FlatNext
<1>5. Len(Flat(Parts(ds), j + 1)) <= Len(Flat(Parts(ds), Len(ds)))
  BY <1>1, <1>2, FlatPrefix
<1>6. Len(Flat(Parts(ds), j) \o DescriptorBytes(ds[j + 1]))
        = Len(Flat(Parts(ds), j)) + Len(DescriptorBytes(ds[j + 1]))
  BY <1>1, <1>3, ConcatProperties
<1>7. /\ Len(Flat(Parts(ds), j)) \in Nat /\ Len(DescriptorBytes(ds[j + 1])) \in Nat
      /\ Len(DescriptorsBytes(ds)) \in Nat
  BY <1>1, <1>3, LenProperties
<1> QED
  BY <1>1, <1>4, <1>5, <1>6, <1>7 DEF OffsetOf

\* Where a list was put, each descriptor stands at its offset.
LEMMA ReadsEach ==
    ASSUME NEW bytes, NEW at \in Nat, Len(bytes) \in Nat, NEW ds, IsWire(ds),
           ReadsAs(bytes, at, DescriptorsBytes(ds)), NEW j \in Nat, j < Len(ds)
    PROVE  ReadsAs(bytes, at + OffsetOf(ds, j), DescriptorBytes(ds[j + 1]))
<1>1. /\ Len(ds) \in Nat
      /\ Parts(ds) \in Seq(Seq(Byte)) /\ Len(Parts(ds)) = Len(ds)
      /\ DescriptorsBytes(ds) = Flat(Parts(ds), Len(ds))
  BY PartsType
<1>2. Parts(ds)[j + 1] = DescriptorBytes(ds[j + 1])
  <2>1. j + 1 \in 1 .. Len(ds)
    BY <1>1
  <2> QED
    BY <2>1, PartsType
<1>3. OffsetOf(ds, j) \in Nat
  BY Offsets
<1>4. ASSUME NEW p \in 1 .. Len(DescriptorBytes(ds[j + 1])),
             at + OffsetOf(ds, j) + p <= Len(bytes)
      PROVE  bytes[at + OffsetOf(ds, j) + p] = DescriptorBytes(ds[j + 1])[p]
  <2>1. Len(ds) \in j + 1 .. Len(Parts(ds)) /\ p \in 1 .. Len(Parts(ds)[j + 1])
    BY <1>1, <1>2
  <2>2. /\ OffsetOf(ds, j) + p \in 1 .. Len(DescriptorsBytes(ds))
        /\ DescriptorsBytes(ds)[OffsetOf(ds, j) + p] = DescriptorBytes(ds[j + 1])[p]
    <3> DEFINE ss == Parts(ds)
               all == Len(ds)
    <3>1. all \in j + 1 .. Len(ss) /\ p \in 1 .. Len(ss[j + 1]) /\ ss \in Seq(Seq(Byte))
      BY <1>1, <2>1
    <3> HIDE DEF ss, all
    <3>2. /\ Len(Flat(ss, j)) + p \in 1 .. Len(Flat(ss, all))
          /\ Flat(ss, all)[Len(Flat(ss, j)) + p] = ss[j + 1][p]
      BY ONLY j \in Nat, <3>1, FlatItem
    <3> QED
      BY <1>1, <1>2, <3>2 DEF OffsetOf, ss, all
  <2>3. at + OffsetOf(ds, j) + p = at + (OffsetOf(ds, j) + p)
    BY <1>3
  <2> QED
    BY <1>4, <2>2, <2>3 DEF ReadsAs
<1> QED
  BY <1>4 DEF ReadsAs

\* A list that is read where it was put ends behind its last descriptor, if all
\* of it is there and each is short enough.
LEMMA DescriptorsHere ==
    ASSUME NEW bytes \in Seq(Byte), NEW at \in Nat, at <= Len(bytes),
           NEW ds, IsWire(ds), ReadsAs(bytes, at, DescriptorsBytes(ds)),
           NEW j \in 0 .. Len(ds)
    PROVE  DescriptorsEnd(bytes, at, j) =
             IF /\ \A i \in 1 .. j : Short(ds[i])
                /\ at + OffsetOf(ds, j) <= Len(bytes)
             THEN at + OffsetOf(ds, j) ELSE Error
<1> DEFINE Good(n) == /\ \A i \in 1 .. n : Short(ds[i])
                      /\ at + OffsetOf(ds, n) <= Len(bytes)
           P(n) == DescriptorsEnd(bytes, at, n) = IF Good(n) THEN at + OffsetOf(ds, n) ELSE Error
           T == { n \in Nat : n <= Len(ds) => P(n) }
<1>1. 0 \in T
  <2>1. OffsetOf(ds, 0) = 0
    BY FlatNone DEF OffsetOf
  <2> QED
    BY <2>1, EndNone
<1>2. ASSUME NEW n \in Nat, n \in T
      PROVE  n + 1 \in T
  <2>1. SUFFICES ASSUME n + 1 <= Len(ds) PROVE P(n + 1)
    OBVIOUS
  <2>2. Len(ds) \in Nat /\ n < Len(ds) /\ n <= Len(ds) /\ n + 1 \in 1 .. Len(ds)
    BY <2>1, PartsType
  <2>3. DescriptorsEnd(bytes, at, n) = IF Good(n) THEN at + OffsetOf(ds, n) ELSE Error
    BY <1>2, <2>2
  <2>4. DescriptorsEnd(bytes, at, n + 1) = BehindOne(bytes, DescriptorsEnd(bytes, at, n))
    BY EndNext
  <2>5. /\ OffsetOf(ds, n) \in Nat /\ Len(DescriptorBytes(ds[n + 1])) \in Nat
        /\ OffsetOf(ds, n + 1) = OffsetOf(ds, n) + Len(DescriptorBytes(ds[n + 1]))
    BY <2>2, Offsets
  <2>6. Len(bytes) \in Nat
    OBVIOUS
  <2>7. Good(n + 1) => Good(n) /\ Short(ds[n + 1])
    <3>1. \A i \in 1 .. n : i \in 1 .. n + 1
      OBVIOUS
    <3>2. n + 1 \in 1 .. n + 1
      OBVIOUS
    <3>3. at + OffsetOf(ds, n + 1) <= Len(bytes) => at + OffsetOf(ds, n) <= Len(bytes)
      BY <2>5, <2>6
    <3> QED
      BY <3>1, <3>2, <3>3
  <2>8. CASE Good(n)
    <3> DEFINE here == at + OffsetOf(ds, n)
               end == here + Len(DescriptorBytes(ds[n + 1]))
    <3>1. here \in Nat /\ here # Error /\ end = at + OffsetOf(ds, n + 1)
      BY <2>5 DEF Error
    <3>2. ReadsAs(bytes, here, DescriptorBytes(ds[n + 1]))
      BY <2>2, <2>6, ReadsEach
    <3>3. ds[n + 1] \in Descriptor /\ Len(ds[n + 1].data) \in Word
      BY <2>2, PartsType
    <3>4. DescriptorEnd(bytes, here) =
             IF Short(ds[n + 1]) /\ end <= Len(bytes) THEN end ELSE Error
      BY <3>1, <3>2, <3>3, DescriptorHere DEF Short
    <3>5. DescriptorsEnd(bytes, at, n + 1) = DescriptorEnd(bytes, here)
      BY <2>3, <2>4, <2>8, <3>1 DEF BehindOne
    <3>6. Good(n + 1) <=> Short(ds[n + 1]) /\ end <= Len(bytes)
      <4>1. \A i \in 1 .. n + 1 : i \in 1 .. n \/ i = n + 1
        OBVIOUS
      <4> QED
        BY <2>7, <2>8, <3>1, <4>1
    <3> QED
      BY <3>1, <3>4, <3>5, <3>6
  <2>9. CASE ~Good(n)
    BY <2>3, <2>4, <2>7, <2>9 DEF BehindOne
  <2> QED
    BY <2>8, <2>9
<1> HIDE DEF T
<1>3. Nat \subseteq T
  BY <1>1, <1>2, Induction
<1>4. Len(ds) \in Nat
  BY PartsType
<1> QED
  BY <1>3, <1>4 DEF T

-----------------------------------------------------------------------------
(* The bytes of a device and of a portion.                                 *)

IsWireDevice(d) ==
    d \in DownstreamDevice /\ IsWire(d.descriptors) /\ Len(d.descriptors) \in Byte

LEMMA DeviceBytesAre ==
    ASSUME NEW d, IsWireDevice(d)
    PROVE  /\ DeviceBytes(d) \in Seq(Byte)
           /\ DescriptorsBytes(d.descriptors) \in Seq(Byte)
           /\ Len(DeviceBytes(d)) = DEVICE_HEADER + Len(DescriptorsBytes(d.descriptors))
           /\ U16(DeviceBytes(d), 0) = d.index
           /\ DeviceBytes(d)[3] = Len(d.descriptors)
           /\ \A p \in 1 .. Len(DescriptorsBytes(d.descriptors)) :
                 DeviceBytes(d)[DEVICE_HEADER + p] = DescriptorsBytes(d.descriptors)[p]
<1>1. PICK index \in Word : index = d.index
  BY DEF IsWireDevice, DownstreamDevice
<1>2. PICK count \in Byte : count = Len(d.descriptors)
  BY DEF IsWireDevice
<1>3. PICK rest \in Seq(Byte) : rest = DescriptorsBytes(d.descriptors)
  BY PartsType DEF IsWireDevice
<1> DEFINE t == LowHigh(index)
           h == t \o <<count>>
           w == h \o rest
<1>4. t \in Seq(Byte) /\ Len(t) = 2 /\ t[1] + 256 * t[2] = index
  BY LowHighIs
<1>5. DeviceBytes(d) = w
  BY <1>1, <1>2, <1>3 DEF DeviceBytes
<1> HIDE DEF t
<1>6. h \in Seq(Byte) /\ Len(h) = 2 + 1 /\ h[1] = t[1] /\ h[2] = t[2] /\ h[2 + 1] = count
  <2>1. <<count>> \in Seq(Byte) /\ Len(<<count>>) = 1 /\ <<count>>[1] = count
    OBVIOUS
  <2> QED
    <3>1. IsJoin(h, t, <<count>>)
      BY <1>4, <2>1, Joined
    <3> HIDE DEF h
    <3> QED
      BY <1>4, <2>1, <3>1 DEF IsJoin
<1> HIDE DEF h
<1>7. /\ w \in Seq(Byte) /\ Len(w) = 3 + Len(rest)
      /\ w[1] = h[1] /\ w[2] = h[2] /\ w[3] = h[3]
      /\ \A p \in 1 .. Len(rest) : w[3 + p] = rest[p]
  <2>1. IsJoin(w, h, rest)
    BY <1>6, Joined
  <2> HIDE DEF w
  <2> QED
    BY <1>6, <2>1 DEF IsJoin
<1> HIDE DEF w
<1>8. 0 + 1 = 1 /\ 0 + 2 = 2 /\ 2 + 1 = 3
  OBVIOUS
<1> QED
  BY <1>1, <1>2, <1>3, <1>4, <1>5, <1>6, <1>7, <1>8 DEF U16, DEVICE_HEADER

IsListing(l) ==
    /\ l \in Seq(DownstreamDevice) /\ Len(l) \in Word
    /\ \A i \in DOMAIN l : IsWireDevice(l[i])

\* What a portion can be made of is on the wire as it was meant.
LEMMA ListingsAre ==
    ASSUME NEW l \in Listings
    PROVE  IsListing(l)
<1>1. /\ l \in Seq(DownstreamDevice) /\ Len(l) \in Word
      /\ \A i \in DOMAIN l :
            /\ Len(l[i].descriptors) \in Byte
            /\ \A j \in DOMAIN l[i].descriptors : Len(l[i].descriptors[j].data) \in Word
  BY ListingAssumption
<1>2. \A i \in DOMAIN l : l[i] \in DownstreamDevice
  BY <1>1
<1>3. \A i \in DOMAIN l : l[i].descriptors \in Seq(Descriptor)
  BY <1>2 DEF DownstreamDevice
<1> QED
  BY <1>1, <1>2, <1>3 DEF IsListing, IsWireDevice, IsWire

Pieces(l) == [i \in DOMAIN l |-> DeviceBytes(l[i])]

\* Where in the portion the devices behind the first k begin.
PlaceOf(l, k) == PORTION_HEADER + Len(Flat(Pieces(l), k))

LEMMA PiecesType ==
    ASSUME NEW l, IsListing(l)
    PROVE  /\ Len(l) \in Nat /\ DOMAIN l = 1 .. Len(l)
           /\ Pieces(l) \in Seq(Seq(Byte)) /\ Len(Pieces(l)) = Len(l)
           /\ \A i \in 1 .. Len(l) : /\ IsWireDevice(l[i])
                                     /\ Pieces(l)[i] = DeviceBytes(l[i])
                                     /\ DeviceBytes(l[i]) \in Seq(Byte)
           /\ DevicesBytes(l) = Flat(Pieces(l), Len(l))
           /\ DevicesBytes(l) \in Seq(Byte)
<1>1. l \in Seq(DownstreamDevice) /\ \A i \in DOMAIN l : IsWireDevice(l[i])
  BY DEF IsListing
<1>2. Len(l) \in Nat /\ DOMAIN l = 1 .. Len(l)
  BY <1>1
<1>3. \A i \in 1 .. Len(l) : DeviceBytes(l[i]) \in Seq(Byte)
  BY <1>1, <1>2, DeviceBytesAre
<1>4. Pieces(l) = [i \in 1 .. Len(l) |-> DeviceBytes(l[i])]
  BY <1>2 DEF Pieces
<1>5. Pieces(l) \in [1 .. Len(l) -> Seq(Byte)]
  BY <1>3, <1>4
<1>6. Pieces(l) \in Seq(Seq(Byte)) /\ Len(Pieces(l)) = Len(l)
  BY <1>2, <1>5, SeqDef
<1>7. DevicesBytes(l) = Flat(Pieces(l), Len(l))
  BY <1>6, FlatAll DEF DevicesBytes, Pieces
<1>8. DevicesBytes(l) \in Seq(Byte)
  BY <1>2, <1>6, <1>7, FlatType
<1> QED
  BY <1>1, <1>2, <1>3, <1>4, <1>6, <1>7, <1>8

\* The header of a portion, and the devices behind it.
LEMMA PortionBytesAre ==
    ASSUME NEW l, Len(l) \in Word, DevicesBytes(l) \in Seq(Byte)
    PROVE  /\ PortionBytes(l) \in Seq(Byte)
           /\ Len(PortionBytes(l)) = PORTION_HEADER + Len(DevicesBytes(l))
           /\ U16(PortionBytes(l), 4) = Len(l)
           /\ \A p \in 1 .. Len(DevicesBytes(l)) :
                 PortionBytes(l)[PORTION_HEADER + p] = DevicesBytes(l)[p]
<1>1. PICK count \in Word : count = Len(l)
  OBVIOUS
<1>2. PICK rest \in Seq(Byte) : rest = DevicesBytes(l)
  OBVIOUS
<1> DEFINE z == <<0, 0, 0, 0>>
           c == LowHigh(count)
           h == z \o c
           w == h \o rest
<1>3. PortionBytes(l) = w
  BY <1>1, <1>2 DEF PortionBytes
<1>4. c \in Seq(Byte) /\ Len(c) = 2 /\ c[1] + 256 * c[2] = count
  BY LowHighIs
<1>5. z \in Seq(Byte) /\ Len(z) = 4
  BY DEF Byte
<1> HIDE DEF z, c
<1>6. h \in Seq(Byte) /\ Len(h) = 4 + 2 /\ h[4 + 1] = c[1] /\ h[4 + 2] = c[2]
  <2>1. IsJoin(h, z, c)
    BY <1>4, <1>5, Joined
  <2> HIDE DEF h
  <2> QED
    BY <1>4, <1>5, <2>1 DEF IsJoin
<1> HIDE DEF h
<1>7. /\ w \in Seq(Byte) /\ Len(w) = 6 + Len(rest)
      /\ w[5] = h[5] /\ w[6] = h[6]
      /\ \A p \in 1 .. Len(rest) : w[6 + p] = rest[p]
  <2>1. IsJoin(w, h, rest)
    BY <1>6, Joined
  <2> HIDE DEF w
  <2> QED
    BY <1>6, <2>1 DEF IsJoin
<1> HIDE DEF w
<1>8. 4 + 1 = 5 /\ 4 + 2 = 6
  OBVIOUS
<1> QED
  BY <1>1, <1>2, <1>3, <1>4, <1>6, <1>7, <1>8 DEF U16, PORTION_HEADER

-----------------------------------------------------------------------------
(* What next makes of a portion.                                           *)

\* A portion of a list of devices: the bytes are those of the list as far as
\* both reach.
IsPortion(b, l) ==
    IsListing(l) /\ b \in Seq(Byte) /\ ReadsAs(b, 0, PortionBytes(l))

LEMMA Places ==
    ASSUME NEW l, IsListing(l)
    PROVE  /\ PlaceOf(l, 0) = PORTION_HEADER
           /\ \A k \in 0 .. Len(l) : PlaceOf(l, k) \in Nat /\ PORTION_HEADER <= PlaceOf(l, k)
           /\ \A k \in 0 .. Len(l) : \A j \in k .. Len(l) : PlaceOf(l, k) <= PlaceOf(l, j)
<1>1. Len(l) \in Nat /\ Pieces(l) \in Seq(Seq(Byte)) /\ Len(Pieces(l)) = Len(l)
  BY PiecesType
<1>2. \A k \in 0 .. Len(l) : Len(Flat(Pieces(l), k)) \in Nat
  BY <1>1, FlatType, LenProperties
<1>3. \A k \in 0 .. Len(l) : \A j \in k .. Len(l) :
          Len(Flat(Pieces(l), k)) <= Len(Flat(Pieces(l), j))
  BY <1>1, FlatPrefix
<1>4. Len(Flat(Pieces(l), 0)) = 0
  BY FlatNone
<1>5. \A k \in 0 .. Len(l) : \A j \in k .. Len(l) : j \in 0 .. Len(l)
  BY <1>1
<1> QED
  BY <1>2, <1>3, <1>4, <1>5 DEF PlaceOf, PORTION_HEADER

\* A device takes its bytes.
LEMMA PlaceNext ==
    ASSUME NEW l, IsListing(l), NEW k \in Nat, k < Len(l)
    PROVE  /\ PlaceOf(l, k + 1) = PlaceOf(l, k) + Len(DeviceBytes(l[k + 1]))
           /\ Len(DeviceBytes(l[k + 1])) \in Nat
<1>1. Len(l) \in Nat /\ Pieces(l) \in Seq(Seq(Byte)) /\ Len(Pieces(l)) = Len(l)
  BY PiecesType
<1>2. k \in 0 .. Len(l) /\ k + 1 \in 1 .. Len(l) /\ k < Len(Pieces(l)) /\ k \in 0 .. Len(Pieces(l))
  BY <1>1
<1>3. Pieces(l)[k + 1] = DeviceBytes(l[k + 1]) /\ DeviceBytes(l[k + 1]) \in Seq(Byte)
  BY <1>2, PiecesType
<1>4. Flat(Pieces(l), k) \in Seq(Byte)
  BY <1>1, <1>2, FlatType
<1>5. Flat(Pieces(l), k + 1) = Flat(Pieces(l), k) \o DeviceBytes(l[k + 1])
  BY <1>1, <1>2, <1>3, FlatNext
<1>6. Len(Flat(Pieces(l), k + 1)) = Len(Flat(Pieces(l), k)) + Len(DeviceBytes(l[k + 1]))
  BY <1>3, <1>4, <1>5, ConcatProperties
<1>7. Len(Flat(Pieces(l), k)) \in Nat /\ Len(DeviceBytes(l[k + 1])) \in Nat
  BY <1>3, <1>4, LenProperties
<1> QED
  BY <1>6, <1>7 DEF PlaceOf, PORTION_HEADER

\* A portion of the first n devices ends where the next one would begin.
LEMMA PlaceIs ==
    ASSUME NEW l, IsListing(l), NEW n \in 0 .. Len(l)
    PROVE  Len(PortionBytes(SubSeq(l, 1, n))) = PlaceOf(l, n)
<1> DEFINE s == SubSeq(l, 1, n)
<1>1. l \in Seq(DownstreamDevice) /\ Len(l) \in Nat /\ Len(l) \in Word /\ DOMAIN l = 1 .. Len(l)
  BY PiecesType DEF IsListing
<1>2. /\ s \in Seq(DownstreamDevice) /\ Len(s) = n
      /\ \A i \in 1 .. n : s[i] = l[i]
  <2>1. \A i \in 1 .. n : l[i] \in DownstreamDevice
    BY <1>1
  <2>2. /\ s \in Seq(DownstreamDevice)
        /\ Len(s) = (IF 1 <= n THEN n - 1 + 1 ELSE 0)
        /\ \A i \in 1 .. n - 1 + 1 : s[i] = l[1 + i - 1]
    BY <1>1, <2>1, 1 \in Int, n \in Int, SubSeqProperties
  <2>3. n - 1 + 1 = n /\ (IF 1 <= n THEN n - 1 + 1 ELSE 0) = n /\ \A i \in 1 .. n : 1 + i - 1 = i
    BY <1>1
  <2> HIDE DEF s
  <2> QED
    BY <2>2, <2>3
<1> HIDE DEF s
<1>3. DOMAIN s = 1 .. n /\ Len(s) \in Word
  BY <1>1, <1>2 DEF Word
<1>4. \A i \in 1 .. n : i \in DOMAIN l
  BY <1>1
<1>5. [i \in DOMAIN s |-> DeviceBytes(s[i])] = [i \in 1 .. n |-> Pieces(l)[i]]
  BY <1>2, <1>3, <1>4 DEF Pieces
<1>6. DevicesBytes(s) = Flat(Pieces(l), n)
  BY <1>5 DEF DevicesBytes, Flat
<1>7. DevicesBytes(s) \in Seq(Byte)
  BY <1>1, <1>6, PiecesType, FlatType
<1>8. Len(PortionBytes(s)) = PORTION_HEADER + Len(DevicesBytes(s))
  BY <1>3, <1>7, PortionBytesAre
<1> QED
  BY <1>6, <1>8 DEF PlaceOf, s

\* Each device of the list is read at its place.
LEMMA ReadsDevice ==
    ASSUME NEW b, NEW l, IsPortion(b, l), NEW k \in Nat, k < Len(l)
    PROVE  ReadsAs(b, PlaceOf(l, k), DeviceBytes(l[k + 1]))
<1>1. IsListing(l) /\ b \in Seq(Byte) /\ ReadsAs(b, 0, PortionBytes(l))
  BY DEF IsPortion
<1>2. /\ Len(l) \in Nat /\ Pieces(l) \in Seq(Seq(Byte)) /\ Len(Pieces(l)) = Len(l)
      /\ DevicesBytes(l) = Flat(Pieces(l), Len(l)) /\ DevicesBytes(l) \in Seq(Byte)
  BY <1>1, PiecesType
<1>3. Pieces(l)[k + 1] = DeviceBytes(l[k + 1])
  <2>1. k + 1 \in 1 .. Len(l)
    BY <1>2
  <2> QED
    BY <1>1, <2>1, PiecesType
<1>4. /\ Len(PortionBytes(l)) = PORTION_HEADER + Len(DevicesBytes(l))
      /\ \A p \in 1 .. Len(DevicesBytes(l)) :
            PortionBytes(l)[PORTION_HEADER + p] = DevicesBytes(l)[p]
  BY <1>1, <1>2, PortionBytesAre DEF IsListing
<1> DEFINE before == Len(Flat(Pieces(l), k))
<1>5. before \in Nat /\ Len(DevicesBytes(l)) \in Nat
  BY <1>2, FlatType, LenProperties
<1>6. ASSUME NEW p \in 1 .. Len(DeviceBytes(l[k + 1])), PlaceOf(l, k) + p <= Len(b)
      PROVE  b[PlaceOf(l, k) + p] = DeviceBytes(l[k + 1])[p]
  <2> DEFINE ss == Pieces(l)
             all == Len(l)
  <2>1. all \in k + 1 .. Len(ss) /\ p \in 1 .. Len(ss[k + 1]) /\ ss \in Seq(Seq(Byte))
    BY <1>2, <1>3
  <2> HIDE DEF ss, all
  <2>2. /\ Len(Flat(ss, k)) + p \in 1 .. Len(Flat(ss, all))
        /\ Flat(ss, all)[Len(Flat(ss, k)) + p] = ss[k + 1][p]
    BY ONLY k \in Nat, <2>1, FlatItem
  <2>3. /\ before + p \in 1 .. Len(DevicesBytes(l))
        /\ DevicesBytes(l)[before + p] = DeviceBytes(l[k + 1])[p]
    BY <1>2, <1>3, <2>2 DEF ss, all
  <2> DEFINE q == before + p
             at == PORTION_HEADER + q
  <2> HIDE DEF before
  <2>4. q \in 1 .. Len(DevicesBytes(l)) /\ at \in 1 .. Len(PortionBytes(l)) /\ 0 + at = at
    BY <1>4, <1>5, <2>3 DEF PORTION_HEADER
  <2>5. PlaceOf(l, k) + p = at
    BY <1>5 DEF PlaceOf, before, PORTION_HEADER
  <2>6. b[0 + at] = PortionBytes(l)[at]
    BY <1>1, <1>6, <2>4, <2>5 DEF ReadsAs
  <2> QED
    BY <1>4, <2>3, <2>4, <2>5, <2>6
<1> QED
  BY <1>6 DEF ReadsAs

\* The number of devices in the header, if the header is there.
LEMMA ReadsCount ==
    ASSUME NEW b, NEW l, IsPortion(b, l), PORTION_HEADER <= Len(b)
    PROVE  U16(b, 4) = Len(l)
<1>1. IsListing(l) /\ b \in Seq(Byte) /\ ReadsAs(b, 0, PortionBytes(l))
  BY DEF IsPortion
<1>2. Len(l) \in Word /\ DevicesBytes(l) \in Seq(Byte)
  BY <1>1, PiecesType DEF IsListing
<1>3. /\ Len(PortionBytes(l)) = PORTION_HEADER + Len(DevicesBytes(l))
      /\ U16(PortionBytes(l), 4) = Len(l)
  BY <1>2, PortionBytesAre
<1>4. Len(DevicesBytes(l)) \in Nat /\ Len(b) \in Nat
  BY <1>1, <1>2
<1>5. \A p \in 1 .. 6 : p \in 1 .. Len(PortionBytes(l)) /\ 0 + p <= Len(b) /\ 0 + p = p
  BY ONLY <1>3, <1>4, PORTION_HEADER <= Len(b) DEF PORTION_HEADER
<1>6. \A p \in 1 .. 6 : b[p] = PortionBytes(l)[p]
  BY <1>1, <1>5 DEF ReadsAs
<1>7. b[4 + 1] = PortionBytes(l)[4 + 1] /\ b[4 + 2] = PortionBytes(l)[4 + 2]
  BY <1>6
<1> QED
  BY <1>3, <1>7 DEF U16

DeviceOf(d) ==
    Device("portion", d.index, Len(d.descriptors), DescriptorsBytes(d.descriptors))

\* The iterator in front of the device behind the first k.
PositionOf(l, k) == At(k, IF k = 0 THEN 0 ELSE PlaceOf(l, k))

Fits(b, l, k) == PlaceOf(l, k) <= Len(b) /\ Decodes(l[k])

\* The header of a device and its descriptors, read at its place.
LEMMA DeviceHere ==
    ASSUME NEW b, NEW l, IsPortion(b, l), NEW k \in Nat, k < Len(l),
           PlaceOf(l, k) + DEVICE_HEADER <= Len(b)
    PROVE  LET at == PlaceOf(l, k)
               ds == l[k + 1].descriptors
               end == PlaceOf(l, k + 1)
           IN  /\ U16(b, at) = l[k + 1].index
               /\ b[at + 3] = Len(ds)
               /\ DescriptorsEnd(b, at + DEVICE_HEADER, Len(ds)) =
                      IF Fits(b, l, k + 1) THEN end ELSE Error
               /\ end <= Len(b) => SubSeq(b, at + DEVICE_HEADER + 1, end) = DescriptorsBytes(ds)
<1> DEFINE at == PlaceOf(l, k)
           d == l[k + 1]
           end == PlaceOf(l, k + 1)
<1>1. IsListing(l) /\ b \in Seq(Byte) /\ Len(b) \in Nat /\ at \in Nat
  <2>1. IsListing(l) /\ b \in Seq(Byte)
    BY DEF IsPortion
  <2>2. Len(l) \in Nat
    BY <2>1, PiecesType
  <2>3. k \in 0 .. Len(l)
    BY <2>2
  <2> QED
    BY <2>1, <2>3, Places
<1>2. IsWireDevice(d)
  <2>1. Len(l) \in Nat
    BY <1>1, PiecesType
  <2>2. k + 1 \in 1 .. Len(l)
    BY <2>1
  <2> QED
    BY <1>1, <2>2, PiecesType
<1>3. ReadsAs(b, at, DeviceBytes(d))
  BY ReadsDevice
<1>4. PICK ds : ds = d.descriptors
  OBVIOUS
<1>5. IsWire(ds) /\ Len(ds) \in Nat
  BY <1>2, <1>4, PartsType DEF IsWireDevice
<1>6. PICK item : item = DeviceBytes(d)
  OBVIOUS
<1>7. PICK rest \in Seq(Byte) : rest = DescriptorsBytes(ds)
  BY <1>5, PartsType
<1>8. /\ Len(item) = 3 + Len(rest) /\ Len(rest) \in Nat
      /\ item[0 + 1] + 256 * item[0 + 2] = d.index
      /\ item[3] = Len(ds)
      /\ \A p \in 1 .. Len(rest) : item[3 + p] = rest[p]
  BY <1>2, <1>4, <1>6, <1>7, DeviceBytesAre, LenProperties DEF DEVICE_HEADER,
     U16
<1>9. end = at + Len(item)
  BY <1>1, <1>6, PlaceNext
<1>10. at + 3 <= Len(b)
  BY DEF DEVICE_HEADER
<1> HIDE DEF at, d, end
<1>11. \A p \in 1 .. Len(item) : at + p <= Len(b) => b[at + p] = item[p]
  BY <1>3, <1>6 DEF ReadsAs
<1>12. b[at + 1] = item[0 + 1] /\ b[at + 2] = item[0 + 2] /\ b[at + 3] = item[3]
  <2>1. \A p \in 1 .. 3 : p \in 1 .. Len(item) /\ at + p <= Len(b)
    BY ONLY <1>1, <1>8, <1>10
  <2> QED
    BY <1>11, <2>1
<1>13. U16(b, at) = d.index /\ b[at + 3] = Len(ds)
  BY <1>8, <1>12 DEF U16
<1>14. ASSUME NEW p \in 1 .. Len(rest), at + 3 + p <= Len(b)
       PROVE  b[at + 3 + p] = rest[p]
  <2>1. 3 + p \in 1 .. Len(item) /\ at + (3 + p) <= Len(b) /\ at + (3 + p) = at + 3 + p
    BY <1>1, <1>8, <1>14
  <2> QED
    BY <1>8, <1>11, <2>1
<1>15. ReadsAs(b, at + 3, rest)
  BY <1>14 DEF ReadsAs
<1>16. DescriptorsEnd(b, at + 3, Len(ds)) = IF Fits(b, l, k + 1) THEN end ELSE Error
  <2>1. at + 3 + OffsetOf(ds, Len(ds)) = end
    <3>1. OffsetOf(ds, Len(ds)) = Len(rest)
      BY <1>5, <1>7, PartsType DEF OffsetOf
    <3> QED
      BY <1>1, <1>8, <1>9, <3>1
  <2>2. DescriptorsEnd(b, at + 3, Len(ds)) =
           IF (\A i \in 1 .. Len(ds) : Short(ds[i])) /\ at + 3 + OffsetOf(ds, Len(ds)) <= Len(b)
           THEN at + 3 + OffsetOf(ds, Len(ds)) ELSE Error
    <3>1. at + 3 \in Nat /\ Len(ds) \in 0 .. Len(ds)
      BY <1>1, <1>5
    <3> QED
      BY <1>1, <1>5, <1>7, <1>10, <1>15, <3>1, DescriptorsHere
  <2>3. (\A i \in 1 .. Len(ds) : Short(ds[i])) <=> Decodes(d)
    <3>1. DOMAIN ds = 1 .. Len(ds)
      BY <1>5, PartsType
    <3> QED
      BY <1>4, <3>1 DEF Decodes, Short
  <2> QED
    BY <2>1, <2>2, <2>3 DEF Fits, end, d
<1>17. ASSUME end <= Len(b)
       PROVE  SubSeq(b, at + 3 + 1, end) = rest
  <2> DEFINE r == SubSeq(b, at + 3 + 1, end)
  <2>1. end = at + 3 + Len(rest) /\ end \in Nat
    BY <1>1, <1>8, <1>9
  <2>2. \A i \in at + 3 + 1 .. end : b[i] \in Byte
    BY <1>1, <1>17, <2>1
  <2>3. /\ r \in Seq(Byte) /\ Len(r) = (IF at + 3 + 1 <= end THEN end - (at + 3 + 1) + 1 ELSE 0)
        /\ \A i \in 1 .. end - (at + 3 + 1) + 1 : r[i] = b[at + 3 + 1 + i - 1]
    BY <1>1, <2>1, <2>2, at + 3 + 1 \in Int, end \in Int, SubSeqProperties
  <2> HIDE DEF r
  <2>4. /\ (IF at + 3 + 1 <= end THEN end - (at + 3 + 1) + 1 ELSE 0) = Len(rest)
        /\ end - (at + 3 + 1) + 1 = Len(rest)
        /\ \A i \in 1 .. Len(rest) : at + 3 + 1 + i - 1 = at + 3 + i /\ at + 3 + i <= Len(b)
    BY <1>1, <1>8, <1>17, <2>1
  <2>5. \A i \in 1 .. Len(rest) : r[i] = rest[i]
    BY <1>14, <2>3, <2>4
  <2>6. r = rest
    BY <2>3, <2>4, <2>5, SeqEqual
  <2> QED
    BY <2>6 DEF r
<1> QED
  BY <1>4, <1>7, <1>13, <1>16, <1>17 DEF DEVICE_HEADER, at, d, end

\* next returns the device it is in front of and moves behind it, if it is all
\* there; else it returns None and only the end of the list moves it.
LEMMA StepsOn ==
    ASSUME NEW b, NEW l, IsPortion(b, l), NEW k \in 0 .. Len(l)
    PROVE  LET step == StepFrom(b, PositionOf(l, k))
           IN  IF k < Len(l) /\ Fits(b, l, k + 1)
               THEN step = Step(DeviceOf(l[k + 1]), PositionOf(l, k + 1))
               ELSE /\ step.device = None
                    /\ step.position = IF k = Len(l) /\ PORTION_HEADER <= Len(b)
                                       THEN Start ELSE PositionOf(l, k)
<1> DEFINE pos == PositionOf(l, k)
           at == PlaceOf(l, k)
           count == b[at + 3]
           end == DescriptorsEnd(b, at + DEVICE_HEADER, count)
<1>1. IsListing(l) /\ b \in Seq(Byte) /\ Len(b) \in Nat /\ Len(l) \in Nat
  BY PiecesType DEF IsPortion
<1>2. at \in Nat /\ PORTION_HEADER <= at /\ DeviceAt(pos) = at /\ pos.current = k
  BY <1>1, Places DEF DeviceAt, PositionOf, At
<1>3. StepFrom(b, pos) =
         IF Len(b) < PORTION_HEADER THEN Step(None, pos)
         ELSE IF AtEnd(b, pos) THEN Step(None, Start)
         ELSE IF at + DEVICE_HEADER > Len(b) \/ end = Error THEN Step(None, pos)
         ELSE Step(Device("portion", U16(b, at), count, SubSeq(b, at + DEVICE_HEADER + 1, end)),
                   At(k + 1, end))
  BY <1>2 DEF StepFrom
<1>4. k < Len(l) => /\ PlaceOf(l, k + 1) = at + Len(DeviceBytes(l[k + 1]))
                    /\ Len(DeviceBytes(l[k + 1])) \in Nat
                    /\ at + DEVICE_HEADER <= PlaceOf(l, k + 1) /\ PlaceOf(l, k + 1) \in Nat
  <2>1. SUFFICES ASSUME k < Len(l)
                 PROVE  /\ PlaceOf(l, k + 1) = at + Len(DeviceBytes(l[k + 1]))
                        /\ Len(DeviceBytes(l[k + 1])) \in Nat
                        /\ at + DEVICE_HEADER <= PlaceOf(l, k + 1) /\ PlaceOf(l, k + 1) \in Nat
    OBVIOUS
  <2>2. /\ PlaceOf(l, k + 1) = at + Len(DeviceBytes(l[k + 1]))
        /\ Len(DeviceBytes(l[k + 1])) \in Nat
    BY <1>1, <2>1, PlaceNext
  <2>3. k + 1 \in 1 .. Len(l)
    BY <1>1, <2>1
  <2>4. IsWireDevice(l[k + 1])
    BY <1>1, <2>3, PiecesType
  <2>5. PICK rest \in Seq(Byte) : rest = DescriptorsBytes(l[k + 1].descriptors)
    BY <2>4, DeviceBytesAre
  <2>6. Len(DeviceBytes(l[k + 1])) = DEVICE_HEADER + Len(rest) /\ Len(rest) \in Nat
    BY <2>4, <2>5, DeviceBytesAre
  <2> HIDE DEF at
  <2> QED
    BY <1>2, <2>2, <2>6 DEF DEVICE_HEADER
<1> HIDE DEF pos, at, count, end
<1>5. CASE Len(b) < PORTION_HEADER
  <2>1. ~(k < Len(l) /\ Fits(b, l, k + 1))
    <3>1. SUFFICES ASSUME k < Len(l), Fits(b, l, k + 1) PROVE FALSE
      OBVIOUS
    <3>2. PlaceOf(l, k + 1) <= Len(b)
      BY <3>1 DEF Fits
    <3> QED
      BY <1>1, <1>2, <1>4, <1>5, <3>1, <3>2 DEF PORTION_HEADER, DEVICE_HEADER
  <2>2. ~(PORTION_HEADER <= Len(b))
    BY <1>1, <1>5 DEF PORTION_HEADER
  <2> QED
    BY <1>3, <1>5, <2>1, <2>2 DEF Step, pos
<1>6. CASE PORTION_HEADER <= Len(b)
  <2>1. ~(Len(b) < PORTION_HEADER)
    BY <1>1, <1>6 DEF PORTION_HEADER
  <2>2. AtEnd(b, pos) <=> k = Len(l)
    BY <1>1, <1>2, <1>6, ReadsCount DEF AtEnd
  <2>3. CASE k = Len(l)
    BY <1>1, <1>3, <1>6, <2>1, <2>2, <2>3 DEF Step, pos
  <2>4. CASE k # Len(l)
    <3>1. k < Len(l)
      BY <1>1, <2>4
    <3>2. CASE at + DEVICE_HEADER > Len(b)
      <4>1. ~Fits(b, l, k + 1)
        BY <1>1, <1>2, <1>4, <3>1, <3>2 DEF Fits, DEVICE_HEADER
      <4> QED
        BY <1>3, <2>1, <2>2, <2>4, <3>2, <4>1 DEF Step, pos
    <3>3. CASE at + DEVICE_HEADER <= Len(b)
      <4>1. ~(at + DEVICE_HEADER > Len(b))
        BY <1>1, <1>2, <3>3 DEF DEVICE_HEADER
      <4>2. /\ U16(b, at) = l[k + 1].index
            /\ count = Len(l[k + 1].descriptors)
            /\ end = IF Fits(b, l, k + 1) THEN PlaceOf(l, k + 1) ELSE Error
            /\ PlaceOf(l, k + 1) <= Len(b) =>
                  SubSeq(b, at + DEVICE_HEADER + 1, PlaceOf(l, k + 1))
                      = DescriptorsBytes(l[k + 1].descriptors)
        BY <3>1, <3>3, DeviceHere DEF at, count, end
      <4>3. CASE Fits(b, l, k + 1)
        <5>1. /\ end = PlaceOf(l, k + 1) /\ end # Error
              /\ SubSeq(b, at + DEVICE_HEADER + 1, end) = DescriptorsBytes(l[k + 1].descriptors)
          BY <1>4, <3>1, <4>2, <4>3 DEF Fits, Error
        <5>2. k + 1 # 0
          OBVIOUS
        <5>3. PositionOf(l, k + 1) = At(k + 1, end)
          BY <5>1, <5>2 DEF PositionOf
        <5> QED
          BY <1>3, <2>1, <2>2, <2>4, <3>1, <4>1, <4>2, <4>3, <5>1, <5>3
             DEF DeviceOf, pos
      <4>4. CASE ~Fits(b, l, k + 1)
        BY <1>3, <2>1, <2>2, <2>4, <4>1, <4>2, <4>4 DEF Step, pos
      <4> QED
        BY <4>3, <4>4
    <3> QED
      BY <1>1, <1>2, <3>2, <3>3 DEF DEVICE_HEADER
  <2> QED
    BY <2>3, <2>4
<1> QED
  BY <1>1, <1>5, <1>6 DEF PORTION_HEADER

-----------------------------------------------------------------------------
(* The devices that have arrived.                                          *)

\* Of the first n devices there is a last one that has arrived with all before it.
LEMMA ArrivedExists ==
    ASSUME NEW n \in Nat
    PROVE  \E m \in 0 .. n : /\ m = 0 \/ Readable(m)
                            /\ \A j \in 0 .. n : j # 0 /\ Readable(j) => j <= m
<1> DEFINE IsLast(m, k) == /\ m = 0 \/ Readable(m)
                           /\ \A j \in 0 .. k : j # 0 /\ Readable(j) => j <= m
           T == { k \in Nat : \E m \in 0 .. k : IsLast(m, k) }
<1>1. 0 \in T
  <2>1. 0 \in 0 .. 0 /\ IsLast(0, 0)
    OBVIOUS
  <2> QED
    BY <2>1
<1>2. ASSUME NEW k \in Nat, k \in T
      PROVE  k + 1 \in T
  <2>1. PICK m \in 0 .. k : IsLast(m, k)
    BY <1>2
  <2>2. CASE Readable(k + 1)
    <3>1. k + 1 \in 0 .. k + 1 /\ IsLast(k + 1, k + 1)
      BY <2>2
    <3> QED
      BY <3>1
  <2>3. CASE ~Readable(k + 1)
    <3>1. \A j \in 0 .. k + 1 : j \in 0 .. k \/ j = k + 1
      OBVIOUS
    <3>2. m \in 0 .. k + 1 /\ IsLast(m, k + 1)
      BY <2>1, <2>3, <3>1
    <3> QED
      BY <3>2
  <2> QED
    BY <2>2, <2>3
<1> HIDE DEF T
<1>3. Nat \subseteq T
  BY <1>1, <1>2, Induction
<1> QED
  BY <1>3 DEF T

\* The devices up to Arrived are those that next can return.
LEMMA ArrivedIs ==
    ASSUME IsPortion(portion, listed)
    PROVE  /\ Arrived \in 0 .. Len(listed) /\ Len(listed) \in Nat
           /\ \A k \in 0 .. Len(listed) : k < Arrived => Fits(portion, listed, k + 1)
           /\ Arrived < Len(listed) => ~Fits(portion, listed, Arrived + 1)
<1> DEFINE IsLast(m) == /\ m = 0 \/ Readable(m)
                        /\ \A j \in 0 .. Len(listed) : j # 0 /\ Readable(j) => j <= m
<1>1. IsListing(listed) /\ Len(portion) \in Nat /\ Len(listed) \in Nat
  BY PiecesType DEF IsPortion
<1>2. Arrived \in 0 .. Len(listed) /\ IsLast(Arrived)
  <2>1. \E m \in 0 .. Len(listed) : IsLast(m)
    BY <1>1, ArrivedExists
  <2>2. Arrived = CHOOSE m \in 0 .. Len(listed) : IsLast(m)
    BY DEF Arrived
  <2> HIDE DEF IsLast
  <2> QED
    BY <2>1, <2>2
<1>3. \A n \in 0 .. Len(listed) :
         Readable(n) <=> /\ PlaceOf(listed, n) <= Len(portion)
                         /\ \A i \in 1 .. n : Decodes(listed[i])
  BY <1>1, PlaceIs DEF Readable
<1>4. ASSUME NEW k \in 0 .. Len(listed), k < Arrived
      PROVE  Fits(portion, listed, k + 1)
  <2>1. /\ Arrived # 0 /\ k + 1 \in 0 .. Len(listed) /\ Arrived \in k + 1 .. Len(listed)
        /\ k + 1 \in 1 .. Arrived
    BY <1>1, <1>2, <1>4
  <2>2. PlaceOf(listed, Arrived) <= Len(portion) /\ Decodes(listed[k + 1])
    BY <1>2, <1>3, <2>1
  <2>3. /\ PlaceOf(listed, k + 1) <= PlaceOf(listed, Arrived)
        /\ PlaceOf(listed, k + 1) \in Nat /\ PlaceOf(listed, Arrived) \in Nat
    BY <1>1, <1>2, <2>1, Places
  <2> QED
    BY <1>1, <2>2, <2>3 DEF Fits
<1>5. ASSUME Arrived < Len(listed), Fits(portion, listed, Arrived + 1)
      PROVE  FALSE
  <2>1. Arrived + 1 \in 0 .. Len(listed) /\ Arrived + 1 # 0 /\ ~(Arrived + 1 <= Arrived)
    BY <1>1, <1>2, <1>5
  <2>2. \A i \in 1 .. Arrived + 1 : i = Arrived + 1 \/ (Arrived # 0 /\ i \in 1 .. Arrived)
    BY <1>2
  <2>3. \A i \in 1 .. Arrived + 1 : Decodes(listed[i])
    BY <1>2, <1>3, <1>5, <2>2 DEF Fits
  <2>4. Readable(Arrived + 1)
    BY <1>3, <1>5, <2>1, <2>3 DEF Fits
  <2> QED
    BY <1>2, <2>1, <2>4
<1> QED
  BY <1>1, <1>2, <1>4, <1>5

\* next by the devices that have arrived.
LEMMA NextIs ==
    ASSUME IsPortion(portion, listed), NEW k \in 0 .. Arrived
    PROVE  LET step == StepFrom(portion, PositionOf(listed, k))
           IN  IF k < Arrived
               THEN step = Step(DeviceOf(listed[k + 1]), PositionOf(listed, k + 1))
               ELSE /\ step.device = None
                    /\ step.position = IF k = Len(listed) /\ PORTION_HEADER <= Len(portion)
                                       THEN Start ELSE PositionOf(listed, k)
<1>1. /\ Arrived \in 0 .. Len(listed) /\ Len(listed) \in Nat /\ k \in 0 .. Len(listed)
      /\ k < Arrived => Fits(portion, listed, k + 1)
      /\ Arrived < Len(listed) => ~Fits(portion, listed, Arrived + 1)
  BY ArrivedIs
<1>2. k < Arrived <=> k < Len(listed) /\ Fits(portion, listed, k + 1)
  <2>1. CASE k < Arrived
    BY <1>1, <2>1
  <2>2. CASE k = Arrived
    BY <1>1, <2>2
  <2> QED
    BY <1>1, <2>1, <2>2
<1> QED
  BY <1>1, <1>2, StepsOn

\* A device is none of the Nones.
LEMMA DeviceOfType ==
    ASSUME NEW d, IsWireDevice(d)
    PROVE  DeviceOf(d) # None
<1>1. PICK index \in Word : index = d.index
  BY DEF IsWireDevice, DownstreamDevice
<1>2. PICK count \in Byte : count = Len(d.descriptors)
  BY DEF IsWireDevice
<1>3. PICK bytes \in Seq(Byte) : bytes = DescriptorsBytes(d.descriptors)
  BY PartsType DEF IsWireDevice
<1>4. bytes \in Seq(Nat)
  <2>1. Byte \subseteq Nat
    BY DEF Byte
  <2> QED
    BY <2>1, SeqMonotonic
<1>5. index \in Nat /\ count \in Nat
  BY DEF Word, Byte
<1>6. DeviceOf(d) = [origin |-> "portion", index |-> index, count |-> count, bytes |-> bytes,
                     iter_count |-> 0, iter_offset |-> 0]
  BY <1>1, <1>2, <1>3 DEF DeviceOf, Device
<1> QED
  BY <1>4, <1>5, <1>6, NoneAssumption

-----------------------------------------------------------------------------
(* What try_at makes of a portion, step by step.                           *)

StepAgain(bytes, s) == IF s.device = None THEN s ELSE StepFrom(bytes, s.position)

StepsIs(bytes, pos, n, f) ==
    f = [i \in 0 .. n |-> IF i = 0 THEN StepFrom(bytes, pos) ELSE StepAgain(bytes, f[i - 1])]

LEMMA StepsExists ==
    ASSUME NEW bytes, NEW pos, NEW n \in Nat
    PROVE  \E f : StepsIs(bytes, pos, n, f)
<1> DEFINE T == { m \in Nat : \E f : StepsIs(bytes, pos, m, f) }
<1>1. 0 \in T
  <2> DEFINE f == [i \in 0 .. 0 |-> StepFrom(bytes, pos)]
  <2>1. \A i \in 0 .. 0 : i = 0
    OBVIOUS
  <2>2. StepsIs(bytes, pos, 0, f)
    BY <2>1 DEF StepsIs
  <2> QED
    BY <2>2
<1>2. ASSUME NEW m \in Nat, m \in T
      PROVE  m + 1 \in T
  <2>1. PICK f : StepsIs(bytes, pos, m, f)
    BY <1>2
  <2> DEFINE g == [i \in 0 .. m + 1 |-> IF i = m + 1 THEN StepAgain(bytes, f[m]) ELSE f[i]]
  <2>2. \A i \in 0 .. m + 1 :
           g[i] = IF i = 0 THEN StepFrom(bytes, pos) ELSE StepAgain(bytes, g[i - 1])
    <3>1. TAKE i \in 0 .. m + 1
    <3>2. CASE i = m + 1
      <4>1. g[i - 1] = f[m] /\ i # 0
        BY <3>2
      <4> QED
        BY <3>2, <4>1
    <3>3. CASE i # m + 1
      <4>1. i \in 0 .. m /\ (i # 0 => i - 1 # m + 1 /\ i - 1 \in 0 .. m + 1)
        BY <3>3
      <4>2. f[i] = IF i = 0 THEN StepFrom(bytes, pos) ELSE StepAgain(bytes, f[i - 1])
        BY <2>1, <4>1 DEF StepsIs
      <4> QED
        BY <3>3, <4>1, <4>2
    <3> QED
      BY <3>2, <3>3
  <2>3. StepsIs(bytes, pos, m + 1, g)
    BY <2>2 DEF StepsIs
  <2> QED
    BY <2>3
<1> HIDE DEF T
<1>3. Nat \subseteq T
  BY <1>1, <1>2, Induction
<1> QED
  BY <1>3 DEF T

LEMMA StepsByFcn ==
    ASSUME NEW bytes, NEW pos, NEW n \in Nat
    PROVE  \E f : StepsIs(bytes, pos, n, f) /\ Nth(bytes, pos, n) = f[n].device
<1> DEFINE F == CHOOSE f : StepsIs(bytes, pos, n, f)
<1>1. StepsIs(bytes, pos, n, F)
  BY StepsExists
<1>2. Nth(bytes, pos, n) = F[n].device
  BY DEF Nth, StepAgain, StepsIs
<1> QED
  BY <1>1, <1>2

\* try_at finds the device as many places on, if it has arrived.
LEMMA NthIs ==
    ASSUME IsPortion(portion, listed), NEW k \in 0 .. Arrived, NEW n \in Nat
    PROVE  Nth(portion, PositionOf(listed, k), n) =
             IF k + n + 1 <= Arrived THEN DeviceOf(listed[k + n + 1]) ELSE None
<1> DEFINE pos == PositionOf(listed, k)
<1>1. PICK f : StepsIs(portion, pos, n, f) /\ Nth(portion, pos, n) = f[n].device
  BY StepsByFcn
<1>2. Arrived \in Nat /\ Arrived <= Len(listed) /\ Len(listed) \in Nat
  BY ArrivedIs
<1> DEFINE Found(i) == IF k + i + 1 <= Arrived
                       THEN f[i] = Step(DeviceOf(listed[k + i + 1]),
                                        PositionOf(listed, k + i + 1))
                       ELSE f[i].device = None
           T == { i \in Nat : i <= n => Found(i) }
<1>3. 0 \in T
  <2>1. f[0] = StepFrom(portion, pos)
    BY <1>1, 0 \in 0 .. n DEF StepsIs
  <2>2. (k < Arrived <=> k + 0 + 1 <= Arrived) /\ k + 0 + 1 = k + 1
    BY <1>2
  <2> QED
    BY <2>1, <2>2, NextIs
<1>4. ASSUME NEW i \in Nat, i \in T
      PROVE  i + 1 \in T
  <2>1. SUFFICES ASSUME i + 1 <= n PROVE Found(i + 1)
    OBVIOUS
  <2>2. i <= n /\ i + 1 \in 0 .. n /\ i + 1 # 0 /\ (i + 1) - 1 = i
    BY <2>1
  <2>3. Found(i)
    BY <1>4, <2>2
  <2>4. f[i + 1] = StepAgain(portion, f[i])
    BY <1>1, <2>2 DEF StepsIs
  <2>5. CASE k + i + 1 <= Arrived
    <3> DEFINE m == k + i + 1
    <3>1. m \in 0 .. Arrived /\ m \in 1 .. Len(listed) /\ k + (i + 1) + 1 = m + 1
      BY <1>2, <2>5
    <3>2. IsWireDevice(listed[m])
      BY <3>1, PiecesType DEF IsPortion
    <3>3. f[i].device # None /\ f[i].position = PositionOf(listed, m)
      BY <2>3, <2>5, <3>2, DeviceOfType DEF Step
    <3>4. f[i + 1] = StepFrom(portion, PositionOf(listed, m))
      BY <2>4, <3>3 DEF StepAgain
    <3> HIDE DEF m
    <3>5. m < Arrived <=> m + 1 <= Arrived
      BY <1>2, <3>1
    <3> QED
      BY <3>1, <3>4, <3>5, NextIs
  <2>6. CASE ~(k + i + 1 <= Arrived)
    <3>1. ~(k + (i + 1) + 1 <= Arrived)
      BY <1>2, <2>6
    <3> QED
      BY <2>3, <2>4, <2>6, <3>1 DEF StepAgain
  <2> QED
    BY <2>5, <2>6
<1> HIDE DEF T
<1>5. Nat \subseteq T
  BY <1>3, <1>4, Induction
<1>6. Found(n)
  BY <1>5 DEF T
<1> QED
  BY <1>1, <1>6 DEF Step

-----------------------------------------------------------------------------
(* What decode takes in, and the descriptors of a device that was read.    *)

\* However much of a portion arrived and whatever is behind it, it is read as
\* the list it was made of.
LEMMA DecodeIs ==
    ASSUME decode
    PROVE  IsPortion(portion, listed) /\ position = PositionOf(listed, 0)
<1> DEFINE whole == PortionBytes(listed)
<1>1. IsListing(listed)
  BY ListingsAre DEF decode
<1>2. whole \in Seq(Byte) /\ Len(whole) \in Nat
  BY <1>1, PiecesType, PortionBytesAre DEF IsListing
<1> HIDE DEF whole
<1>3. portion \in Seq(Byte) /\ ReadsAs(portion, 0, whole)
  <2>1. CASE \E n \in 0 .. Len(whole) : portion = SubSeq(whole, 1, n)
    <3>1. PICK n \in 0 .. Len(whole) : portion = SubSeq(whole, 1, n)
      BY <2>1
    <3>2. \A i \in 1 .. n : whole[i] \in Byte
      BY <1>2
    <3>3. /\ portion \in Seq(Byte) /\ Len(portion) = (IF 1 <= n THEN n - 1 + 1 ELSE 0)
          /\ \A i \in 1 .. n - 1 + 1 : portion[i] = whole[1 + i - 1]
      BY <3>1, <3>2, 1 \in Int, n \in Int, SubSeqProperties
    <3>4. /\ n - 1 + 1 = n /\ (IF 1 <= n THEN n - 1 + 1 ELSE 0) = n
          /\ \A i \in 1 .. n : 1 + i - 1 = i
      OBVIOUS
    <3>5. Len(portion) = n /\ \A i \in 1 .. n : portion[i] = whole[i]
      BY <3>3, <3>4
    <3>6. \A p \in 1 .. Len(whole) : 0 + p <= n => 0 + p = p /\ p \in 1 .. n
      BY <1>2
    <3> QED
      BY <3>3, <3>5, <3>6 DEF ReadsAs
  <2>2. CASE \E t \in Trailers : portion = whole \o t
    <3>1. PICK t \in Seq(Byte) : portion = whole \o t
      BY <2>2, BytesAssumption
    <3>2. IsJoin(portion, whole, t)
      BY <1>2, <3>1, Joined
    <3>3. \A p \in 1 .. Len(whole) : 0 + p = p
      BY <1>2
    <3> QED
      BY <3>2, <3>3 DEF ReadsAs, IsJoin
  <2> QED
    BY <2>1, <2>2 DEF decode, whole
<1> QED
  BY <1>1, <1>3 DEF decode, IsPortion, whole, PositionOf, Start, At

\* A device that was read gives out its next descriptor, and moves behind it.
LEMMA DescriptorIsNext ==
    ASSUME NEW d, IsWireDevice(d), Decodes(d), NEW j \in Nat, j < Len(d.descriptors)
    PROVE  LET bytes == DescriptorsBytes(d.descriptors)
               offset == OffsetOf(d.descriptors, j)
           IN  /\ offset + DESCRIPTOR_HEADER <= Len(bytes)
               /\ DescriptorEnd(bytes, offset) = OffsetOf(d.descriptors, j + 1)
               /\ DescriptorEnd(bytes, offset) # Error
               /\ DescriptorAt(bytes, offset) = d.descriptors[j + 1]
               /\ d.descriptors[j + 1] \in Descriptor
<1>1. PICK ds : ds = d.descriptors
  OBVIOUS
<1>2. IsWire(ds)
  BY <1>1 DEF IsWireDevice
<1>3. Len(ds) \in Nat /\ DescriptorsBytes(ds) \in Seq(Byte)
  BY <1>2, PartsType
<1>4. j + 1 \in 1 .. Len(ds)
  BY <1>1, <1>3
<1>5. /\ ds[j + 1] \in Descriptor /\ Len(ds[j + 1].data) \in Word
      /\ DOMAIN ds = 1 .. Len(ds)
  BY <1>2, <1>4, PartsType
<1>6. Short(ds[j + 1])
  BY <1>1, <1>4, <1>5 DEF Decodes, Short
<1> DEFINE bytes == DescriptorsBytes(ds)
           offset == OffsetOf(ds, j)
           item == DescriptorBytes(ds[j + 1])
<1>7. /\ offset \in Nat /\ Len(item) \in Nat /\ OffsetOf(ds, j + 1) = offset + Len(item)
      /\ OffsetOf(ds, j + 1) <= Len(bytes) /\ Len(bytes) \in Nat
  BY <1>1, <1>2, Offsets
<1>8. ReadsAs(bytes, offset, item)
  <2>1. ReadsAs(bytes, 0, bytes)
    <3>1. \A p \in 1 .. Len(bytes) : 0 + p = p
      BY <1>7
    <3> QED
      BY <3>1 DEF ReadsAs
  <2>2. ReadsAs(bytes, 0 + offset, item)
    BY <1>1, <1>2, <1>7, <2>1, ReadsEach
  <2>3. 0 + offset = offset
    BY <1>7
  <2> QED
    BY <2>2, <2>3
<1>9. DESCRIPTOR_HEADER <= Len(item)
  <2>1. PICK data \in Seq(Byte) : data = ds[j + 1].data
    BY <1>5 DEF Descriptor
  <2>2. Len(item) = DESCRIPTOR_HEADER + Len(data) /\ Len(data) \in Nat
    BY <1>5, <2>1, DescriptorBytesAre
  <2> HIDE DEF item
  <2> QED
    BY <2>2 DEF DESCRIPTOR_HEADER
<1>10. /\ DescriptorEnd(bytes, offset) = offset + Len(item)
       /\ DescriptorAt(bytes, offset) = ds[j + 1]
  <2>1. LET end == offset + Len(item)
        IN  IF Len(ds[j + 1].data) <= DESCRIPTOR_DATA_MAX_LEN /\ end <= Len(bytes)
            THEN DescriptorEnd(bytes, offset) = end /\ DescriptorAt(bytes, offset) = ds[j + 1]
            ELSE DescriptorEnd(bytes, offset) = Error
    BY <1>3, <1>5, <1>7, <1>8, DescriptorHere
  <2> QED
    BY <1>6, <1>7, <2>1 DEF Short
<1> HIDE DEF bytes, offset, item
<1>11. offset + DESCRIPTOR_HEADER <= Len(bytes) /\ offset + Len(item) # Error
  BY <1>7, <1>9 DEF DESCRIPTOR_HEADER, Error
<1> QED
  BY <1>1, <1>5, <1>7, <1>10, <1>11 DEF bytes, offset

\* Whatever the bytes, what decodes is a descriptor.
LEMMA DescriptorAtType ==
    ASSUME NEW bytes \in Seq(Byte), NEW at \in Nat, DescriptorEnd(bytes, at) # Error
    PROVE  DescriptorAt(bytes, at) \in Descriptor
<1> DEFINE end == DescriptorEnd(bytes, at)
<1>1. end \in Nat /\ at + 4 <= end /\ end <= Len(bytes) /\ Len(bytes) \in Nat
  BY DescriptorEndType DEF DESCRIPTOR_HEADER
<1> HIDE DEF end
<1>2. U16(bytes, at) \in Word
  BY <1>1, U16Type
<1>3. \A i \in at + 4 + 1 .. end : bytes[i] \in Byte
  BY <1>1
<1>4. SubSeq(bytes, at + 4 + 1, end) \in Seq(Byte)
  BY <1>1, <1>3, at + 4 + 1 \in Int, end \in Int, SubSeqProperties
<1> QED
  BY <1>2, <1>4 DEF DescriptorAt, Descriptor, DESCRIPTOR_HEADER, end

\* A descriptor is not None.
LEMMA DescriptorIsSome == None \notin Descriptor
<1>1. Byte \subseteq Nat /\ Word \subseteq Nat
  BY DEF Byte, Word
<1>2. Seq(Byte) \subseteq Seq(Nat)
  BY <1>1, SeqMonotonic
<1>3. Descriptor \subseteq [type : Nat, data : Seq(Nat)]
  BY <1>1, <1>2 DEF Descriptor
<1> QED
  BY <1>3, NoneAssumption

-----------------------------------------------------------------------------
(* The inductive invariant.                                                *)

\* The iterator is in front of a device that has arrived or behind the last of
\* them, and has returned those before it.
WalkInv ==
    /\ position.current \in 0 .. Arrived
    /\ position = PositionOf(listed, position.current)
    /\ walk \in Seq({DeviceOf(listed[i]) : i \in DOMAIN listed})
    /\ Len(walk) = position.current
    /\ \A i \in 1 .. Len(walk) : walk[i] = DeviceOf(listed[i])

\* The devices a caller can hold.
Handed == [origin : {"portion", "new", "wire"}, index : Nat, count : Nat,
           bytes : Seq(Byte), iter_count : Nat, iter_offset : Nat]

HandInv ==
    device # None =>
        /\ device \in Handed
        /\ device.iter_count <= device.count
        /\ device.iter_offset <= Len(device.bytes)
        /\ read \in Seq(Descriptor) /\ Len(read) = device.iter_count

\* A device with the descriptors before its position read, in their order.
ReadSoFar(d) ==
    /\ IsWireDevice(d) /\ Decodes(d) /\ Is(device, d)
    /\ device.iter_offset = OffsetOf(d.descriptors, device.iter_count)
    /\ \A i \in 1 .. Len(read) : read[i] = d.descriptors[i]

\* A device that came out of the portion is one of the list.
ReadInv ==
    (device # None /\ device.origin = "portion") =>
        /\ result.op # "panic"
        /\ \E i \in DOMAIN listed : ReadSoFar(listed[i])
        /\ result.op = "descriptor" /\ result.value = None => read = <<>>

\* What try_at returned.
TryInv ==
    result.op = "try_at" =>
        /\ result.arg \in Nat
        /\ result.value = LET n == position.current + result.arg + 1
                          IN  IF n <= Arrived THEN DeviceOf(listed[n]) ELSE None

PortionInv == IsPortion(portion, listed) /\ WalkInv /\ HandInv /\ ReadInv /\ TryInv

\* A device of the list that has arrived decodes.
LEMMA ArrivedDecodes ==
    ASSUME IsPortion(portion, listed), NEW n \in 1 .. Arrived
    PROVE  /\ n \in DOMAIN listed /\ n \in 1 .. Len(listed)
           /\ IsWireDevice(listed[n]) /\ Decodes(listed[n])
<1>1. /\ Arrived \in 0 .. Len(listed) /\ Len(listed) \in Nat
      /\ \A k \in 0 .. Len(listed) : k < Arrived => Fits(portion, listed, k + 1)
  BY ArrivedIs
<1>2. n \in 1 .. Len(listed) /\ n - 1 \in 0 .. Len(listed) /\ n - 1 < Arrived /\ (n - 1) + 1 = n
  BY <1>1
<1>3. Fits(portion, listed, n)
  BY <1>1, <1>2
<1> QED
  BY <1>2, <1>3, PiecesType DEF Fits, IsPortion

\* A device fresh from the portion.
LEMMA HandsOver ==
    ASSUME IsPortion(portion, listed), NEW n \in 1 .. Arrived,
           device' = DeviceOf(listed[n]), read' = <<>>, listed' = listed,
           result'.op \notin {"panic", "descriptor"}
    PROVE  HandInv' /\ ReadInv'
<1>1. /\ n \in DOMAIN listed /\ IsWireDevice(listed[n]) /\ Decodes(listed[n])
  BY ArrivedDecodes
<1>2. PICK d : d = listed[n]
  OBVIOUS
<1>3. PICK index \in Word : index = d.index
  BY <1>1, <1>2 DEF IsWireDevice, DownstreamDevice
<1>4. PICK count \in Byte : count = Len(d.descriptors)
  BY <1>1, <1>2 DEF IsWireDevice
<1>5. PICK bytes \in Seq(Byte) : bytes = DescriptorsBytes(d.descriptors)
  BY <1>1, <1>2, PartsType DEF IsWireDevice
<1>6. device' = [origin |-> "portion", index |-> index, count |-> count, bytes |-> bytes,
                 iter_count |-> 0, iter_offset |-> 0]
  BY <1>2, <1>3, <1>4, <1>5 DEF DeviceOf, Device
<1>7. HandInv'
  <2>1. index \in Nat /\ count \in Nat /\ 0 <= count /\ 0 <= Len(bytes)
    BY LenProperties DEF Word, Byte
  <2>2. <<>> \in Seq(Descriptor) /\ Len(<<>>) = 0
    BY EmptySeq
  <2> QED
    BY <1>6, <2>1, <2>2 DEF HandInv, Handed
<1>8. ReadSoFar(d)'
  <2>1. Is(device', d)
    BY <1>3, <1>4, <1>5, <1>6 DEF Is
  <2>2. OffsetOf(d.descriptors, 0) = 0
    BY FlatNone DEF OffsetOf
  <2>3. \A i \in 1 .. Len(read') : read'[i] = d.descriptors[i]
    BY EmptySeq
  <2> QED
    BY <1>1, <1>2, <1>6, <2>1, <2>2, <2>3 DEF ReadSoFar
<1> QED
  BY <1>1, <1>2, <1>7, <1>8 DEF ReadInv

\* What has arrived is decided when the response is decoded.
LEMMA ArrivedStays ==
    ASSUME UNCHANGED <<listed, portion>>
    PROVE  /\ Arrived' = Arrived
           /\ IsPortion(portion, listed) => IsPortion(portion, listed)'
BY DEF Arrived, Readable

LEMMA WalkStays ==
    ASSUME UNCHANGED <<listed, portion, position, walk>>, WalkInv
    PROVE  WalkInv'
BY ArrivedStays DEF WalkInv

LEMMA InitPortion == Init => PortionInv
<1>1. SUFFICES ASSUME Init PROVE PortionInv
  OBVIOUS
<1>2. IsPortion(portion, listed) /\ position = PositionOf(listed, 0)
  BY <1>1, DecodeIs DEF Init
<1>3. Arrived \in Nat
  BY <1>2, ArrivedIs
<1>4. WalkInv
  <2>1. walk = <<>> /\ <<>> \in Seq({DeviceOf(listed[i]) : i \in DOMAIN listed}) /\ Len(<<>>) = 0
    BY <1>1, EmptySeq DEF Init
  <2>2. position.current = 0
    BY <1>2 DEF PositionOf, At
  <2> QED
    BY <1>2, <1>3, <2>1, <2>2 DEF WalkInv
<1>5. HandInv /\ ReadInv /\ TryInv
  BY <1>1 DEF Init, HandInv, ReadInv, TryInv, Returned
<1> QED
  BY <1>2, <1>4, <1>5 DEF PortionInv

\* next moves on by a device that has arrived, or not at all.
LEMMA NextPortion ==
    ASSUME PortionInv, next
    PROVE  PortionInv'
<1> DEFINE k == position.current
           step == StepFrom(portion, position)
<1>1. /\ IsPortion(portion, listed) /\ k \in 0 .. Arrived /\ position = PositionOf(listed, k)
      /\ Arrived \in 0 .. Len(listed) /\ Len(listed) \in Nat
  BY ArrivedIs DEF PortionInv, WalkInv
<1>2. /\ IsPortion(portion, listed)' /\ Arrived' = Arrived
      /\ listed' = listed /\ portion' = portion
  BY <1>1, ArrivedStays DEF next
<1>3. IF k < Arrived
      THEN step = Step(DeviceOf(listed[k + 1]), PositionOf(listed, k + 1))
      ELSE /\ step.device = None
           /\ step.position = IF k = Len(listed) /\ PORTION_HEADER <= Len(portion)
                              THEN Start ELSE PositionOf(listed, k)
  BY <1>1, NextIs
<1>4. result'.op = "next"
  BY DEF next, Returned
<1>5. TryInv'
  BY <1>4 DEF TryInv
<1>6. CASE k < Arrived
  <2>1. k + 1 \in 1 .. Arrived /\ k + 1 \in 0 .. Arrived
    BY <1>1, <1>6
  <2>2. k + 1 \in DOMAIN listed /\ DeviceOf(listed[k + 1]) # None
    BY <1>1, <2>1, ArrivedDecodes, DeviceOfType
  <2>3. /\ step.device = DeviceOf(listed[k + 1])
        /\ step.position = PositionOf(listed, k + 1)
    BY <1>3, <1>6 DEF Step
  <2>4. /\ position' = PositionOf(listed, k + 1)
        /\ walk' = Append(walk, DeviceOf(listed[k + 1]))
        /\ device' = DeviceOf(listed[k + 1]) /\ read' = <<>>
    BY <2>2, <2>3 DEF next, Hand
  <2>5. position'.current = k + 1
    BY <2>4 DEF PositionOf, At
  <2>6. WalkInv'
    <3> DEFINE S == {DeviceOf(listed[i]) : i \in DOMAIN listed}
    <3>1. walk \in Seq(S) /\ Len(walk) = k /\ \A i \in 1 .. Len(walk) : walk[i] = DeviceOf(listed[i])
      BY DEF PortionInv, WalkInv
    <3>2. DeviceOf(listed[k + 1]) \in S
      BY <2>2
    <3> HIDE DEF S
    <3>3. /\ walk' \in Seq(S) /\ Len(walk') = k + 1
          /\ \A i \in 1 .. k : walk'[i] = walk[i]
          /\ walk'[k + 1] = DeviceOf(listed[k + 1])
      BY <2>4, <3>1, <3>2, AppendProperties
    <3>4. \A i \in 1 .. k + 1 : i \in 1 .. k \/ i = k + 1
      BY <1>1
    <3>5. \A i \in 1 .. Len(walk') : walk'[i] = DeviceOf(listed[i])
      BY <3>1, <3>3, <3>4
    <3> QED
      BY <1>2, <2>1, <2>4, <2>5, <3>3, <3>5 DEF WalkInv, S
  <2>7. HandInv' /\ ReadInv'
    BY <1>1, <1>2, <1>4, <2>1, <2>4, HandsOver
  <2> QED
    BY <1>2, <1>5, <2>6, <2>7 DEF PortionInv
<1>7. CASE ~(k < Arrived)
  <2>1. /\ step.device = None
        /\ position' = step.position
        /\ position' = Start \/ position' = position
    BY <1>1, <1>3, <1>7 DEF next
  <2>2. /\ walk' = IF position' = Start THEN <<>> ELSE walk
        /\ UNCHANGED <<device, read>>
    BY <2>1 DEF next
  <2>3. WalkInv'
    <3>1. CASE position' = Start
      <4>1. position'.current = 0 /\ position' = PositionOf(listed, 0)
        BY <3>1 DEF Start, PositionOf, At
      <4>2. walk' = <<>>
        BY <2>2, <3>1
      <4> QED
        BY <1>1, <1>2, <4>1, <4>2, EmptySeq DEF WalkInv
    <3>2. CASE position' # Start
      <4>1. UNCHANGED <<listed, portion, position, walk>>
        BY <1>2, <2>1, <2>2, <3>2
      <4> QED
        BY <4>1, WalkStays DEF PortionInv
    <3> QED
      BY <3>1, <3>2
  <2>4. HandInv' /\ ReadInv'
    BY <1>2, <1>4, <2>2 DEF PortionInv, HandInv, ReadInv, ReadSoFar
  <2> QED
    BY <1>2, <1>5, <2>3, <2>4 DEF PortionInv
<1> QED
  BY <1>6, <1>7

\* try_at leaves the iterator where it is.
LEMMA TryAtPortion ==
    ASSUME PortionInv, NEW n \in Indices, try_at(n)
    PROVE  PortionInv'
<1> DEFINE k == position.current
           dev == Nth(portion, position, n)
<1>1. /\ IsPortion(portion, listed) /\ k \in 0 .. Arrived /\ position = PositionOf(listed, k)
      /\ Arrived \in 0 .. Len(listed) /\ Len(listed) \in Nat
  BY ArrivedIs DEF PortionInv, WalkInv
<1>2. /\ IsPortion(portion, listed)' /\ Arrived' = Arrived
      /\ UNCHANGED <<listed, portion, position, walk>>
  BY <1>1, ArrivedStays DEF try_at
<1>3. n \in Nat
  BY NumberAssumption
<1>4. dev = IF k + n + 1 <= Arrived THEN DeviceOf(listed[k + n + 1]) ELSE None
  BY <1>1, <1>3, NthIs
<1>5. /\ result' = [op |-> "try_at", arg |-> n, value |-> dev]
      /\ IF dev # None THEN device' = dev /\ read' = <<>> ELSE UNCHANGED <<device, read>>
  BY DEF try_at, Returned, Hand
<1>6. WalkInv'
  BY <1>2, WalkStays DEF PortionInv
<1>7. TryInv'
  BY <1>2, <1>3, <1>4, <1>5 DEF TryInv
<1>8. HandInv' /\ ReadInv'
  <2>1. CASE dev # None
    <3> DEFINE m == k + n + 1
    <3>1. m \in 1 .. Arrived /\ dev = DeviceOf(listed[m])
      BY <1>1, <1>3, <1>4, <2>1
    <3> HIDE DEF m
    <3> QED
      BY <1>1, <1>2, <1>5, <2>1, <3>1, HandsOver
  <2>2. CASE dev = None
    BY <1>2, <1>5, <2>2 DEF PortionInv, HandInv, ReadInv, ReadSoFar
  <2> QED
    BY <2>1, <2>2
<1> QED
  BY <1>2, <1>6, <1>7, <1>8 DEF PortionInv

\* A step that leaves the response alone and is no try_at.
LEMMA AsideStep ==
    ASSUME PortionInv, UNCHANGED <<listed, portion, position, walk>>, result'.op # "try_at",
           HandInv', ReadInv'
    PROVE  PortionInv'
<1>1. IsPortion(portion, listed)' /\ WalkInv'
  BY ArrivedStays, WalkStays DEF PortionInv
<1>2. TryInv'
  BY DEF TryInv
<1> QED
  BY <1>1, <1>2 DEF PortionInv

\* A device that is no part of the portion.
LEMMA OtherOrigin ==
    ASSUME NEW origin \in {"new", "wire"}, NEW index \in Nat, NEW count \in Nat,
           NEW bytes \in Seq(Byte),
           device' = Device(origin, index, count, bytes), read' = <<>>
    PROVE  HandInv' /\ ReadInv'
<1>1. device' = [origin |-> origin, index |-> index, count |-> count, bytes |-> bytes,
                 iter_count |-> 0, iter_offset |-> 0]
  BY DEF Device
<1>2. 0 <= count /\ 0 <= Len(bytes) /\ <<>> \in Seq(Descriptor) /\ Len(<<>>) = 0
  BY LenProperties, EmptySeq
<1>3. HandInv'
  BY <1>1, <1>2 DEF HandInv, Handed
<1>4. ReadInv'
  BY <1>1 DEF ReadInv
<1> QED
  BY <1>3, <1>4

LEMMA NewPortion ==
    ASSUME PortionInv, new
    PROVE  PortionInv'
<1>1. PICK blob \in Blobs, index \in {1, FIRST_RESERVED - 1} :
          Hand(Device("new", index, Len(blob) % 256, blob))
  BY DEF new
<1>2. blob \in Seq(Byte) /\ Len(blob) % 256 \in Nat /\ index \in Nat
  <2>1. blob \in Seq(Byte)
    BY BytesAssumption
  <2>2. Len(blob) \in Nat
    BY <2>1, LenProperties
  <2> QED
    BY <2>1, <2>2 DEF FIRST_RESERVED
<1>3. HandInv' /\ ReadInv'
  BY <1>1, <1>2, OtherOrigin DEF Hand
<1> QED
  BY <1>3, AsideStep DEF new, Returned

LEMMA DecodeDevicePortion ==
    ASSUME PortionInv, decode_device
    PROVE  PortionInv'
<1>1. PICK d \in Range(listed) : \E n \in DEVICE_HEADER .. Len(DeviceBytes(d)) :
          Hand(Device("wire", d.index, Len(d.descriptors),
                      SubSeq(DeviceBytes(d), DEVICE_HEADER + 1, n)))
  BY DEF decode_device
<1>2. PICK n \in DEVICE_HEADER .. Len(DeviceBytes(d)) :
          Hand(Device("wire", d.index, Len(d.descriptors),
                      SubSeq(DeviceBytes(d), DEVICE_HEADER + 1, n)))
  BY <1>1
<1>3. IsWireDevice(d)
  BY DEF PortionInv, IsPortion, IsListing, Range
<1>4. DeviceBytes(d) \in Seq(Byte)
  BY <1>3, DeviceBytesAre
<1>5. PICK whole \in Seq(Byte) : whole = DeviceBytes(d)
  BY <1>4
<1>6. SubSeq(DeviceBytes(d), DEVICE_HEADER + 1, n) \in Seq(Byte)
  <2>1. n \in Int /\ 3 + 1 \in Int /\ n <= Len(whole) /\ Len(whole) \in Nat
    BY <1>5 DEF DEVICE_HEADER
  <2>2. \A i \in 3 + 1 .. n : whole[i] \in Byte
    BY <2>1
  <2>3. SubSeq(whole, 3 + 1, n) \in Seq(Byte)
    BY <2>1, <2>2, SubSeqProperties
  <2> QED
    BY <1>5, <2>3 DEF DEVICE_HEADER
<1>7. d.index \in Nat /\ Len(d.descriptors) \in Nat
  <2>1. d.index \in Word /\ Len(d.descriptors) \in Byte
    BY <1>3 DEF IsWireDevice, DownstreamDevice
  <2> QED
    BY <2>1 DEF Word, Byte
<1>8. HandInv' /\ ReadInv'
  BY <1>2, <1>6, <1>7, OtherOrigin DEF Hand
<1> QED
  BY <1>8, AsideStep DEF decode_device, Returned

\* Behind the last descriptor the device is read from the start again.
LEMMA NoDescriptorPortion ==
    ASSUME PortionInv, NoDescriptor
    PROVE  PortionInv'
<1>1. /\ device # None /\ device \in Handed
      /\ device' = [device EXCEPT !.iter_count = 0, !.iter_offset = 0]
      /\ read' = <<>> /\ UNCHANGED <<listed, portion, position, walk>>
      /\ result' = [op |-> "descriptor", arg |-> None, value |-> None]
  BY DEF NoDescriptor, PortionInv, HandInv, Returned
<1>2. /\ device' \in Handed /\ device'.iter_count = 0 /\ device'.iter_offset = 0
      /\ device'.origin = device.origin /\ device'.index = device.index
      /\ device'.count = device.count /\ device'.bytes = device.bytes
      /\ device'.count \in Nat /\ device'.bytes \in Seq(Byte)
  BY <1>1 DEF Handed
<1>3. HandInv'
  BY <1>1, <1>2, LenProperties, EmptySeq DEF HandInv
<1>4. ReadInv'
  <2>1. SUFFICES ASSUME device'.origin = "portion" PROVE \E i \in DOMAIN listed : ReadSoFar(listed[i])'
    BY <1>1 DEF ReadInv
  <2>2. PICK i \in DOMAIN listed : ReadSoFar(listed[i])
    BY <1>1, <1>2, <2>1 DEF PortionInv, ReadInv
  <2>3. OffsetOf(listed[i].descriptors, 0) = 0
    BY FlatNone DEF OffsetOf
  <2>4. ReadSoFar(listed[i])'
    BY <1>1, <1>2, <2>2, <2>3, EmptySeq DEF ReadSoFar, Is
  <2> QED
    BY <2>4
<1> QED
  BY <1>1, <1>3, <1>4, AsideStep

\* Which descriptor a device from the portion is in front of.
LEMMA InFront ==
    ASSUME PortionInv, device # None, device.origin = "portion", ~AfterLast(device)
    PROVE  \E i \in DOMAIN listed :
             LET ds == listed[i].descriptors
                 j == device.iter_count
             IN  /\ ReadSoFar(listed[i]) /\ j \in Nat /\ j < Len(ds) /\ Len(ds) \in Nat
                 /\ HeaderFits(device)
                 /\ DescriptorEnd(device.bytes, device.iter_offset) = OffsetOf(ds, j + 1)
                 /\ DescriptorEnd(device.bytes, device.iter_offset) # Error
                 /\ DescriptorAt(device.bytes, device.iter_offset) = ds[j + 1]
<1>1. PICK i \in DOMAIN listed : ReadSoFar(listed[i])
  BY DEF PortionInv, ReadInv
<1> DEFINE d == listed[i]
           j == device.iter_count
<1>2. /\ IsWireDevice(d) /\ Decodes(d)
      /\ device.count = Len(d.descriptors) /\ device.bytes = DescriptorsBytes(d.descriptors)
      /\ device.iter_offset = OffsetOf(d.descriptors, j)
  BY <1>1 DEF ReadSoFar, Is
<1>3. j \in Nat /\ device.count \in Nat
  BY DEF PortionInv, HandInv, Handed
<1>4. j < Len(d.descriptors) /\ Len(d.descriptors) \in Nat
  BY <1>2, <1>3 DEF AfterLast
<1>5. /\ OffsetOf(d.descriptors, j) + DESCRIPTOR_HEADER <= Len(DescriptorsBytes(d.descriptors))
      /\ DescriptorEnd(device.bytes, device.iter_offset) = OffsetOf(d.descriptors, j + 1)
      /\ DescriptorEnd(device.bytes, device.iter_offset) # Error
      /\ DescriptorAt(device.bytes, device.iter_offset) = d.descriptors[j + 1]
  BY <1>2, <1>3, <1>4, DescriptorIsNext
<1>6. HeaderFits(device)
  BY <1>2, <1>5 DEF HeaderFits
<1> QED
  BY <1>1, <1>3, <1>4, <1>5, <1>6

\* A descriptor that does not decode leaves the device where it is, and is none
\* of the portion.
LEMMA BadDescriptorPortion ==
    ASSUME PortionInv, BadDescriptor
    PROVE  PortionInv'
<1>1. /\ device # None /\ ~AfterLast(device)
      /\ DescriptorEnd(device.bytes, device.iter_offset) = Error
      /\ UNCHANGED <<listed, portion, position, device, walk, read>>
      /\ result'.op = "descriptor"
  BY DEF BadDescriptor, Returned
<1>2. device.origin # "portion"
  BY <1>1, InFront
<1>3. HandInv' /\ ReadInv'
  BY <1>1, <1>2 DEF PortionInv, HandInv, ReadInv
<1> QED
  BY <1>1, <1>3, AsideStep

\* No descriptor of the portion is looked for past the end.
LEMMA PastTheEndPortion ==
    ASSUME PortionInv, PastTheEnd
    PROVE  PortionInv'
<1>1. /\ device # None /\ ~AfterLast(device) /\ ~HeaderFits(device)
      /\ UNCHANGED <<listed, portion, position, device, walk, read>>
      /\ result'.op = "panic"
  BY DEF PastTheEnd, Returned
<1>2. device.origin # "portion"
  BY <1>1, InFront
<1>3. HandInv' /\ ReadInv'
  BY <1>1, <1>2 DEF PortionInv, HandInv, ReadInv
<1> QED
  BY <1>1, <1>3, AsideStep

\* A descriptor that decodes is read and passed.
LEMMA NextDescriptorPortion ==
    ASSUME PortionInv, NextDescriptor
    PROVE  PortionInv'
<1> DEFINE here == DescriptorAt(device.bytes, device.iter_offset)
           end == DescriptorEnd(device.bytes, device.iter_offset)
<1>1. /\ device # None /\ ~AfterLast(device) /\ end # Error
      /\ result' = [op |-> "descriptor", arg |-> None, value |-> here]
      /\ read' = Append(read, here)
      /\ device' = [device EXCEPT !.iter_count = @ + 1, !.iter_offset = end]
      /\ UNCHANGED <<listed, portion, position, walk>>
  BY DEF NextDescriptor, Returned, Behind
<1>2. /\ device \in Handed /\ device.iter_count <= device.count
      /\ read \in Seq(Descriptor) /\ Len(read) = device.iter_count
      /\ device.bytes \in Seq(Byte) /\ device.iter_offset \in Nat
      /\ device.iter_count \in Nat /\ device.count \in Nat
  BY <1>1 DEF PortionInv, HandInv, Handed
<1>3. here \in Descriptor /\ here # None
  BY <1>1, <1>2, DescriptorAtType, DescriptorIsSome
<1>4. end \in Nat /\ end <= Len(device.bytes)
  BY <1>1, <1>2, DescriptorEndType
<1> HIDE DEF here, end
<1>5. /\ device' \in Handed
      /\ device'.iter_count = device.iter_count + 1 /\ device'.iter_offset = end
      /\ device'.origin = device.origin /\ device'.index = device.index
      /\ device'.count = device.count /\ device'.bytes = device.bytes
  <2>1. PICK more \in Nat : more = device.iter_count + 1
    BY <1>2
  <2>2. device' = [device EXCEPT !.iter_count = more, !.iter_offset = end]
    BY <1>1, <2>1
  <2> QED
    BY <1>2, <1>4, <2>1, <2>2 DEF Handed
<1>6. device.iter_count + 1 <= device.count
  BY <1>1, <1>2 DEF AfterLast
<1>7. /\ read' \in Seq(Descriptor) /\ Len(read') = device.iter_count + 1
      /\ \A i \in 1 .. device.iter_count : read'[i] = read[i]
      /\ read'[device.iter_count + 1] = here
  BY <1>1, <1>2, <1>3, AppendProperties
<1>8. HandInv'
  BY <1>4, <1>5, <1>6, <1>7 DEF HandInv
<1>9. ReadInv'
  <2>1. SUFFICES ASSUME device'.origin = "portion" PROVE \E i \in DOMAIN listed : ReadSoFar(listed[i])'
    BY <1>1, <1>3 DEF ReadInv
  <2>2. PICK i \in DOMAIN listed :
           /\ ReadSoFar(listed[i])
           /\ end = OffsetOf(listed[i].descriptors, device.iter_count + 1)
           /\ here = listed[i].descriptors[device.iter_count + 1]
    BY <1>1, <1>5, <2>1, InFront DEF here, end
  <2>3. \A p \in 1 .. device.iter_count + 1 : p \in 1 .. device.iter_count \/ p = device.iter_count + 1
    BY <1>2
  <2>4. \A p \in 1 .. Len(read') : read'[p] = listed[i].descriptors[p]
    BY <1>2, <1>7, <2>2, <2>3 DEF ReadSoFar
  <2>5. ReadSoFar(listed[i])'
    BY <1>1, <1>5, <2>2, <2>4 DEF ReadSoFar, Is
  <2> QED
    BY <1>1, <2>5
<1> QED
  BY <1>1, <1>8, <1>9, AsideStep

LEMMA PortionStep == PortionInv /\ [Next]_vars => PortionInv'
<1>1. SUFFICES ASSUME PortionInv, [Next]_vars PROVE PortionInv'
  OBVIOUS
<1>2. CASE next
  BY <1>1, <1>2, NextPortion
<1>3. ASSUME NEW i \in Indices, try_at(i) PROVE PortionInv'
  BY <1>1, <1>3, TryAtPortion
<1>4. CASE new
  BY <1>1, <1>4, NewPortion
<1>5. CASE decode_device
  BY <1>1, <1>5, DecodeDevicePortion
<1>6. CASE NoDescriptor
  BY <1>1, <1>6, NoDescriptorPortion
<1>7. CASE BadDescriptor
  BY <1>1, <1>7, BadDescriptorPortion
<1>8. CASE NextDescriptor
  BY <1>1, <1>8, NextDescriptorPortion
<1>9. CASE PastTheEnd
  BY <1>1, <1>9, PastTheEndPortion
<1>10. CASE UNCHANGED vars
  <2>1. UNCHANGED <<listed, portion, position, device, result, walk, read>>
    BY <1>10 DEF vars
  <2>2. HandInv' /\ ReadInv' /\ TryInv'
    BY <1>1, <2>1, ArrivedStays DEF PortionInv, HandInv, ReadInv, ReadSoFar,
       TryInv
  <2>3. IsPortion(portion, listed)' /\ WalkInv'
    BY <1>1, <2>1, ArrivedStays, WalkStays DEF PortionInv
  <2> QED
    BY <2>2, <2>3 DEF PortionInv
<1> QED
  BY <1>1, <1>2, <1>3, <1>4, <1>5, <1>6, <1>7, <1>8, <1>9, <1>10 DEF Next

LEMMA PortionInvariant == Spec => []PortionInv
BY InitPortion, PortionStep, PTL DEF Spec

-----------------------------------------------------------------------------
(* The theorems.                                                           *)

\* A device that was returned is the device of the list.
LEMMA DeviceOfIs ==
    ASSUME NEW d
    PROVE  Is(DeviceOf(d), d)
BY DEF Is, DeviceOf, Device

LEMMA PortionType == PortionInv => TypeOK
<1>1. SUFFICES ASSUME PortionInv PROVE TypeOK
  OBVIOUS
<1> DEFINE k == position.current
<1>2. /\ IsPortion(portion, listed) /\ k \in 0 .. Arrived /\ position = PositionOf(listed, k)
      /\ Len(walk) = k
      /\ Arrived \in 0 .. Len(listed) /\ Len(listed) \in Nat
      /\ \A n \in 0 .. Len(listed) : n < Arrived => Fits(portion, listed, n + 1)
      /\ Len(portion) \in Nat
  BY <1>1, ArrivedIs DEF PortionInv, WalkInv, IsPortion
<1>3. position.offset_next \in 0 .. Len(portion)
  <2>1. position.offset_next = IF k = 0 THEN 0 ELSE PlaceOf(listed, k)
    BY <1>2 DEF PositionOf, At
  <2>2. CASE k = 0
    BY <1>2, <2>1, <2>2
  <2>3. CASE k # 0
    <3>1. k - 1 \in 0 .. Len(listed) /\ k - 1 < Arrived /\ (k - 1) + 1 = k /\ k \in 0 .. Len(listed)
      BY <1>2, <2>3
    <3>2. Fits(portion, listed, k)
      BY <1>2, <3>1
    <3>3. PlaceOf(listed, k) \in Nat
      BY <1>2, <3>1, Places DEF IsPortion
    <3> QED
      BY <1>2, <2>1, <2>3, <3>2, <3>3 DEF Fits
  <2> QED
    BY <2>2, <2>3
<1>4. device # None => /\ device.iter_count \in 0 .. device.count
                       /\ device.iter_offset \in 0 .. Len(device.bytes)
                       /\ Len(read) = device.iter_count
  <2>1. SUFFICES ASSUME device # None
                 PROVE  /\ device.iter_count \in 0 .. device.count
                        /\ device.iter_offset \in 0 .. Len(device.bytes)
                        /\ Len(read) = device.iter_count
    OBVIOUS
  <2>2. /\ device \in Handed /\ device.iter_count <= device.count
        /\ device.iter_offset <= Len(device.bytes) /\ Len(read) = device.iter_count
    BY <1>1, <2>1 DEF PortionInv, HandInv
  <2>3. /\ device.iter_count \in Nat /\ device.count \in Nat /\ device.iter_offset \in Nat
        /\ Len(device.bytes) \in Nat
    BY <2>2, LenProperties DEF Handed
  <2> QED
    BY <2>2, <2>3
<1> QED
  BY <1>2, <1>3, <1>4 DEF TypeOK

\* Every position stays inside what it walks over, for every list of devices and
\* every cut of it (the iterators of query_downstream.rs).
THEOREM PositionsStayInside == Spec => []TypeOK
BY PortionInvariant, PortionType, PTL

LEMMA PortionWalk == PortionInv => WalkInOrder
<1>1. SUFFICES ASSUME PortionInv PROVE WalkInOrder
  OBVIOUS
<1>2. /\ position.current \in 0 .. Arrived /\ Len(walk) = position.current
      /\ walk \in Seq({DeviceOf(listed[i]) : i \in DOMAIN listed})
      /\ \A i \in 1 .. Len(walk) : walk[i] = DeviceOf(listed[i])
      /\ Arrived \in Nat
  BY <1>1, ArrivedIs DEF PortionInv, WalkInv
<1>3. DOMAIN walk = 1 .. Len(walk)
  BY <1>2, LenProperties
<1>4. \A i \in 1 .. Len(walk) : i <= Arrived
  BY <1>2
<1> QED
  BY <1>2, <1>3, <1>4, DeviceOfIs DEF WalkInOrder

\* next returns the devices of a portion in their order, each with its own index
\* and descriptors, whatever is called in between.
THEOREM DevicesInOrder == Spec => []WalkInOrder
BY PortionInvariant, PortionWalk, PTL

LEMMA PortionTryAt == PortionInv => TryAtFindsDevice
<1>1. SUFFICES ASSUME PortionInv, result.op = "try_at"
               PROVE  /\ walk = <<>> =>
                           IF result.arg + 1 <= Arrived
                           THEN /\ result.value # None
                                /\ Is(result.value, listed[result.arg + 1])
                           ELSE result.value = None
                      /\ result.value # None =>
                           \E k \in 1 .. Arrived :
                              /\ k > result.arg /\ k > Len(walk)
                              /\ Is(result.value, listed[k])
  BY DEF TryAtFindsDevice
<1> DEFINE n == position.current + result.arg + 1
<1>2. /\ result.arg \in Nat
      /\ result.value = IF n <= Arrived THEN DeviceOf(listed[n]) ELSE None
      /\ position.current \in 0 .. Arrived /\ Arrived \in Nat /\ IsPortion(portion, listed)
      /\ Len(walk) = position.current
  BY <1>1, ArrivedIs DEF PortionInv, TryInv, WalkInv
<1>3. walk = <<>> => n = result.arg + 1
  <2>1. SUFFICES ASSUME walk = <<>> PROVE n = result.arg + 1
    OBVIOUS
  <2>2. position.current = 0
    BY <1>2, <2>1, EmptySeq
  <2> QED
    BY <1>2, <2>2
<1>4. CASE n <= Arrived
  <2>1. n \in 1 .. Arrived /\ n > result.arg /\ n > Len(walk)
    BY <1>2, <1>4
  <2>2. DeviceOf(listed[n]) # None
    BY <1>2, <2>1, ArrivedDecodes, DeviceOfType
  <2>3. result.value # None /\ Is(result.value, listed[n])
    BY <1>2, <1>4, <2>2, DeviceOfIs
  <2> QED
    BY <1>3, <1>4, <2>1, <2>3
<1>5. CASE ~(n <= Arrived)
  BY <1>2, <1>3, <1>5
<1> QED
  BY <1>4, <1>5

\* While no walk is under way try_at finds the device of an index exactly when it
\* has arrived, and never one that is not there (try_at of query_downstream.rs).
THEOREM TryAtFinds == Spec => []TryAtFindsDevice
BY PortionInvariant, PortionTryAt, PTL

LEMMA PortionRead == PortionInv => DescriptorsInOrder
<1>1. SUFFICES ASSUME PortionInv, device # None, device.origin = "portion"
               PROVE  /\ result.op # "panic"
                      /\ \E i \in DOMAIN listed :
                           /\ Is(device, listed[i]) /\ IsPrefix(read, listed[i].descriptors)
                           /\ result.op = "descriptor" /\ result.value = None => read = <<>>
  BY DEF DescriptorsInOrder
<1>2. /\ result.op # "panic"
      /\ result.op = "descriptor" /\ result.value = None => read = <<>>
  BY <1>1 DEF PortionInv, ReadInv
<1>3. PICK i \in DOMAIN listed : ReadSoFar(listed[i])
  BY <1>1 DEF PortionInv, ReadInv
<1>4. PICK ds : ds = listed[i].descriptors
  OBVIOUS
<1>5. /\ IsWire(ds) /\ Is(device, listed[i]) /\ device.count = Len(ds)
      /\ \A p \in 1 .. Len(read) : read[p] = ds[p]
  BY <1>3, <1>4 DEF ReadSoFar, IsWireDevice, Is
<1>6. /\ read \in Seq(Descriptor) /\ Len(read) = device.iter_count
      /\ device.iter_count <= device.count /\ device.iter_count \in Nat
  BY <1>1 DEF PortionInv, HandInv, Handed
<1>7. ds \in Seq(Descriptor) /\ Len(ds) \in Nat
  BY <1>5, PartsType DEF IsWire
<1>8. Len(read) <= Len(ds) /\ Len(read) \in Nat
  BY <1>5, <1>6, <1>7
<1>9. SubSeq(read, 1, Len(read)) = SubSeq(ds, 1, Len(read))
  <2> DEFINE n == Len(read)
             r == SubSeq(read, 1, n)
             s == SubSeq(ds, 1, n)
  <2>1. n \in Int /\ 1 \in Int /\ n \in Nat /\ n - 1 + 1 = n /\ (IF 1 <= n THEN n - 1 + 1 ELSE 0) = n
    BY <1>8
  <2>2. \A p \in 1 .. n : read[p] \in Descriptor /\ ds[p] \in Descriptor
    BY <1>6, <1>7, <1>8
  <2>3. /\ r \in Seq(Descriptor) /\ Len(r) = (IF 1 <= n THEN n - 1 + 1 ELSE 0)
        /\ \A p \in 1 .. n - 1 + 1 : r[p] = read[1 + p - 1]
    BY ONLY <2>1, <2>2, SubSeqProperties
  <2>4. /\ s \in Seq(Descriptor) /\ Len(s) = (IF 1 <= n THEN n - 1 + 1 ELSE 0)
        /\ \A p \in 1 .. n - 1 + 1 : s[p] = ds[1 + p - 1]
    BY ONLY <2>1, <2>2, SubSeqProperties
  <2>5. \A p \in 1 .. n : 1 + p - 1 = p
    OBVIOUS
  <2> HIDE DEF r, s
  <2>6. Len(r) = Len(s) /\ \A p \in 1 .. Len(r) : r[p] = s[p]
    BY <1>5, <2>1, <2>3, <2>4, <2>5
  <2>7. r = s
    BY <2>3, <2>4, <2>6, SeqEqual
  <2> QED
    BY <2>7 DEF r, s
<1> QED
  BY <1>2, <1>4, <1>5, <1>8, <1>9 DEF IsPrefix

\* A device out of the portion gives out its own descriptors in order, None only
\* before the first or behind the last, and its iterator never panics.
THEOREM DescriptorsRead == Spec => []DescriptorsInOrder
BY PortionInvariant, PortionRead, PTL

\* What NoneMeansAll says of a step.
NoneStep ==
    result'.op = "next" /\ result'.value = None =>
        /\ Len(walk) = Arrived
        /\ Arrived = Len(listed) => position' = Start

LEMMA PortionNone == PortionInv /\ Next => NoneStep
<1>1. SUFFICES ASSUME PortionInv, Next, result'.op = "next", result'.value = None
               PROVE  /\ Len(walk) = Arrived
                      /\ Arrived = Len(listed) => position' = Start
  BY DEF NoneStep
<1>2. next
  BY <1>1 DEF Next, try_at, new, decode_device, NoDescriptor, BadDescriptor,
     NextDescriptor,
              PastTheEnd, Returned
<1> DEFINE k == position.current
           step == StepFrom(portion, position)
<1>3. /\ IsPortion(portion, listed) /\ k \in 0 .. Arrived /\ position = PositionOf(listed, k)
      /\ Arrived \in 0 .. Len(listed) /\ Len(listed) \in Nat /\ Len(walk) = k
      /\ Len(portion) \in Nat
  BY <1>1, ArrivedIs DEF PortionInv, WalkInv, IsPortion
<1>4. position' = step.position /\ step.device = None
  BY <1>1, <1>2 DEF next, Returned
<1>5. IF k < Arrived
      THEN step = Step(DeviceOf(listed[k + 1]), PositionOf(listed, k + 1))
      ELSE /\ step.device = None
           /\ step.position = IF k = Len(listed) /\ PORTION_HEADER <= Len(portion)
                              THEN Start ELSE PositionOf(listed, k)
  BY <1>3, NextIs
<1>6. k = Arrived
  <2>1. SUFFICES ASSUME k < Arrived PROVE FALSE
    BY <1>3
  <2>2. k + 1 \in 1 .. Arrived
    BY <1>3, <2>1
  <2>3. DeviceOf(listed[k + 1]) # None
    BY <1>3, <2>2, ArrivedDecodes, DeviceOfType
  <2> QED
    BY <1>4, <1>5, <2>1, <2>3 DEF Step
<1>7. ASSUME Arrived = Len(listed)
      PROVE  position' = Start
  <2>1. CASE PORTION_HEADER <= Len(portion)
    BY <1>3, <1>4, <1>5, <1>6, <1>7, <2>1
  <2>2. CASE ~(PORTION_HEADER <= Len(portion))
    <3>1. k = 0
      <4>1. SUFFICES ASSUME k # 0 PROVE FALSE
        OBVIOUS
      <4>2. k - 1 \in 0 .. Len(listed) /\ k - 1 < Arrived /\ (k - 1) + 1 = k /\ k \in 0 .. Len(listed)
        BY <1>3, <1>6, <4>1
      <4>3. Fits(portion, listed, k)
        BY <1>3, <4>2, ArrivedIs
      <4>4. PlaceOf(listed, k) \in Nat /\ PORTION_HEADER <= PlaceOf(listed, k)
        BY <1>3, <4>2, Places DEF IsPortion
      <4> QED
        BY <1>3, <2>2, <4>3, <4>4 DEF Fits, PORTION_HEADER
    <3> QED
      BY <1>3, <1>4, <1>5, <1>6, <2>2, <3>1 DEF PositionOf, At, Start
  <2> QED
    BY <2>1, <2>2
<1> QED
  BY <1>3, <1>6, <1>7

\* None from next means that every device that arrived was returned; and after a
\* whole portion the iterator stands at its start.
THEOREM NoneIsTheEnd == Spec => NoneMeansAll
<1>1. PortionInv /\ [Next]_vars => [NoneStep]_vars
  BY PortionNone
<1>2. Spec => [][NoneStep]_vars
  BY <1>1, PortionInvariant, PTL DEF Spec
<1> QED
  BY <1>2 DEF NoneMeansAll, NoneStep
=============================================================================
