---------------------------- MODULE CodecsProofs ----------------------------
(***************************************************************************)
(* Proofs about Codecs, for messages, cuts and buffers of any length.      *)
(* What DecodeBlock and the list of items come to is found string by       *)
(* string and item by item; bytes are compared as parts of the wire.       *)
(***************************************************************************)
EXTENDS Codecs, ListTheorems

-----------------------------------------------------------------------------
(* The fixed blocks.                                                       *)

LEMMA KindsAre ==
    Kinds = {"PldmFirmwareString", "RequestUpdateRequest", "PassComponentTableRequest",
             "UpdateComponentRequest", "RequestUpdateResponse", "UpdateComponentResponse",
             "GetFirmwareParametersResponse", "ComponentParameterEntry",
             "QueryDeviceIdentifiersResponse", "Descriptor",
             "GetDownstreamFirmwareParametersResponse", "RequestFirmwareDataResponse",
             "GetPackageDataResponse", "GetDeviceMetaDataResponse", "GetMetaDataResponse",
             "QueryDownstreamIdentifiersResponse"}
BY DEF Kinds, FixedLen

LEMMA StringKindsAre ==
    DOMAIN StringLenAt =
        {"PldmFirmwareString", "RequestUpdateRequest", "PassComponentTableRequest",
         "UpdateComponentRequest", "GetFirmwareParametersResponse",
         "ComponentParameterEntry", "GetDownstreamFirmwareParametersResponse"}
BY DEF StringLenAt

LEMMA FixedLenType ==
    ASSUME NEW kind \in Kinds
    PROVE  FixedLen[kind] \in Nat /\ FixedLen[kind] # 0
BY KindsAre DEF FixedLen

LEMMA RoomType ==
    ASSUME NEW kind
    PROVE  TailRoom(kind) \in Nat /\ ListRoom(kind) \in Nat
BY SizeAssumption DEF TailRoom, ListRoom

\* The lengths stand inside the block.
LEMMA StringLensInside ==
    ASSUME NEW kind \in DOMAIN StringLenAt
    PROVE  /\ kind \in Kinds
           /\ StringLenAt[kind] \in Seq(Nat)
           /\ \A i \in 1 .. Len(StringLenAt[kind]) :
                StringLenAt[kind][i] \in Nat /\ StringLenAt[kind][i] < FixedLen[kind]
<1>1. kind \in Kinds
  BY StringKindsAre, KindsAre
<1>2. \/ StringLenAt[kind] = <<1>> /\ FixedLen[kind] = 2
      \/ StringLenAt[kind] = <<13>> /\ FixedLen[kind] = 14
      \/ StringLenAt[kind] = <<14>> /\ FixedLen[kind] = 15
      \/ StringLenAt[kind] = <<21>> /\ FixedLen[kind] = 22
      \/ StringLenAt[kind] = <<11, 13>> /\ FixedLen[kind] = 14
      \/ StringLenAt[kind] = <<10, 24>> /\ FixedLen[kind] = 39
      \/ StringLenAt[kind] = <<22, 36>> /\ FixedLen[kind] = 51
  BY StringKindsAre DEF StringLenAt, FixedLen
<1> DEFINE Inside(s, n) == s \in Seq(Nat) /\ \A i \in 1 .. Len(s) : s[i] \in Nat /\ s[i] < n
<1>3. ASSUME NEW a \in Nat, NEW n \in Nat, a < n PROVE Inside(<<a>>, n)
  BY <1>3
<1>4. ASSUME NEW a \in Nat, NEW b \in Nat, NEW n \in Nat, a < n, b < n PROVE Inside(<<a, b>>, n)
  BY <1>4
<1> HIDE DEF Inside
<1>5. /\ Inside(<<1>>, 2) /\ Inside(<<13>>, 14) /\ Inside(<<14>>, 15) /\ Inside(<<21>>, 22)
  BY <1>3
<1>6. /\ Inside(<<11, 13>>, 14) /\ Inside(<<10, 24>>, 39) /\ Inside(<<22, 36>>, 51)
  BY <1>4
<1>7. Inside(StringLenAt[kind], FixedLen[kind])
  BY <1>2, <1>5, <1>6
<1> QED
  BY <1>1, <1>7 DEF Inside

LEMMA ByteType ==
    ASSUME NEW f \in Seq(Nat), NEW at \in Nat, at < Len(f)
    PROVE  Byte(f, at) \in Nat
<1>1. at + 1 \in 1 .. Len(f)
  BY LenProperties
<1> QED
  BY <1>1, ElementOfSeq DEF Byte

LEMMA TailLensType ==
    ASSUME NEW kind \in Kinds, NEW f \in Seq(Nat), Len(f) = FixedLen[kind]
    PROVE  TailLens(kind, f) \in Seq(Nat)
<1>1. CASE kind \in DOMAIN StringLenAt
  <2> DEFINE lens == [i \in DOMAIN StringLenAt[kind] |-> Byte(f, StringLenAt[kind][i])]
  <2>1. TailLens(kind, f) = lens
    BY <1>1, StringKindsAre DEF TailLens, Optional
  <2>2. PICK at \in Seq(Nat) :
          at = StringLenAt[kind] /\ \A i \in 1 .. Len(at) : at[i] \in Nat /\ at[i] < FixedLen[kind]
    BY <1>1, StringLensInside
  <2>3. lens = [i \in 1 .. Len(at) |-> Byte(f, at[i])] /\ Len(at) \in Nat
    BY <2>2, LenProperties
  <2>4. \A i \in 1 .. Len(at) : Byte(f, at[i]) \in Nat
    BY <2>2, ByteType
  <2>5. [i \in 1 .. Len(at) |-> Byte(f, at[i])] \in Seq(Nat)
    BY <2>3, <2>4, IsASeq
  <2> QED
    BY <2>1, <2>3, <2>5
<1>2. CASE kind = "Descriptor"
  <2>1. "Descriptor" \notin DOMAIN StringLenAt /\ "Descriptor" \notin Optional
    BY StringKindsAre DEF Optional
  <2>2. TailLens(kind, f) = <<U16(f, 2)>>
    BY <1>2, <2>1 DEF TailLens
  <2>3. 2 \in Nat /\ 2 + 1 \in Nat /\ 2 < Len(f) /\ 2 + 1 < Len(f)
    BY <1>2 DEF FixedLen
  <2>4. Byte(f, 2) \in Nat /\ Byte(f, 2 + 1) \in Nat
    BY <2>3, ByteType
  <2>5. U16(f, 2) \in Nat
    BY <2>4 DEF U16
  <2> QED
    BY <2>2, <2>5
<1>3. CASE kind \in Optional
  <2>1. TailLens(kind, f) = <<IF Flagged(kind, f) THEN 4 ELSE 0>>
    BY <1>3, StringKindsAre DEF TailLens, Optional
  <2> QED
    BY <2>1
<1>4. CASE kind \notin DOMAIN StringLenAt \cup {"Descriptor"} \cup Optional
  BY <1>4 DEF TailLens
<1> QED
  BY <1>1, <1>2, <1>3, <1>4

\* An item of a list is of a kind, too, and the list has a length.
LEMMA ItemKindType ==
    ASSUME NEW kind \in DOMAIN ItemKind
    PROVE  kind \in Kinds /\ ItemKind[kind] \in Kinds \ Optional
BY KindsAre DEF ItemKind, Optional

LEMMA ListLenType ==
    ASSUME NEW kind \in Kinds, NEW f \in Seq(Nat), Len(f) = FixedLen[kind]
    PROVE  /\ ListLen(kind, f) \in Nat /\ Taken(kind, f) \in Nat
           /\ Taken(kind, f) <= ListLen(kind, f) /\ Taken(kind, f) <= ListRoom(kind)
           /\ kind \notin DOMAIN ItemKind => ListLen(kind, f) = 0 /\ Taken(kind, f) = 0
<1>1. ListLen(kind, f) \in Nat
  <2>1. CASE kind = "GetFirmwareParametersResponse"
    <3>1. 8 \in Nat /\ 8 + 1 \in Nat /\ 8 < Len(f) /\ 8 + 1 < Len(f)
      BY <2>1 DEF FixedLen
    <3>2. Byte(f, 8) \in Nat /\ Byte(f, 8 + 1) \in Nat
      BY <3>1, ByteType
    <3> QED
      BY <2>1, <3>2 DEF ListLen, U16
  <2>2. CASE kind = "QueryDeviceIdentifiersResponse"
    <3>1. 8 \in Nat /\ 8 < Len(f)
      BY <2>2 DEF FixedLen
    <3>2. Byte(f, 8) \in Nat
      BY <3>1, ByteType
    <3> QED
      BY <2>2, <3>2 DEF ListLen
  <2> QED
    BY <2>1, <2>2 DEF ListLen
<1>2. kind \notin DOMAIN ItemKind => ListLen(kind, f) = 0
  BY DEF ListLen, ItemKind
<1> QED
  BY <1>1, <1>2, RoomType DEF Taken

-----------------------------------------------------------------------------
(* The recursions of Codecs, one step after another.                       *)

\* One part more: of a sum, of the strings of a block, of a list of items.
Advance(of, kind, b, r, n) ==
    CASE of = "sum"   -> r + n
      [] of = "tails" -> DecodeTail(kind, b, r, n)
      [] of = "items" -> DecodeItem(kind, b, r)

RunIs(of, kind, b, base, ns, n, f) ==
    f = [i \in 0 .. n |-> IF i = 0 THEN base ELSE Advance(of, kind, b, f[i - 1], ns[i])]

LEMMA RunExists ==
    ASSUME NEW of, NEW kind, NEW b, NEW base, NEW ns, NEW n \in Nat
    PROVE  \E f : RunIs(of, kind, b, base, ns, n, f)
<1> DEFINE T == { m \in Nat : \E f : RunIs(of, kind, b, base, ns, m, f) }
<1>1. 0 \in T
  <2> DEFINE f == [i \in 0 .. 0 |-> base]
  <2>1. \A i \in 0 .. 0 : i = 0
    OBVIOUS
  <2>2. RunIs(of, kind, b, base, ns, 0, f)
    BY <2>1 DEF RunIs
  <2> QED
    BY <2>2
<1>2. ASSUME NEW m \in Nat, m \in T
      PROVE  m + 1 \in T
  <2>1. PICK f : RunIs(of, kind, b, base, ns, m, f)
    BY <1>2
  <2> DEFINE g == [i \in 0 .. m + 1 |->
                      IF i = m + 1 THEN Advance(of, kind, b, f[m], ns[m + 1]) ELSE f[i]]
  <2>2. \A i \in 0 .. m + 1 :
           g[i] = IF i = 0 THEN base ELSE Advance(of, kind, b, g[i - 1], ns[i])
    <3>1. TAKE i \in 0 .. m + 1
    <3>2. CASE i = m + 1
      <4>1. g[i - 1] = f[m] /\ i # 0
        BY <3>2
      <4> QED
        BY <3>2, <4>1
    <3>3. CASE i # m + 1
      <4>1. i \in 0 .. m /\ (i # 0 => i - 1 # m + 1 /\ i - 1 \in 0 .. m + 1)
        BY <3>3
      <4>2. f[i] = IF i = 0 THEN base ELSE Advance(of, kind, b, f[i - 1], ns[i])
        BY <2>1, <4>1 DEF RunIs
      <4> QED
        BY <3>3, <4>1, <4>2
    <3> QED
      BY <3>2, <3>3
  <2>3. RunIs(of, kind, b, base, ns, m + 1, g)
    BY <2>2 DEF RunIs
  <2> QED
    BY <2>3
<1> HIDE DEF T
<1>3. Nat \subseteq T
  BY <1>1, <1>2, Induction
<1> QED
  BY <1>3 DEF T

\* A run begins with its base, and each step goes on from the one before.
LEMMA RunSteps ==
    ASSUME NEW of, NEW kind, NEW b, NEW base, NEW ns, NEW n \in Nat,
           NEW f, RunIs(of, kind, b, base, ns, n, f)
    PROVE  /\ f[0] = base
           /\ \A i \in Nat : i < n => f[i + 1] = Advance(of, kind, b, f[i], ns[i + 1])
<1>1. \A i \in 0 .. n : f[i] = IF i = 0 THEN base ELSE Advance(of, kind, b, f[i - 1], ns[i])
  BY DEF RunIs
<1>2. 0 \in 0 .. n
  OBVIOUS
<1>3. ASSUME NEW i \in Nat, i < n
      PROVE  f[i + 1] = Advance(of, kind, b, f[i], ns[i + 1])
  <2>1. i + 1 \in 0 .. n /\ i + 1 # 0 /\ (i + 1) - 1 = i
    BY <1>3
  <2> QED
    BY <1>1, <2>1
<1> QED
  BY <1>1, <1>2, <1>3

\* Each part ends where the one before ended and its length on.
LEMMA EndsSteps ==
    ASSUME NEW lens \in Seq(Nat)
    PROVE  /\ Ends(lens)[0] = 0
           /\ \A i \in Nat : i < Len(lens) => Ends(lens)[i + 1] = Ends(lens)[i] + lens[i + 1]
<1> DEFINE F == CHOOSE f : f = [i \in 0 .. Len(lens) |->
                                   IF i = 0 THEN 0 ELSE f[i - 1] + lens[i]]
<1>1. \A f : [i \in 0 .. Len(lens) |-> IF i = 0 THEN 0 ELSE f[i - 1] + lens[i]]
             = [i \in 0 .. Len(lens) |->
                   IF i = 0 THEN 0 ELSE Advance("sum", "", << >>, f[i - 1], lens[i])]
  BY DEF Advance
<1>2. PICK g : RunIs("sum", "", << >>, 0, lens, Len(lens), g)
  BY RunExists, LenProperties
<1>3. F = [i \in 0 .. Len(lens) |-> IF i = 0 THEN 0 ELSE F[i - 1] + lens[i]]
  <2>1. g = [i \in 0 .. Len(lens) |-> IF i = 0 THEN 0 ELSE g[i - 1] + lens[i]]
    BY ONLY <1>1, <1>2 DEF RunIs
  <2> QED
    BY ONLY <2>1
<1>4. Ends(lens) = F
  BY DEF Ends
<1> HIDE DEF F
<1>5. RunIs("sum", "", << >>, 0, lens, Len(lens), F)
  BY <1>1, <1>3 DEF RunIs
<1>6. PICK count \in Nat : count = Len(lens)
  BY LenProperties
<1>ns. PICK ns : ns = lens
  OBVIOUS
<1>7. /\ F[0] = 0
      /\ \A i \in Nat : i < count => F[i + 1] = Advance("sum", "", << >>, F[i], ns[i + 1])
  <2>1. PICK kind, none, base : kind = "" /\ none = << >> /\ base = 0
    OBVIOUS
  <2>2. RunIs("sum", kind, none, base, ns, count, F)
    BY <1>5, <1>6, <1>ns, <2>1
  <2>3. /\ F[0] = base
        /\ \A i \in Nat : i < count => F[i + 1] = Advance("sum", kind, none, F[i], ns[i + 1])
    BY ONLY <2>2, RunSteps, count \in Nat
  <2> QED
    BY <2>1, <2>3
<1>8. \A r, n : Advance("sum", "", << >>, r, n) = r + n
  BY DEF Advance
<1> QED
  BY <1>4, <1>6, <1>ns, <1>7, <1>8

\* The strings of a block, one after another.
TailsAre(kind, b, at, f, lens, r) ==
    /\ r[0] = Read(f, << >>, << >>, at)
    /\ \A i \in Nat : i < Len(lens) => r[i + 1] = DecodeTail(kind, b, r[i], lens[i + 1])
    /\ DecodeTails(kind, b, at, f, lens) = r[Len(lens)]

LEMMA TailsRun ==
    ASSUME NEW kind, NEW b, NEW at, NEW f, NEW lens \in Seq(Nat)
    PROVE  \E r : TailsAre(kind, b, at, f, lens, r)
<1> DEFINE base == Read(f, << >>, << >>, at)
<1> HIDE DEF base
<1> DEFINE R == CHOOSE r : r = [i \in 0 .. Len(lens) |->
                                   IF i = 0 THEN base ELSE DecodeTail(kind, b, r[i - 1], lens[i])]
<1>1. \A r : [i \in 0 .. Len(lens) |->
                 IF i = 0 THEN base ELSE DecodeTail(kind, b, r[i - 1], lens[i])]
             = [i \in 0 .. Len(lens) |->
                 IF i = 0 THEN base ELSE Advance("tails", kind, b, r[i - 1], lens[i])]
  BY DEF Advance
<1>2. PICK g : RunIs("tails", kind, b, base, lens, Len(lens), g)
  BY RunExists, LenProperties
<1>3. R = [i \in 0 .. Len(lens) |->
              IF i = 0 THEN base ELSE DecodeTail(kind, b, R[i - 1], lens[i])]
  <2>1. g = [i \in 0 .. Len(lens) |->
                IF i = 0 THEN base ELSE DecodeTail(kind, b, g[i - 1], lens[i])]
    BY ONLY <1>1, <1>2 DEF RunIs
  <2> QED
    BY ONLY <2>1
<1>4. DecodeTails(kind, b, at, f, lens) = R[Len(lens)]
  BY DEF DecodeTails, base
<1> HIDE DEF R
<1>5. RunIs("tails", kind, b, base, lens, Len(lens), R)
  BY <1>1, <1>3 DEF RunIs
<1>6. PICK count \in Nat : count = Len(lens)
  BY LenProperties
<1>ns. PICK ns : ns = lens
  OBVIOUS
<1>7. /\ R[0] = base
      /\ \A i \in Nat : i < Len(lens) => R[i + 1] = DecodeTail(kind, b, R[i], lens[i + 1])
  <2>1. RunIs("tails", kind, b, base, ns, count, R)
    BY <1>5, <1>6, <1>ns
  <2>2. /\ R[0] = base
        /\ \A i \in Nat : i < count => R[i + 1] = Advance("tails", kind, b, R[i], ns[i + 1])
    BY ONLY <2>1, RunSteps, count \in Nat
  <2>3. \A r, n : Advance("tails", kind, b, r, n) = DecodeTail(kind, b, r, n)
    BY DEF Advance
  <2> QED
    BY <1>6, <1>ns, <2>2, <2>3
<1>8. TailsAre(kind, b, at, f, lens, R)
  BY <1>4, <1>7 DEF base, TailsAre
<1> QED
  BY <1>8

\* The items of a list, one after another.
ItemsAre(kind, b, block, count, r) ==
    /\ r[0] = block
    /\ \A i \in Nat : i < count => r[i + 1] = DecodeItem(kind, b, r[i])
    /\ DecodeItems(kind, b, block, count) = r[count]

LEMMA ItemsRun ==
    ASSUME NEW kind, NEW b, NEW block, NEW count \in Nat
    PROVE  \E r : ItemsAre(kind, b, block, count, r)
<1> DEFINE R == CHOOSE r : r = [i \in 0 .. count |->
                                   IF i = 0 THEN block ELSE DecodeItem(kind, b, r[i - 1])]
           none == [i \in Nat |-> 0]
<1>1. \A r : [i \in 0 .. count |-> IF i = 0 THEN block ELSE DecodeItem(kind, b, r[i - 1])]
             = [i \in 0 .. count |->
                   IF i = 0 THEN block ELSE Advance("items", kind, b, r[i - 1], none[i])]
  BY DEF Advance
<1> HIDE DEF none
<1>2. PICK g : RunIs("items", kind, b, block, none, count, g)
  BY RunExists
<1>3. R = [i \in 0 .. count |-> IF i = 0 THEN block ELSE DecodeItem(kind, b, R[i - 1])]
  BY <1>1, <1>2 DEF RunIs
<1>4. DecodeItems(kind, b, block, count) = R[count]
  BY DEF DecodeItems
<1> HIDE DEF R
<1>5. RunIs("items", kind, b, block, none, count, R)
  BY <1>1, <1>3 DEF RunIs
<1>6. /\ R[0] = block
      /\ \A i \in Nat : i < count => R[i + 1] = DecodeItem(kind, b, R[i])
  BY <1>5, RunSteps DEF Advance
<1>7. ItemsAre(kind, b, block, count, R)
  BY <1>4, <1>6 DEF ItemsAre
<1> QED
  BY <1>7

-----------------------------------------------------------------------------
(* Where the parts of a block end, and what stands between.                *)

LEMMA EndsType ==
    ASSUME NEW lens \in Seq(Nat)
    PROVE  \A i \in 0 .. Len(lens) : Ends(lens)[i] \in Nat
<1> DEFINE T == { i \in Nat : i <= Len(lens) => Ends(lens)[i] \in Nat }
<1>1. 0 \in T
  BY EndsSteps
<1>2. ASSUME NEW i \in Nat, i \in T
      PROVE  i + 1 \in T
  <2>1. SUFFICES ASSUME i + 1 <= Len(lens) PROVE Ends(lens)[i + 1] \in Nat
    OBVIOUS
  <2>2. Len(lens) \in Nat /\ i < Len(lens) /\ i <= Len(lens) /\ i + 1 \in 1 .. Len(lens)
    BY <2>1, LenProperties
  <2>3. Ends(lens)[i] \in Nat /\ lens[i + 1] \in Nat
    BY <1>2, <2>2, ElementOfSeq
  <2>4. Ends(lens)[i + 1] = Ends(lens)[i] + lens[i + 1]
    BY <2>2, EndsSteps
  <2> QED
    BY <2>3, <2>4
<1> HIDE DEF T
<1>3. Nat \subseteq T
  BY <1>1, <1>2, Induction
<1> QED
  BY <1>3 DEF T

\* A part ends no later than those behind it.
LEMMA EndsGrow ==
    ASSUME NEW lens \in Seq(Nat), NEW i \in 0 .. Len(lens)
    PROVE  \A j \in i .. Len(lens) : Ends(lens)[i] <= Ends(lens)[j]
<1> DEFINE T == { j \in Nat : i <= j /\ j <= Len(lens) => Ends(lens)[i] <= Ends(lens)[j] }
<1>1. Ends(lens)[i] \in Nat /\ Len(lens) \in Nat
  BY EndsType, LenProperties
<1>2. 0 \in T
  <2>1. i <= 0 => i = 0
    OBVIOUS
  <2> QED
    BY <1>1, <2>1
<1>3. ASSUME NEW j \in Nat, j \in T
      PROVE  j + 1 \in T
  <2>1. SUFFICES ASSUME i <= j + 1, j + 1 <= Len(lens)
                 PROVE  Ends(lens)[i] <= Ends(lens)[j + 1]
    OBVIOUS
  <2>2. CASE i = j + 1
    BY <1>1, <2>2
  <2>3. CASE i # j + 1
    <3>1. i <= j /\ j <= Len(lens) /\ j < Len(lens) /\ j \in 0 .. Len(lens) /\ j + 1 \in 1 .. Len(lens)
      BY <1>1, <2>1, <2>3
    <3>2. Ends(lens)[j] \in Nat /\ lens[j + 1] \in Nat /\ Ends(lens)[i] <= Ends(lens)[j]
      BY <1>3, <3>1, EndsType, ElementOfSeq
    <3>3. Ends(lens)[j + 1] = Ends(lens)[j] + lens[j + 1]
      BY <3>1, EndsSteps
    <3> QED
      BY <1>1, <3>2, <3>3
  <2> QED
    BY <2>2, <2>3
<1> HIDE DEF T
<1>4. Nat \subseteq T
  BY <1>2, <1>3, Induction
<1> QED
  BY <1>1, <1>4 DEF T

\* The first k strings of lengths lens that stand at a place of b.
Parts(b, at, lens, k) ==
    [i \in 1 .. k |-> SubSeq(b, at + Ends(lens)[i - 1] + 1, at + Ends(lens)[i])]

\* A stretch of a sequence.
LEMMA Stretch ==
    ASSUME NEW S, NEW s \in Seq(S), NEW m \in Nat, NEW n \in Nat, m <= n, n <= Len(s)
    PROVE  /\ SubSeq(s, m + 1, n) \in Seq(S) /\ Len(SubSeq(s, m + 1, n)) = n - m
           /\ \A i \in 1 .. n - m : SubSeq(s, m + 1, n)[i] = s[m + i]
<1>1. Len(s) \in Nat /\ \A i \in m + 1 .. n : i \in 1 .. Len(s)
  BY LenProperties
<1>2. \A i \in m + 1 .. n : s[i] \in S
  BY <1>1, ElementOfSeq
<1>3. m + 1 \in Int /\ n \in Int /\ n - (m + 1) + 1 = n - m
  OBVIOUS
<1>4. /\ SubSeq(s, m + 1, n) \in Seq(S)
      /\ Len(SubSeq(s, m + 1, n)) = IF m + 1 <= n THEN n - (m + 1) + 1 ELSE 0
      /\ \A i \in 1 .. n - (m + 1) + 1 : SubSeq(s, m + 1, n)[i] = s[(m + 1) + i - 1]
  BY <1>2, <1>3, SubSeqProperties
<1>5. \A i \in 1 .. n - m : (m + 1) + i - 1 = m + i
  OBVIOUS
<1> QED
  BY <1>3, <1>4, <1>5

\* Two stretches, one behind the other.
LEMMA StretchOn ==
    ASSUME NEW S, NEW s \in Seq(S), NEW m \in Nat, NEW k \in Nat, NEW n \in Nat,
           m <= k, k <= n, n <= Len(s)
    PROVE  SubSeq(s, m + 1, k) \o SubSeq(s, k + 1, n) = SubSeq(s, m + 1, n)
<1>1. Len(s) \in Nat /\ m + 1 \in 1 .. Len(s) + 1 /\ k \in (m + 1) - 1 .. Len(s) /\ n \in k .. Len(s)
  BY LenProperties
<1> QED
  BY <1>1, ConcatAdjacentSubSeq

LEMMA PartsType ==
    ASSUME NEW b \in Seq(Nat), NEW at \in Nat, NEW lens \in Seq(Nat),
           NEW k \in 0 .. Len(lens), at + Ends(lens)[k] <= Len(b)
    PROVE  /\ Parts(b, at, lens, k) \in Seq(Seq(Nat))
           /\ Len(Parts(b, at, lens, k)) = k
           /\ \A i \in 1 .. k : /\ Parts(b, at, lens, k)[i] \in Seq(Nat)
                                /\ Len(Parts(b, at, lens, k)[i]) = lens[i]
<1>1. k \in Nat /\ Len(lens) \in Nat /\ Len(b) \in Nat /\ Ends(lens)[k] \in Nat
  BY LenProperties, EndsType
<1>2. ASSUME NEW i \in 1 .. k
      PROVE  /\ SubSeq(b, at + Ends(lens)[i - 1] + 1, at + Ends(lens)[i]) \in Seq(Nat)
             /\ Len(SubSeq(b, at + Ends(lens)[i - 1] + 1, at + Ends(lens)[i])) = lens[i]
  <2>1. /\ i - 1 \in Nat /\ i - 1 < Len(lens) /\ (i - 1) + 1 = i /\ k \in i .. Len(lens)
        /\ i \in 1 .. Len(lens) /\ i \in 0 .. Len(lens) /\ i - 1 \in 0 .. Len(lens)
    BY <1>1
  <2>2. PICK p \in Nat, q \in Nat : p = Ends(lens)[i - 1] /\ q = Ends(lens)[i]
    <3>1. Ends(lens)[i - 1] \in Nat /\ Ends(lens)[i] \in Nat
      BY <2>1, EndsType
    <3> QED
      BY <3>1
  <2>3. PICK l \in Nat : l = lens[i]
    BY <2>1, ElementOfSeq
  <2>4. q = p + l
    BY <2>1, <2>2, <2>3, EndsSteps
  <2>5. PICK e \in Nat : e = Ends(lens)[k] /\ q <= e
    BY <1>1, <2>1, <2>2, EndsGrow
  <2>6. PICK size \in Nat : size = Len(b) /\ at + e <= size
    BY <1>1, <2>5
  <2>7. PICK m \in Nat, n \in Nat : m = at + p /\ n = at + q
    OBVIOUS
  <2>8. m <= n /\ n <= size /\ n - m = l
    BY <2>4, <2>5, <2>6, <2>7
  <2>9. SubSeq(b, m + 1, n) \in Seq(Nat) /\ Len(SubSeq(b, m + 1, n)) = n - m
    <3>1. m <= n /\ n <= Len(b)
      BY <2>6, <2>8
    <3> QED
      BY ONLY <3>1, Stretch, b \in Seq(Nat), m \in Nat, n \in Nat
  <2> QED
    BY <2>2, <2>3, <2>7, <2>8, <2>9
<1> DEFINE P(i) == SubSeq(b, at + Ends(lens)[i - 1] + 1, at + Ends(lens)[i])
<1>3. \A i \in 1 .. k : P(i) \in Seq(Nat) /\ Len(P(i)) = lens[i]
  BY <1>2
<1>4. Parts(b, at, lens, k) = [i \in 1 .. k |-> P(i)]
  BY DEF Parts
<1> HIDE DEF P
<1>5. [i \in 1 .. k |-> P(i)] \in Seq(Seq(Nat))
  BY <1>1, <1>3, IsASeq
<1>6. Len([i \in 1 .. k |-> P(i)]) = k
  BY <1>1
<1> QED
  BY <1>3, <1>4, <1>5, <1>6

\* One behind the other they are what stands there.
LEMMA PartsFlat ==
    ASSUME NEW b \in Seq(Nat), NEW at \in Nat, NEW lens \in Seq(Nat),
           at + Total(lens) <= Len(b)
    PROVE  \A k \in 0 .. Len(lens) :
              Flat(Parts(b, at, lens, Len(lens)), k) = SubSeq(b, at + 1, at + Ends(lens)[k])
<1>1. PICK len \in Nat, size \in Nat : len = Len(lens) /\ size = Len(b)
  BY LenProperties
<1>2. len \in 0 .. len /\ Total(lens) = Ends(lens)[len] /\ Ends(lens)[len] \in Nat
  BY <1>1, EndsType DEF Total
<1>3. PICK ps \in Seq(Seq(Nat)) : ps = Parts(b, at, lens, len) /\ Len(ps) = len
  BY <1>1, <1>2, PartsType
<1> DEFINE T == { k \in Nat : k <= len => Flat(ps, k) = SubSeq(b, at + 1, at + Ends(lens)[k]) }
<1>4. 0 \in T
  <2>1. Ends(lens)[0] = 0 /\ at + 0 = at
    BY EndsSteps
  <2>2. SubSeq(b, at + 1, at) = << >>
    <3>1. at + 1 \in Int /\ at \in Int /\ at < at + 1
      OBVIOUS
    <3> QED
      BY <3>1, SubSeqEmpty
  <2> QED
    BY <2>1, <2>2, FlatNone
<1>5. ASSUME NEW k \in Nat, k \in T
      PROVE  k + 1 \in T
  <2>1. SUFFICES ASSUME k + 1 <= len
                 PROVE  Flat(ps, k + 1) = SubSeq(b, at + 1, at + Ends(lens)[k + 1])
    OBVIOUS
  <2>2. /\ k < len /\ k <= len /\ k \in 0 .. len /\ k + 1 \in 0 .. len /\ k + 1 \in 1 .. len
        /\ len \in k + 1 .. len /\ (k + 1) - 1 = k /\ k + 1 \in k .. len
    BY <2>1
  <2>3. Flat(ps, k + 1) = Flat(ps, k) \o ps[k + 1]
    BY <1>3, <2>2, FlatNext
  <2>4. Flat(ps, k) = SubSeq(b, at + 1, at + Ends(lens)[k])
    BY <1>5, <2>2
  <2>5. ps[k + 1] = SubSeq(b, at + Ends(lens)[k] + 1, at + Ends(lens)[k + 1])
    BY <1>3, <2>2 DEF Parts
  <2>6. PICK p \in Nat, q \in Nat : p = Ends(lens)[k] /\ q = Ends(lens)[k + 1]
    <3>1. Ends(lens)[k] \in Nat /\ Ends(lens)[k + 1] \in Nat
      BY <1>1, <2>2, EndsType
    <3> QED
      BY <3>1
  <2>7. PICK e \in Nat : e = Ends(lens)[len] /\ q <= e /\ p <= q
    BY <1>1, <1>2, <2>2, <2>6, EndsGrow
  <2>8. at + e <= size
    BY <1>1, <1>2, <2>7
  <2>9. PICK m \in Nat, n \in Nat : m = at + p /\ n = at + q
    OBVIOUS
  <2>10. at <= m /\ m <= n /\ n <= Len(b)
    BY <1>1, <2>7, <2>8, <2>9
  <2>11. SubSeq(b, at + 1, m) \o SubSeq(b, m + 1, n) = SubSeq(b, at + 1, n)
    BY ONLY <2>10, StretchOn, b \in Seq(Nat), at \in Nat, m \in Nat, n \in Nat
  <2> QED
    BY <2>3, <2>4, <2>5, <2>6, <2>9, <2>11
<1> HIDE DEF T
<1>6. Nat \subseteq T
  BY <1>4, <1>5, Induction
<1> QED
  BY <1>1, <1>3, <1>6 DEF T

\* One string more.
LEMMA PartsNext ==
    ASSUME NEW b \in Seq(Nat), NEW at \in Nat, NEW lens \in Seq(Nat),
           NEW k \in Nat, k < Len(lens), at + Ends(lens)[k + 1] <= Len(b)
    PROVE  Parts(b, at, lens, k + 1)
               = Append(Parts(b, at, lens, k),
                        SubSeq(b, at + Ends(lens)[k] + 1, at + Ends(lens)[k + 1]))
<1> DEFINE new == SubSeq(b, at + Ends(lens)[k] + 1, at + Ends(lens)[k + 1])
<1>1. /\ k + 1 \in 0 .. Len(lens) /\ k \in 0 .. Len(lens) /\ k + 1 \in k .. Len(lens)
      /\ k + 1 \in 1 .. k + 1 /\ (k + 1) - 1 = k
  BY LenProperties
<1>2. /\ Ends(lens)[k] \in Nat /\ Ends(lens)[k + 1] \in Nat /\ Len(b) \in Nat
      /\ Ends(lens)[k] <= Ends(lens)[k + 1]
  BY <1>1, EndsType, EndsGrow, LenProperties
<1>3. PICK n \in Nat : n = k + 1
  OBVIOUS
<1>4. PICK long \in Seq(Seq(Nat)) :
        /\ long = Parts(b, at, lens, n) /\ Len(long) = n
        /\ \A i \in 1 .. n : long[i] \in Seq(Nat)
  <2>1. n \in 0 .. Len(lens) /\ at + Ends(lens)[n] <= Len(b)
    BY <1>1, <1>3
  <2> QED
    BY <2>1, PartsType
<1>5. PICK short \in Seq(Seq(Nat)) : short = Parts(b, at, lens, k) /\ Len(short) = k
  <2>1. at + Ends(lens)[k] <= Len(b)
    BY <1>2
  <2> QED
    BY <1>1, <2>1, PartsType
<1>6. long[n] = new /\ long[n] \in Seq(Nat)
  BY <1>1, <1>3, <1>4 DEF Parts
<1>7. \A i \in 1 .. k : long[i] = short[i]
  <2>1. \A i \in 1 .. k : i \in 1 .. n
    BY <1>3
  <2> QED
    BY <1>4, <1>5, <2>1 DEF Parts
<1> HIDE DEF new
<1>8. /\ Append(short, new) \in Seq(Seq(Nat)) /\ Len(Append(short, new)) = k + 1
      /\ \A i \in 1 .. k : Append(short, new)[i] = short[i]
      /\ Append(short, new)[k + 1] = new
  BY <1>5, <1>6, AppendProperties, SMTT(30)
<1>9. \A i \in 1 .. n : long[i] = Append(short, new)[i]
  BY <1>3, <1>6, <1>7, <1>8
<1>10. long = Append(short, new)
  BY <1>3, <1>4, <1>8, <1>9, SeqEqual, SMTT(30)
<1> QED
  BY <1>3, <1>4, <1>5, <1>10 DEF new

-----------------------------------------------------------------------------
(* What decode comes to, whatever the bytes.                               *)

\* A string is refused, missing or taken.
LEMMA TailRead ==
    ASSUME NEW kind, NEW b, NEW f, NEW tails, NEW at \in Nat, NEW n \in Nat,
           Len(b) \in Nat
    PROVE  DecodeTail(kind, b, Read(f, tails, << >>, at), n)
               = IF n > TailRoom(kind) THEN Fail("InvalidData")
                 ELSE IF at + n > Len(b) THEN Fail("BufferTooShort")
                 ELSE Read(f, Append(tails, SubSeq(b, at + 1, at + n)), << >>, at + n)
<1>1. TailRoom(kind) \in Nat
  BY RoomType
<1> DEFINE r == Read(f, tails, << >>, at)
<1>2. /\ r.tag = "ok" /\ r.fixed = f /\ r.tails = tails
      /\ r.items = << >> /\ r.at = at
  BY DEF Read
<1> HIDE DEF r
<1>3. DecodeTail(kind, b, r, n)
        = IF n > TailRoom(kind) THEN Fail("InvalidData")
          ELSE IF at + n > Len(b) THEN Fail("BufferTooShort")
          ELSE Read(f, Append(tails, SubSeq(b, at + 1, at + n)), << >>, at + n)
  BY <1>1, <1>2 DEF DecodeTail, TailInRoom, Fits
<1> QED
  BY <1>3 DEF r

TailsOrError(kind, b, at, f, lens, d) ==
    \/ /\ d = Fail("InvalidData")
       /\ \E j \in 1 .. Len(lens) : lens[j] > TailRoom(kind)
    \/ /\ d = Fail("BufferTooShort")
       /\ at + Total(lens) > Len(b)
    \/ /\ d = Read(f, Parts(b, at, lens, Len(lens)), << >>, at + Total(lens))
       /\ at + Total(lens) <= Len(b)
       /\ \A j \in 1 .. Len(lens) : lens[j] <= TailRoom(kind)

LEMMA TailsRead ==
    ASSUME NEW kind, NEW b \in Seq(Nat), NEW at \in Nat, NEW f, NEW lens \in Seq(Nat),
           at <= Len(b)
    PROVE  TailsOrError(kind, b, at, f, lens, DecodeTails(kind, b, at, f, lens))
<1>1. PICK len \in Nat, size \in Nat, room \in Nat :
        len = Len(lens) /\ size = Len(b) /\ room = TailRoom(kind)
  BY LenProperties, RoomType
<1>2. PICK r :
        /\ r[0] = Read(f, << >>, << >>, at)
        /\ \A i \in Nat : i < len => r[i + 1] = DecodeTail(kind, b, r[i], lens[i + 1])
        /\ DecodeTails(kind, b, at, f, lens) = r[len]
  <2>1. PICK r : TailsAre(kind, b, at, f, lens, r)
    BY TailsRun
  <2> QED
    BY <1>1, <2>1 DEF TailsAre
<1> DEFINE State(k) ==
             \/ /\ r[k] = Fail("InvalidData")
                /\ \E j \in 1 .. len : lens[j] > room
             \/ /\ r[k] = Fail("BufferTooShort")
                /\ at + Ends(lens)[k] > size
             \/ /\ r[k] = Read(f, Parts(b, at, lens, k), << >>, at + Ends(lens)[k])
                /\ at + Ends(lens)[k] <= size
                /\ \A j \in 1 .. k : lens[j] <= room
           T == { k \in Nat : k <= len => State(k) }
<1>3. 0 \in T
  <2>1. Ends(lens)[0] = 0
    BY EndsSteps
  <2>2. Parts(b, at, lens, 0) = << >>
    <3>1. 1 .. 0 = {}
      OBVIOUS
    <3> QED
      BY <3>1 DEF Parts
  <2> QED
    BY <1>1, <1>2, <2>1, <2>2
<1>4. ASSUME NEW k \in Nat, k \in T
      PROVE  k + 1 \in T
  <2>1. SUFFICES ASSUME k + 1 <= len PROVE State(k + 1)
    OBVIOUS
  <2>2. k < len /\ k <= len /\ k \in 0 .. len /\ k + 1 \in 1 .. len /\ k + 1 \in 0 .. len
    BY <2>1
  <2>3. PICK p \in Nat, q \in Nat : p = Ends(lens)[k] /\ q = Ends(lens)[k + 1]
    <3>1. Ends(lens)[k] \in Nat /\ Ends(lens)[k + 1] \in Nat
      BY <1>1, <2>2, EndsType
    <3> QED
      BY <3>1
  <2>4. PICK n \in Nat : n = lens[k + 1]
    BY <1>1, <2>2, ElementOfSeq
  <2>5. q = p + n /\ r[k + 1] = DecodeTail(kind, b, r[k], n)
    BY <1>1, <1>2, <2>2, <2>3, <2>4, EndsSteps
  <2>6. State(k)
    BY <1>4, <2>2
  <2>7. CASE r[k] = Fail("InvalidData") /\ \E j \in 1 .. len : lens[j] > room
    <3>1. r[k + 1] = Fail("InvalidData")
      BY <2>5, <2>7 DEF DecodeTail, Fail
    <3> QED
      BY <2>7, <3>1
  <2>8. CASE r[k] = Fail("BufferTooShort") /\ at + Ends(lens)[k] > size
    <3>1. r[k + 1] = Fail("BufferTooShort")
      BY <2>5, <2>8 DEF DecodeTail, Fail
    <3>2. at + q > size
      BY <2>3, <2>5, <2>8, SMTT(30)
    <3> QED
      BY <2>3, <3>1, <3>2
  <2>9. CASE /\ r[k] = Read(f, Parts(b, at, lens, k), << >>, at + Ends(lens)[k])
             /\ at + Ends(lens)[k] <= size
             /\ \A j \in 1 .. k : lens[j] <= room
    <3>1. PICK m \in Nat : m = at + p
      OBVIOUS
    <3>tails. PICK tails : tails = Parts(b, at, lens, k)
      OBVIOUS
    <3>2. r[k] = Read(f, tails, << >>, m)
      BY <2>3, <2>9, <3>1, <3>tails
    <3>3. Len(b) \in Nat
      BY <1>1
    <3>4. DecodeTail(kind, b, Read(f, tails, << >>, m), n)
            = IF n > TailRoom(kind) THEN Fail("InvalidData")
              ELSE IF m + n > Len(b) THEN Fail("BufferTooShort")
              ELSE Read(f, Append(tails, SubSeq(b, m + 1, m + n)), << >>, m + n)
      BY ONLY <3>3, TailRead, m \in Nat, n \in Nat
    <3>5. m + n = at + q
      BY <2>5, <3>1
    <3>6. CASE n > room
      <4>1. r[k + 1] = Fail("InvalidData")
        BY <1>1, <2>5, <3>2, <3>4, <3>6
      <4> QED
        BY <2>2, <2>4, <3>6, <4>1
    <3>7. CASE n <= room /\ m + n > size
      <4>1. r[k + 1] = Fail("BufferTooShort")
        BY <1>1, <2>5, <3>2, <3>4, <3>7
      <4> QED
        BY <2>3, <3>5, <3>7, <4>1
    <3>8. CASE n <= room /\ m + n <= size
      <4>1. r[k + 1] = Read(f, Append(tails, SubSeq(b, m + 1, m + n)), << >>, m + n)
        BY <1>1, <2>5, <3>2, <3>4, <3>8
      <4>2. at + Ends(lens)[k + 1] <= Len(b) /\ k < Len(lens)
        BY <1>1, <2>2, <2>3, <3>5, <3>8
      <4>3. Parts(b, at, lens, k + 1) = Append(tails, SubSeq(b, m + 1, m + n))
        <5>1. Parts(b, at, lens, k + 1)
                = Append(Parts(b, at, lens, k),
                         SubSeq(b, at + Ends(lens)[k] + 1, at + Ends(lens)[k + 1]))
          BY <4>2, PartsNext
        <5>2. at + Ends(lens)[k] + 1 = m + 1 /\ at + Ends(lens)[k + 1] = m + n
          BY <2>3, <3>1, <3>5
        <5> QED
          BY <3>tails, <5>1, <5>2
      <4>4. \A j \in 1 .. k + 1 : lens[j] <= room
        <5>1. \A j \in 1 .. k + 1 : j \in 1 .. k \/ j = k + 1
          OBVIOUS
        <5> QED
          BY <2>4, <2>9, <3>8, <5>1
      <4> QED
        BY <2>3, <3>5, <3>8, <4>1, <4>3, <4>4
    <3> QED
      BY <3>6, <3>7, <3>8
  <2> QED
    BY <2>6, <2>7, <2>8, <2>9
<1> HIDE DEF T, State
<1>5. Nat \subseteq T
  BY <1>3, <1>4, Induction
<1>6. State(len)
  BY <1>5 DEF T
<1> QED
  BY <1>1, <1>2, <1>6 DEF State, Total, TailsOrError

\* A block that decodes and encodes without loss: as many strings as it has
\* lengths, each as long as it says and inside its array.
Fitting(kind, b) ==
    /\ b.fixed \in Seq(Nat) /\ Len(b.fixed) = FixedLen[kind]
    /\ b.tails \in Seq(Seq(Nat)) /\ Len(b.tails) = Len(TailLens(kind, b.fixed))
    /\ \A i \in 1 .. Len(b.tails) : /\ Len(b.tails[i]) = TailLens(kind, b.fixed)[i]
                                    /\ Len(b.tails[i]) <= TailRoom(kind)

\* The lengths add up to what the parts are together.
LEMMA EndsAreLengths ==
    ASSUME NEW S, NEW ss \in Seq(Seq(S)), NEW lens \in Seq(Nat), Len(ss) = Len(lens),
           \A i \in 1 .. Len(ss) : Len(ss[i]) = lens[i]
    PROVE  \A k \in 0 .. Len(ss) : Ends(lens)[k] = Len(Flat(ss, k))
<1> DEFINE T == { k \in Nat : k <= Len(ss) => Ends(lens)[k] = Len(Flat(ss, k)) }
<1>1. 0 \in T
  BY EndsSteps, FlatNone, EmptySeq
<1>2. ASSUME NEW k \in Nat, k \in T
      PROVE  k + 1 \in T
  <2>1. SUFFICES ASSUME k + 1 <= Len(ss) PROVE Ends(lens)[k + 1] = Len(Flat(ss, k + 1))
    OBVIOUS
  <2>2. Len(ss) \in Nat
    BY LenProperties
  <2>3. k < Len(ss) /\ k <= Len(ss) /\ k + 1 \in 1 .. Len(ss) /\ k \in 0 .. Len(ss)
    BY <2>1, <2>2
  <2>4. Ends(lens)[k + 1] = Ends(lens)[k] + lens[k + 1]
    BY <2>3, EndsSteps
  <2>5. Flat(ss, k + 1) = Flat(ss, k) \o ss[k + 1]
    BY <2>3, FlatNext
  <2>6. PICK front \in Seq(S) : front = Flat(ss, k)
    BY <2>3, FlatType
  <2>7. PICK item \in Seq(S) : item = ss[k + 1]
    BY <2>3, ElementOfSeq
  <2>8. Len(front \o item) = Len(front) + Len(item)
    BY ConcatProperties
  <2> QED
    BY <1>2, <2>3, <2>4, <2>5, <2>6, <2>7, <2>8
<1> HIDE DEF T
<1>3. Nat \subseteq T
  BY <1>1, <1>2, Induction
<1> QED
  BY <1>3, LenProperties DEF T

\* What a block is in bytes.
LEMMA BlockBytesType ==
    ASSUME NEW kind \in Kinds, NEW b, Fitting(kind, b)
    PROVE  /\ TailLens(kind, b.fixed) \in Seq(Nat) /\ Total(TailLens(kind, b.fixed)) \in Nat
           /\ FlattenSeq(b.tails) \in Seq(Nat)
           /\ Len(FlattenSeq(b.tails)) = Total(TailLens(kind, b.fixed))
           /\ BlockBytes(b) \in Seq(Nat)
           /\ Len(BlockBytes(b)) = FixedLen[kind] + Total(TailLens(kind, b.fixed))
<1>1. PICK f \in Seq(Nat) : f = b.fixed /\ Len(f) = FixedLen[kind]
  BY DEF Fitting
<1>2. PICK tails \in Seq(Seq(Nat)) : tails = b.tails
  BY DEF Fitting
<1>3. PICK lens \in Seq(Nat) : lens = TailLens(kind, f)
  BY <1>1, TailLensType
<1>4. Len(tails) = Len(lens) /\ \A i \in 1 .. Len(tails) : Len(tails[i]) = lens[i]
  BY <1>1, <1>2, <1>3 DEF Fitting
<1>5. PICK count \in Nat : count = Len(tails)
  BY LenProperties
<1>6. Ends(lens)[count] = Len(Flat(tails, count)) /\ count \in 0 .. Len(tails)
  BY <1>4, <1>5, EndsAreLengths
<1>7. PICK flat \in Seq(Nat) : flat = FlattenSeq(tails) /\ flat = Flat(tails, count)
  BY <1>5, <1>6, FlatType, FlatAll
<1>8. Total(lens) = Len(flat) /\ Len(flat) \in Nat
  BY <1>4, <1>5, <1>6, <1>7, LenProperties DEF Total
<1>9. f \o flat \in Seq(Nat) /\ Len(f \o flat) = Len(f) + Len(flat)
  BY ConcatProperties
<1> QED
  BY <1>1, <1>2, <1>3, <1>7, <1>8, <1>9 DEF BlockBytes

\* A block is missing its fixed part, or its strings are read behind it.
LEMMA BlockCases ==
    ASSUME NEW kind \in Kinds, NEW b \in Seq(Nat), NEW at \in Nat, NEW head \in Nat,
           head = at + FixedLen[kind]
    PROVE  DecodeBlock(kind, b, at)
               = IF head > Len(b) THEN Fail("BufferTooShort")
                 ELSE DecodeTails(kind, b, head, SubSeq(b, at + 1, head),
                                  TailLens(kind, SubSeq(b, at + 1, head)))
<1>1. /\ FixedLen[kind] \in Nat /\ MinSize(kind) \in Int /\ IndexedSize(kind) \in Int
      /\ IndexedSize(kind) <= MinSize(kind) /\ MinSize(kind) <= FixedLen[kind]
  BY FixedLenType DEF MinSize, IndexedSize
<1>2. Len(b) \in Nat
  BY LenProperties
<1>3. Fits(b, at, MinSize(kind)) => Fits(b, at, IndexedSize(kind))
  BY <1>1, <1>2 DEF Fits
<1>4. ~ Fits(b, at, MinSize(kind)) => head > Len(b)
  BY <1>1, <1>2 DEF Fits
<1>5. Fits(b, at, FixedLen[kind]) <=> ~ (head > Len(b))
  BY <1>1, <1>2 DEF Fits
<1> QED
  BY <1>3, <1>4, <1>5 DEF DecodeBlock

\* A block that stands in b, between two places.
StandsAt(kind, b, at, block, end) ==
    /\ Fitting(kind, block)
    /\ end \in Nat /\ at <= end /\ end <= Len(b)
    /\ BlockBytes(block) = SubSeq(b, at + 1, end)

BlockOrError(kind, b, at, d) ==
    \/ d = Fail("BufferTooShort")
    \/ d = Fail("InvalidData")
    \/ \E f, tails, end : /\ d = Read(f, tails, << >>, end)
                          /\ StandsAt(kind, b, at, Block(f, tails), end)

\* Whatever the bytes, decode finds a block there that fits its arrays, or says
\* that it does not.
LEMMA BlockRead ==
    ASSUME NEW kind \in Kinds, NEW b \in Seq(Nat), NEW at \in Nat
    PROVE  BlockOrError(kind, b, at, DecodeBlock(kind, b, at))
<1>1. PICK size \in Nat, fix \in Nat, head \in Nat :
        size = Len(b) /\ fix = FixedLen[kind] /\ head = at + fix
  BY LenProperties, FixedLenType
<1>2. CASE head > Len(b)
  <2>1. DecodeBlock(kind, b, at) = Fail("BufferTooShort")
    BY <1>1, <1>2, BlockCases
  <2> QED
    BY <2>1 DEF BlockOrError
<1>3. CASE ~ (head > Len(b))
  <2>1. at <= head /\ head <= Len(b) /\ head - at = fix
    BY <1>1, <1>3
  <2>2. PICK f \in Seq(Nat) : f = SubSeq(b, at + 1, head) /\ Len(f) = FixedLen[kind]
    <3>1. SubSeq(b, at + 1, head) \in Seq(Nat) /\ Len(SubSeq(b, at + 1, head)) = head - at
      BY ONLY <2>1, Stretch, b \in Seq(Nat), at \in Nat, head \in Nat
    <3> QED
      BY <1>1, <2>1, <3>1
  <2>3. PICK lens \in Seq(Nat) : lens = TailLens(kind, f)
    BY <2>2, TailLensType
  <2>4. DecodeBlock(kind, b, at) = DecodeTails(kind, b, head, f, lens)
    BY <1>1, <1>3, <2>2, <2>3, BlockCases
  <2>5. PICK d : d = DecodeTails(kind, b, head, f, lens) /\ TailsOrError(kind, b, head, f, lens, d)
    <3>1. head <= Len(b)
      BY <2>1
    <3> QED
      BY <3>1, TailsRead
  <2>6. \/ d = Fail("InvalidData")
        \/ d = Fail("BufferTooShort")
        \/ /\ d = Read(f, Parts(b, head, lens, Len(lens)), << >>, head + Total(lens))
           /\ head + Total(lens) <= Len(b)
           /\ \A j \in 1 .. Len(lens) : lens[j] <= TailRoom(kind)
    BY <2>5 DEF TailsOrError
  <2>7. CASE /\ d = Read(f, Parts(b, head, lens, Len(lens)), << >>, head + Total(lens))
             /\ head + Total(lens) <= Len(b)
             /\ \A j \in 1 .. Len(lens) : lens[j] <= TailRoom(kind)
    <3>1. PICK count \in Nat : count = Len(lens) /\ count \in 0 .. Len(lens)
      BY LenProperties
    <3>2. PICK end \in Nat : end = head + Total(lens) /\ Total(lens) = Ends(lens)[count] /\ head <= end
      <4>1. Total(lens) = Ends(lens)[count] /\ Ends(lens)[count] \in Nat
        BY <3>1, EndsType DEF Total
      <4> QED
        BY <4>1, SMTT(30)
    <3>3. head + Ends(lens)[count] <= Len(b) /\ at <= end /\ end <= Len(b)
      BY <1>1, <2>1, <2>7, <3>2
    <3>4. PICK tails \in Seq(Seq(Nat)) :
            /\ tails = Parts(b, head, lens, count) /\ Len(tails) = count
            /\ \A i \in 1 .. count : Len(tails[i]) = lens[i]
      BY <3>1, <3>3, PartsType
    <3>5. Fitting(kind, Block(f, tails))
      BY <2>2, <2>3, <2>7, <3>1, <3>4 DEF Fitting, Block
    <3>6. FlattenSeq(tails) = SubSeq(b, head + 1, end)
      <4>1. head + Total(lens) <= Len(b)
        BY <2>7
      <4>2. Flat(Parts(b, head, lens, Len(lens)), count) = SubSeq(b, head + 1, head + Ends(lens)[count])
        BY <3>1, <4>1, PartsFlat
      <4>3. Flat(tails, Len(tails)) = FlattenSeq(tails)
        BY FlatAll
      <4> QED
        BY <3>1, <3>2, <3>4, <4>2, <4>3
    <3>7. f \o FlattenSeq(tails) = SubSeq(b, at + 1, end)
      <4>1. SubSeq(b, at + 1, head) \o SubSeq(b, head + 1, end) = SubSeq(b, at + 1, end)
        <5>1. at <= head /\ head <= end /\ end <= Len(b)
          BY <2>1, <3>2, <3>3
        <5> QED
          BY ONLY <5>1, StretchOn, b \in Seq(Nat), at \in Nat, head \in Nat, end \in Nat
      <4> QED
        BY <2>2, <3>6, <4>1
    <3>8. StandsAt(kind, b, at, Block(f, tails), end)
      BY <3>3, <3>5, <3>7 DEF StandsAt, BlockBytes, Block
    <3>9. d = Read(f, tails, << >>, end)
      BY <2>7, <3>1, <3>2, <3>4
    <3>10. BlockOrError(kind, b, at, d)
      BY <3>8, <3>9 DEF BlockOrError
    <3> QED
      BY <2>4, <2>5, <3>10
  <2> QED
    BY <2>4, <2>5, <2>6, <2>7 DEF BlockOrError
<1> QED
  BY <1>2, <1>3

-----------------------------------------------------------------------------
(* What decode comes to where a message was put, all of it or cut short.   *)

\* b has s from a place on, as far as b goes.
Shows(s, b, at) == \A i \in 1 .. Len(s) : at + i <= Len(b) => b[at + i] = s[i]

LEMMA ShowsAll ==
    ASSUME NEW s \in Seq(Nat), NEW b \in Seq(Nat), NEW at \in Nat, NEW end \in Nat,
           end = at + Len(s), end <= Len(b), Shows(s, b, at)
    PROVE  SubSeq(b, at + 1, end) = s
<1>1. PICK len \in Nat, size \in Nat : len = Len(s) /\ size = Len(b)
  BY LenProperties
<1>2. at <= end /\ end - at = len /\ end <= size
  BY <1>1
<1>3. /\ SubSeq(b, at + 1, end) \in Seq(Nat) /\ Len(SubSeq(b, at + 1, end)) = end - at
      /\ \A i \in 1 .. end - at : SubSeq(b, at + 1, end)[i] = b[at + i]
  <2>1. at <= end /\ end <= Len(b)
    BY <1>1, <1>2
  <2> QED
    BY ONLY <2>1, Stretch, b \in Seq(Nat), at \in Nat, end \in Nat
<1>4. \A i \in 1 .. len : b[at + i] = s[i]
  <2>1. \A i \in 1 .. len : at + i <= size
    BY <1>2
  <2> QED
    BY <1>1, <2>1 DEF Shows
<1>5. PICK t \in Seq(Nat) : t = SubSeq(b, at + 1, end) /\ Len(t) = len /\ \A i \in 1 .. len : t[i] = s[i]
  <2>1. \A i \in 1 .. len : SubSeq(b, at + 1, end)[i] = b[at + i]
    BY <1>2, <1>3
  <2>2. \A i \in 1 .. len : SubSeq(b, at + 1, end)[i] = s[i]
    BY <1>4, <2>1
  <2>3. SubSeq(b, at + 1, end) \in Seq(Nat) /\ Len(SubSeq(b, at + 1, end)) = len
    BY <1>2, <1>3
  <2> QED
    BY ONLY <2>2, <2>3
<1>6. t = s
  BY <1>1, <1>5, SeqEqual
<1> QED
  BY <1>5, <1>6

LEMMA ShowsBoth ==
    ASSUME NEW s \in Seq(Nat), NEW t \in Seq(Nat), NEW b, Len(b) \in Nat, NEW at \in Nat,
           Shows(s \o t, b, at)
    PROVE  Shows(s, b, at) /\ Shows(t, b, at + Len(s))
<1>1. PICK m \in Nat, n \in Nat : m = Len(s) /\ n = Len(t)
  BY LenProperties
<1>2. /\ Len(s \o t) = m + n
      /\ \A i \in 1 .. m + n : (s \o t)[i] = IF i <= m THEN s[i] ELSE t[i - m]
  BY <1>1, ConcatProperties
<1>3. \A i \in 1 .. m + n : at + i <= Len(b) => b[at + i] = IF i <= m THEN s[i] ELSE t[i - m]
  BY <1>2 DEF Shows
<1>4. ASSUME NEW i \in 1 .. m, at + i <= Len(b)
      PROVE  b[at + i] = s[i]
  <2>1. i \in 1 .. m + n /\ i <= m
    OBVIOUS
  <2> QED
    BY <1>3, <1>4, <2>1
<1>5. ASSUME NEW i \in 1 .. n, (at + m) + i <= Len(b)
      PROVE  b[(at + m) + i] = t[i]
  <2>1. m + i \in 1 .. m + n /\ ~ (m + i <= m) /\ (m + i) - m = i /\ at + (m + i) = (at + m) + i
    OBVIOUS
  <2> QED
    BY <1>3, <1>5, <2>1
<1> QED
  BY <1>1, <1>4, <1>5 DEF Shows

\* Each of the parts put behind one another is where those before it end.
LEMMA ShowsEach ==
    ASSUME NEW ss \in Seq(Seq(Nat)), NEW b, Len(b) \in Nat, NEW at \in Nat,
           Shows(FlattenSeq(ss), b, at), NEW k \in Nat, k < Len(ss)
    PROVE  Shows(ss[k + 1], b, at + Len(Flat(ss, k)))
<1>1. PICK count \in Nat : count = Len(ss)
  BY LenProperties
<1>2. count \in k + 1 .. Len(ss) /\ k \in 0 .. Len(ss) /\ k + 1 \in 1 .. Len(ss)
  BY <1>1
<1>3. PICK n \in Nat : n = Len(Flat(ss, k))
  BY <1>2, FlatType, LenProperties
<1>4. PICK flat \in Seq(Nat) : flat = FlattenSeq(ss) /\ flat = Flat(ss, count)
  <2>1. count \in 0 .. Len(ss)
    BY <1>1
  <2> QED
    BY <1>1, <2>1, FlatType, FlatAll
<1>5. ASSUME NEW i \in 1 .. Len(ss[k + 1]), (at + n) + i <= Len(b)
      PROVE  b[(at + n) + i] = ss[k + 1][i]
  <2>1. /\ Len(Flat(ss, k)) + i \in 1 .. Len(Flat(ss, count))
        /\ Flat(ss, count)[Len(Flat(ss, k)) + i] = ss[k + 1][i]
    BY <1>2, FlatItem
  <2>2. n + i \in 1 .. Len(flat) /\ flat[n + i] = ss[k + 1][i]
    BY <1>3, <1>4, <2>1
  <2>3. (at + n) + i = at + (n + i)
    <3>1. i \in Int
      OBVIOUS
    <3> QED
      BY <3>1
  <2> QED
    BY <1>4, <1>5, <2>2, <2>3 DEF Shows
<1> QED
  BY <1>3, <1>5 DEF Shows

\* A block that fits its arrays decodes to itself, unless part of it is missing.
LEMMA BlockHere ==
    ASSUME NEW kind \in Kinds, NEW b \in Seq(Nat), NEW at \in Nat, NEW block,
           Fitting(kind, block), Shows(BlockBytes(block), b, at),
           NEW end \in Nat, end = at + Len(BlockBytes(block))
    PROVE  DecodeBlock(kind, b, at)
               = IF end > Len(b) THEN Fail("BufferTooShort")
                 ELSE Read(block.fixed, block.tails, << >>, end)
<1>1. PICK size \in Nat, fix \in Nat, head \in Nat :
        size = Len(b) /\ fix = FixedLen[kind] /\ head = at + fix
  BY LenProperties, FixedLenType
<1>2. PICK f \in Seq(Nat) : f = block.fixed /\ Len(f) = fix
  BY <1>1 DEF Fitting
<1>3. PICK tails \in Seq(Seq(Nat)) : tails = block.tails
  BY DEF Fitting
<1>4. PICK lens \in Seq(Nat) : lens = TailLens(kind, f)
  BY <1>1, <1>2, TailLensType
<1>5. PICK flat \in Seq(Nat) : flat = FlattenSeq(tails) /\ Len(flat) = Total(lens)
  BY <1>2, <1>3, <1>4, BlockBytesType
<1>6. PICK total \in Nat : total = Total(lens) /\ end = head + total
  <2>1. /\ Total(TailLens(kind, block.fixed)) \in Nat
        /\ Len(BlockBytes(block)) = FixedLen[kind] + Total(TailLens(kind, block.fixed))
    BY BlockBytesType
  <2> QED
    BY <1>1, <1>2, <1>4, <2>1, SMTT(30)
<1>7. Shows(f, b, at) /\ Shows(flat, b, head)
  <2>1. Shows(f \o flat, b, at)
    BY <1>2, <1>3, <1>5 DEF BlockBytes
  <2>2. Len(b) \in Nat
    BY <1>1
  <2> QED
    BY <1>1, <1>2, <2>1, <2>2, ShowsBoth
<1>8. CASE head > size
  <2>1. end > size
    BY <1>6, <1>8
  <2>2. DecodeBlock(kind, b, at) = Fail("BufferTooShort")
    BY <1>1, <1>8, BlockCases
  <2> QED
    BY <1>1, <2>1, <2>2
<1>9. CASE head <= size
  <2>1. SubSeq(b, at + 1, head) = f
    <3>1. head = at + Len(f) /\ head <= Len(b) /\ Shows(f, b, at)
      BY <1>1, <1>2, <1>7, <1>9
    <3> QED
      BY ONLY <3>1, ShowsAll, f \in Seq(Nat), b \in Seq(Nat), at \in Nat, head \in Nat
  <2>2. DecodeBlock(kind, b, at) = DecodeTails(kind, b, head, f, lens)
    <3>1. head = at + FixedLen[kind] /\ ~ (head > Len(b))
      BY <1>1, <1>9
    <3>2. DecodeBlock(kind, b, at)
            = IF head > Len(b) THEN Fail("BufferTooShort")
              ELSE DecodeTails(kind, b, head, SubSeq(b, at + 1, head),
                               TailLens(kind, SubSeq(b, at + 1, head)))
      BY <3>1, BlockCases
    <3> QED
      BY <1>4, <2>1, <3>1, <3>2
  <2>3. TailsOrError(kind, b, head, f, lens, DecodeTails(kind, b, head, f, lens))
    <3>1. head <= Len(b)
      BY <1>1, <1>9
    <3> QED
      BY <3>1, TailsRead
  <2>4. PICK count \in Nat : /\ count = Len(tails) /\ count = Len(lens)
                             /\ \A i \in 1 .. count : Len(tails[i]) = lens[i]
                             /\ \A i \in 1 .. count : lens[i] <= TailRoom(kind)
    BY <1>2, <1>3, <1>4, LenProperties DEF Fitting
  <2>5. DecodeTails(kind, b, head, f, lens) # Fail("InvalidData")
    <3>1. \A i \in 1 .. count : lens[i] \in Nat
      BY <2>4, ElementOfSeq
    <3>2. \A i \in 1 .. Len(lens) : ~ (lens[i] > TailRoom(kind))
      BY <2>4, <3>1, RoomType
    <3>3. \A parts, to : Fail("InvalidData") # Read(f, parts, << >>, to)
      BY DEF Fail, Read
    <3>4. Fail("InvalidData") # Fail("BufferTooShort")
      BY DEF Fail
    <3> QED
      BY <2>3, <3>2, <3>3, <3>4 DEF TailsOrError
  <2>6. CASE end > size
    <3>1. ~ (head + Total(lens) <= Len(b))
      BY <1>1, <1>6, <2>6
    <3>2. DecodeTails(kind, b, head, f, lens) = Fail("BufferTooShort")
      BY <2>3, <2>5, <3>1 DEF TailsOrError
    <3> QED
      BY <1>1, <2>2, <2>6, <3>2
  <2>7. CASE end <= size
    <3>1. head + Total(lens) <= Len(b) /\ ~ (head + Total(lens) > Len(b)) /\ ~ (end > Len(b))
      BY <1>1, <1>6, <2>7, SMTT(30)
    <3>2. DecodeTails(kind, b, head, f, lens)
            = Read(f, Parts(b, head, lens, Len(lens)), << >>, head + Total(lens))
      BY <2>3, <2>5, <3>1 DEF TailsOrError
    <3>3. Parts(b, head, lens, count) = tails
      <4>1. \A k \in 0 .. count : Ends(lens)[k] = Len(Flat(tails, k))
        BY <2>4, EndsAreLengths
      <4>2. ASSUME NEW i \in 1 .. count
            PROVE  SubSeq(b, head + Ends(lens)[i - 1] + 1, head + Ends(lens)[i]) = tails[i]
        <5>1. PICK k \in Nat : k = i - 1 /\ k + 1 = i
          OBVIOUS
        <5>2. /\ k < count /\ k < Len(tails) /\ k < Len(lens) /\ i \in 1 .. Len(tails)
              /\ k \in 0 .. Len(lens) /\ i \in 0 .. Len(lens) /\ count \in i .. Len(lens)
          BY <2>4, <5>1
        <5>3. PICK item \in Seq(Nat) : item = tails[i] /\ Len(item) = lens[i]
          BY <2>4, <5>2, ElementOfSeq
        <5>4. PICK p \in Nat, q \in Nat : p = Ends(lens)[k] /\ q = Ends(lens)[i]
          <6>1. Ends(lens)[k] \in Nat /\ Ends(lens)[i] \in Nat
            BY <5>2, EndsType
          <6> QED
            BY <6>1
        <5>5. q = p + Len(item)
          BY <5>1, <5>2, <5>3, <5>4, EndsSteps
        <5>6. q <= total
          <6>1. Ends(lens)[i] <= Ends(lens)[count]
            BY <5>2, EndsGrow
          <6> QED
            BY <1>6, <2>4, <5>4, <6>1 DEF Total
        <5>7. Shows(item, b, head + p)
          <6>1. Len(b) \in Nat
            BY <1>1
          <6>2. Shows(tails[k + 1], b, head + Len(Flat(tails, k)))
            BY <1>5, <1>7, <5>2, <6>1, ShowsEach
          <6>3. p = Len(Flat(tails, k))
            BY <4>1, <5>1, <5>4
          <6> QED
            BY <5>1, <5>3, <6>2, <6>3
        <5>8. PICK m \in Nat, n \in Nat : m = head + p /\ n = head + q
          OBVIOUS
        <5>9. n = m + Len(item) /\ n <= Len(b) /\ Shows(item, b, m)
          <6>1. Len(item) \in Nat
            BY LenProperties
          <6>2. Shows(item, b, m)
            BY <5>7, <5>8
          <6>3. n = m + Len(item)
            BY <5>5, <5>8, <6>1
          <6>4. n <= Len(b)
            <7>1. n <= end
              BY <1>6, <5>6, <5>8
            <7> QED
              BY <1>1, <2>7, <7>1
          <6> QED
            BY <6>2, <6>3, <6>4
        <5>10. SubSeq(b, m + 1, n) = item
          BY ONLY <5>9, ShowsAll, item \in Seq(Nat), b \in Seq(Nat), m \in Nat, n \in Nat
        <5> QED
          BY <5>1, <5>3, <5>4, <5>8, <5>10
      <4>3. PICK parts \in Seq(Seq(Nat)) : parts = Parts(b, head, lens, count) /\ Len(parts) = count
        <5>1. count \in 0 .. Len(lens) /\ head + Ends(lens)[count] <= Len(b)
          BY <2>4, <3>1 DEF Total
        <5> QED
          BY <5>1, PartsType
      <4>4. \A i \in 1 .. count : parts[i] = tails[i]
        BY <4>2, <4>3 DEF Parts
      <4>5. parts = tails
        BY <2>4, <4>3, <4>4, SeqEqual
      <4> QED
        BY <4>3, <4>5
    <3> QED
      BY <1>2, <1>3, <1>6, <2>2, <2>4, <3>1, <3>2, <3>3
  <2> QED
    BY <1>1, <2>6, <2>7
<1> QED
  BY <1>1, <1>8, <1>9

-----------------------------------------------------------------------------
(* Lists of blocks.                                                        *)

ItemBytes(items) == [i \in DOMAIN items |-> BlockBytes(items[i])]

LEMMA FlattenAppend ==
    ASSUME NEW S, NEW ss \in Seq(Seq(S)), NEW s \in Seq(S)
    PROVE  FlattenSeq(Append(ss, s)) = FlattenSeq(ss) \o s
<1>1. PICK n \in Nat : n = Len(ss)
  BY LenProperties
<1>2. PICK tt \in Seq(Seq(S)) :
        /\ tt = Append(ss, s) /\ Len(tt) = n + 1
        /\ \A i \in 1 .. n : tt[i] = ss[i]
        /\ tt[n + 1] = s
  BY <1>1, AppendProperties
<1>3. n < Len(tt)
  BY <1>2
<1>4. Flat(tt, n + 1) = Flat(tt, n) \o s
  BY <1>2, <1>3, FlatNext
<1>5. [i \in 1 .. n |-> tt[i]] = [i \in 1 .. n |-> ss[i]]
  BY <1>2
<1>6. Flat(tt, n) = Flat(ss, n)
  BY <1>5 DEF Flat
<1>7. Flat(tt, Len(tt)) = FlattenSeq(tt) /\ Flat(ss, Len(ss)) = FlattenSeq(ss)
  BY FlatAll
<1> QED
  BY <1>1, <1>2, <1>4, <1>6, <1>7

LEMMA FlattenType ==
    ASSUME NEW S, NEW ss \in Seq(Seq(S))
    PROVE  FlattenSeq(ss) \in Seq(S)
<1>1. PICK n \in Nat : n = Len(ss) /\ n \in 0 .. Len(ss)
  BY LenProperties
<1>2. Flat(ss, n) \in Seq(S)
  BY <1>1, FlatType
<1> QED
  BY <1>1, <1>2, FlatAll

LEMMA BlocksType ==
    ASSUME NEW b \in Blocks
    PROVE  /\ b.fixed \in Seq(Nat) /\ b.tails \in Seq(Seq(Nat))
           /\ b = Block(b.fixed, b.tails)
           /\ BlockBytes(b) \in Seq(Nat)
<1>1. PICK f \in Seq(Nat) : f = b.fixed
  BY DEF Blocks
<1>2. PICK tails \in Seq(Seq(Nat)) : tails = b.tails
  BY DEF Blocks
<1>3. b = Block(b.fixed, b.tails)
  BY DEF Blocks, Block
<1>4. PICK flat \in Seq(Nat) : flat = FlattenSeq(tails)
  BY FlattenType
<1>5. f \o flat \in Seq(Nat)
  BY ConcatProperties
<1> QED
  BY <1>1, <1>2, <1>3, <1>4, <1>5 DEF BlockBytes

LEMMA ItemBytesType ==
    ASSUME NEW items \in Seq(Blocks)
    PROVE  /\ ItemBytes(items) \in Seq(Seq(Nat)) /\ Len(ItemBytes(items)) = Len(items)
           /\ \A i \in 1 .. Len(items) : ItemBytes(items)[i] = BlockBytes(items[i])
           /\ FlattenSeq(ItemBytes(items)) \in Seq(Nat)
<1>1. PICK n \in Nat : n = Len(items) /\ DOMAIN items = 1 .. n
  BY LenProperties
<1> DEFINE P(i) == BlockBytes(items[i])
<1>2. \A i \in 1 .. n : P(i) \in Seq(Nat)
  BY <1>1, ElementOfSeq, BlocksType
<1>3. ItemBytes(items) = [i \in 1 .. n |-> P(i)]
  BY <1>1 DEF ItemBytes
<1> HIDE DEF P
<1>4. [i \in 1 .. n |-> P(i)] \in Seq(Seq(Nat))
  BY <1>2, IsASeq
<1>5. Len([i \in 1 .. n |-> P(i)]) = n
  OBVIOUS
<1>6. PICK bs \in Seq(Seq(Nat)) : bs = ItemBytes(items)
  BY <1>3, <1>4
<1>7. FlattenSeq(bs) \in Seq(Nat)
  BY FlattenType
<1> QED
  BY <1>1, <1>3, <1>4, <1>5, <1>6, <1>7 DEF P

LEMMA ItemBytesAppend ==
    ASSUME NEW items \in Seq(Blocks), NEW b \in Blocks
    PROVE  FlattenSeq(ItemBytes(Append(items, b)))
               = FlattenSeq(ItemBytes(items)) \o BlockBytes(b)
<1>1. PICK n \in Nat : n = Len(items)
  BY LenProperties
<1>2. PICK more \in Seq(Blocks) :
        /\ more = Append(items, b) /\ Len(more) = n + 1
        /\ \A i \in 1 .. n : more[i] = items[i]
        /\ more[n + 1] = b
  BY <1>1, AppendProperties
<1>3. PICK bs \in Seq(Seq(Nat)) :
        bs = ItemBytes(items) /\ Len(bs) = n /\ \A i \in 1 .. n : bs[i] = BlockBytes(items[i])
  BY <1>1, ItemBytesType
<1>4. PICK cs \in Seq(Seq(Nat)) :
        cs = ItemBytes(more) /\ Len(cs) = n + 1 /\ \A i \in 1 .. n + 1 : cs[i] = BlockBytes(more[i])
  BY <1>2, ItemBytesType
<1>5. PICK s \in Seq(Nat) : s = BlockBytes(b)
  BY BlocksType
<1>6. PICK ds \in Seq(Seq(Nat)) :
        /\ ds = Append(bs, s) /\ Len(ds) = n + 1
        /\ \A i \in 1 .. n : ds[i] = bs[i]
        /\ ds[n + 1] = s
  <2>1. /\ Append(bs, s) \in Seq(Seq(Nat))
        /\ Len(Append(bs, s)) = Len(bs) + 1
        /\ \A i \in 1 .. Len(bs) : Append(bs, s)[i] = bs[i]
        /\ Append(bs, s)[Len(bs) + 1] = s
    BY ONLY AppendProperties, bs \in Seq(Seq(Nat)), s \in Seq(Nat)
  <2> QED
    BY <1>3, <2>1
<1>7. \A i \in 1 .. n + 1 : cs[i] = ds[i]
  <2>1. \A i \in 1 .. n + 1 : i \in 1 .. n \/ i = n + 1
    OBVIOUS
  <2>2. \A i \in 1 .. n : i \in 1 .. n + 1
    OBVIOUS
  <2>3. cs[n + 1] = ds[n + 1]
    BY <1>2, <1>4, <1>5, <1>6
  <2>4. \A i \in 1 .. n : cs[i] = ds[i]
    BY <1>2, <1>3, <1>4, <1>6, <2>2
  <2> QED
    BY <2>1, <2>3, <2>4
<1>8. cs = ds
  BY <1>4, <1>6, <1>7, SeqEqual
<1>9. FlattenSeq(ds) = FlattenSeq(bs) \o s
  BY <1>6, FlattenAppend
<1> QED
  BY <1>2, <1>3, <1>4, <1>5, <1>6, <1>8, <1>9

\* A list that stands in b, between two places.
ListStandsAt(kind, b, at, items, end) ==
    /\ items \in Seq(Blocks)
    /\ \A i \in 1 .. Len(items) : Fitting(ItemKind[kind], items[i])
    /\ end \in Nat /\ at <= end /\ end <= Len(b)
    /\ FlattenSeq(ItemBytes(items)) = SubSeq(b, at + 1, end)

ListOrError(kind, b, f, tails, at, count, d) ==
    \/ d = Fail("BufferTooShort")
    \/ d = Fail("InvalidData")
    \/ \E items, end : /\ d = Read(f, tails, items, end)
                       /\ Len(items) = count
                       /\ ListStandsAt(kind, b, at, items, end)

\* An item is read where the ones before it end.
LEMMA ItemRead ==
    ASSUME NEW kind, NEW b, NEW f, NEW tails, NEW items, NEW at, NEW item,
           item = DecodeBlock(ItemKind[kind], b, at)
    PROVE  DecodeItem(kind, b, Read(f, tails, items, at))
               = IF item.tag # "ok" THEN Fail(item.tag)
                 ELSE Read(f, tails, Append(items, Block(item.fixed, item.tails)), item.at)
<1> DEFINE r == Read(f, tails, items, at)
<1>1. /\ r.tag = "ok" /\ r.fixed = f /\ r.tails = tails
      /\ r.items = items /\ r.at = at
  BY DEF Read
<1> HIDE DEF r
<1>2. DecodeItem(kind, b, r)
        = IF item.tag # "ok" THEN Fail(item.tag)
          ELSE Read(f, tails, Append(items, Block(item.fixed, item.tails)), item.at)
  BY <1>1 DEF DecodeItem
<1> QED
  BY <1>2 DEF r

\* Whatever the bytes, decode finds a list there, or says that it does not.
LEMMA ItemsRead ==
    ASSUME NEW kind, NEW b \in Seq(Nat), NEW f, NEW tails, NEW at \in Nat, at <= Len(b),
           NEW count \in Nat, count # 0 => kind \in DOMAIN ItemKind
    PROVE  ListOrError(kind, b, f, tails, at, count,
                       DecodeItems(kind, b, Read(f, tails, << >>, at), count))
<1>1. PICK block : block = Read(f, tails, << >>, at)
  OBVIOUS
<1>2. PICK r : ItemsAre(kind, b, block, count, r)
  BY ItemsRun
<1>3. /\ r[0] = block
      /\ \A i \in Nat : i < count => r[i + 1] = DecodeItem(kind, b, r[i])
      /\ DecodeItems(kind, b, block, count) = r[count]
  BY <1>2 DEF ItemsAre
<1> DEFINE T == { k \in Nat : k <= count => ListOrError(kind, b, f, tails, at, k, r[k]) }
<1>4. 0 \in T
  <2>1. << >> \in Seq(Blocks) /\ Len(<< >>) = 0
    BY EmptySeq
  <2>2. FlattenSeq(ItemBytes(<< >>)) = << >>
    <3>1. ItemBytes(<< >>) = << >>
      BY DEF ItemBytes
    <3> QED
      BY <3>1 DEF FlattenSeq
  <2>3. SubSeq(b, at + 1, at) = << >>
    <3>1. at + 1 \in Int /\ at \in Int /\ at < at + 1
      OBVIOUS
    <3> QED
      BY <3>1, SubSeqEmpty
  <2>none. PICK none : none = << >> /\ none \in Seq(Blocks) /\ Len(none) = 0
    BY <2>1
  <2>4. ListStandsAt(kind, b, at, none, at)
    <3>1. \A i \in 1 .. Len(none) : Fitting(ItemKind[kind], none[i])
      BY <2>none
    <3>2. FlattenSeq(ItemBytes(none)) = SubSeq(b, at + 1, at)
      BY <2>none, <2>2, <2>3
    <3> QED
      BY <2>none, <3>1, <3>2 DEF ListStandsAt
  <2>5. ListOrError(kind, b, f, tails, at, 0, r[0])
    BY <1>1, <1>3, <2>none, <2>4 DEF ListOrError
  <2> QED
    BY <2>5
<1>5. ASSUME NEW k \in Nat, k \in T
      PROVE  k + 1 \in T
  <2>1. SUFFICES ASSUME k + 1 <= count PROVE ListOrError(kind, b, f, tails, at, k + 1, r[k + 1])
    OBVIOUS
  <2>2. k < count /\ k <= count /\ count # 0
    BY <2>1
  <2>3. r[k + 1] = DecodeItem(kind, b, r[k]) /\ ListOrError(kind, b, f, tails, at, k, r[k])
    BY <1>3, <1>5, <2>2
  <2>4. PICK of \in Kinds : of = ItemKind[kind]
    BY <2>2, ItemKindType
  <2>5. CASE r[k] = Fail("BufferTooShort") \/ r[k] = Fail("InvalidData")
    <3>1. r[k + 1] = r[k]
      BY <2>3, <2>5 DEF DecodeItem, Fail
    <3> QED
      BY <2>5, <3>1 DEF ListOrError
  <2>6. CASE \E items, end : /\ r[k] = Read(f, tails, items, end)
                             /\ Len(items) = k
                             /\ ListStandsAt(kind, b, at, items, end)
    <3>1. PICK items, end : /\ r[k] = Read(f, tails, items, end)
                            /\ Len(items) = k
                            /\ ListStandsAt(kind, b, at, items, end)
      BY <2>6
    <3>2. PICK size \in Nat : size = Len(b)
      BY LenProperties
    <3>3. /\ items \in Seq(Blocks) /\ end \in Nat /\ at <= end /\ end <= size
          /\ \A i \in 1 .. k : Fitting(of, items[i])
          /\ FlattenSeq(ItemBytes(items)) = SubSeq(b, at + 1, end)
      BY <2>4, <3>1, <3>2 DEF ListStandsAt
    <3>4. PICK item : item = DecodeBlock(of, b, end) /\ BlockOrError(of, b, end, item)
      BY <3>3, BlockRead
    <3>5. DecodeItem(kind, b, Read(f, tails, items, end))
            = IF item.tag # "ok" THEN Fail(item.tag)
              ELSE Read(f, tails, Append(items, Block(item.fixed, item.tails)), item.at)
      BY <2>4, <3>4, ItemRead
    <3>6. CASE item = Fail("BufferTooShort") \/ item = Fail("InvalidData")
      <4>1. item.tag \in {"BufferTooShort", "InvalidData"} /\ item = Fail(item.tag)
        BY <3>6 DEF Fail
      <4>2. r[k + 1] = item
        BY <2>3, <3>1, <3>5, <4>1
      <4> QED
        BY <3>6, <4>2 DEF ListOrError
    <3>7. CASE \E g, strings, to : /\ item = Read(g, strings, << >>, to)
                                   /\ StandsAt(of, b, end, Block(g, strings), to)
      <4>1. PICK g, strings, to : /\ item = Read(g, strings, << >>, to)
                                  /\ StandsAt(of, b, end, Block(g, strings), to)
        BY <3>7
      <4>2. PICK new : new = Block(g, strings)
        OBVIOUS
      <4>3. r[k + 1] = Read(f, tails, Append(items, new), to)
        <5>1. item.tag = "ok" /\ item.fixed = g /\ item.tails = strings /\ item.at = to
          BY <4>1 DEF Read
        <5> QED
          BY <2>3, <3>1, <3>5, <4>2, <5>1
      <4>4. /\ new \in Blocks /\ Fitting(of, new) /\ to \in Nat /\ end <= to /\ to <= size
            /\ BlockBytes(new) = SubSeq(b, end + 1, to)
        <5>1. StandsAt(of, b, end, new, to)
          BY <4>1, <4>2
        <5>2. new.fixed = g /\ new.tails = strings
          BY <4>2 DEF Block
        <5>3. g \in Seq(Nat) /\ strings \in Seq(Seq(Nat))
          BY <5>1, <5>2 DEF StandsAt, Fitting
        <5>4. new \in Blocks
          BY <4>2, <5>3 DEF Block, Blocks
        <5> QED
          BY <3>2, <5>1, <5>4 DEF StandsAt
      <4>5. PICK more : /\ more = Append(items, new) /\ more \in Seq(Blocks) /\ Len(more) = k + 1
                        /\ \A i \in 1 .. k : more[i] = items[i]
                        /\ more[k + 1] = new
        BY <3>1, <3>3, <4>4, AppendProperties
      <4>6. \A i \in 1 .. Len(more) : Fitting(of, more[i])
        <5>1. \A i \in 1 .. k + 1 : i \in 1 .. k \/ i = k + 1
          OBVIOUS
        <5> QED
          BY <3>3, <4>4, <4>5, <5>1
      <4>7. FlattenSeq(ItemBytes(more)) = SubSeq(b, at + 1, to)
        <5>1. FlattenSeq(ItemBytes(more)) = FlattenSeq(ItemBytes(items)) \o BlockBytes(new)
          BY <3>3, <4>4, <4>5, ItemBytesAppend
        <5>2. to <= Len(b)
          BY <3>2, <4>4
        <5>3. SubSeq(b, at + 1, end) \o SubSeq(b, end + 1, to) = SubSeq(b, at + 1, to)
          <6>1. at <= end /\ end <= to /\ at \in Nat /\ end \in Nat /\ to \in Nat
            BY <3>3, <4>4
          <6> QED
            BY ONLY <5>2, <6>1, StretchOn, b \in Seq(Nat)
        <5> QED
          BY <3>3, <4>4, <5>1, <5>3
      <4>8. ListStandsAt(kind, b, at, more, to)
        <5>1. at <= to
          BY <3>3, <4>4
        <5> QED
          BY <2>4, <3>2, <4>4, <4>5, <4>6, <4>7, <5>1 DEF ListStandsAt
      <4> QED
        BY <4>3, <4>5, <4>8 DEF ListOrError
    <3> QED
      BY <3>4, <3>6, <3>7 DEF BlockOrError
  <2> QED
    BY <2>3, <2>5, <2>6 DEF ListOrError
<1> HIDE DEF T
<1>6. Nat \subseteq T
  BY <1>4, <1>5, Induction
<1>7. ListOrError(kind, b, f, tails, at, count, r[count])
  BY <1>6 DEF T
<1> QED
  BY <1>1, <1>3, <1>7

\* A list of so many items that b has from a place on, as far as b goes.
ShowsList(kind, b, at, items, count, end) ==
    /\ items \in Seq(Blocks) /\ count = Len(items)
    /\ count # 0 => kind \in DOMAIN ItemKind
    /\ \A i \in 1 .. count : Fitting(ItemKind[kind], items[i])
    /\ Shows(FlattenSeq(ItemBytes(items)), b, at)
    /\ end = at + Len(FlattenSeq(ItemBytes(items)))

ListOrTooShort(kind, b, f, tails, at, items, count, end) ==
    DecodeItems(kind, b, Read(f, tails, << >>, at), count)
        = IF end > Len(b) THEN Fail("BufferTooShort") ELSE Read(f, tails, items, end)

\* A list decodes to itself, unless part of it is missing.
LEMMA ItemsHere ==
    ASSUME NEW kind, NEW b \in Seq(Nat), NEW f, NEW tails, NEW at \in Nat, at <= Len(b),
           NEW items, NEW count \in Nat, NEW end \in Nat,
           ShowsList(kind, b, at, items, count, end)
    PROVE  ListOrTooShort(kind, b, f, tails, at, items, count, end)
<1>0. /\ items \in Seq(Blocks) /\ count = Len(items)
      /\ count # 0 => kind \in DOMAIN ItemKind
      /\ \A i \in 1 .. count : Fitting(ItemKind[kind], items[i])
      /\ Shows(FlattenSeq(ItemBytes(items)), b, at)
      /\ end = at + Len(FlattenSeq(ItemBytes(items)))
  BY DEF ShowsList
<1> USE <1>0
<1>1. PICK block : block = Read(f, tails, << >>, at)
  OBVIOUS
<1>2. PICK r : ItemsAre(kind, b, block, count, r)
  BY ItemsRun
<1>3. /\ r[0] = block
      /\ \A i \in Nat : i < count => r[i + 1] = DecodeItem(kind, b, r[i])
      /\ DecodeItems(kind, b, block, count) = r[count]
  BY <1>2 DEF ItemsAre
<1>4. PICK size \in Nat : size = Len(b)
  BY LenProperties
<1>5. PICK bs \in Seq(Seq(Nat)) :
        bs = ItemBytes(items) /\ Len(bs) = count /\ \A i \in 1 .. count : bs[i] = BlockBytes(items[i])
  BY ItemBytesType
<1> DEFINE State(k) ==
             r[k] = IF at + Len(Flat(bs, k)) > size THEN Fail("BufferTooShort")
                    ELSE Read(f, tails, SubSeq(items, 1, k), at + Len(Flat(bs, k)))
           T == { k \in Nat : k <= count => State(k) }
<1>6. 0 \in T
  <2>1. Flat(bs, 0) = << >> /\ Len(<< >>) = 0
    BY FlatNone, EmptySeq
  <2>2. SubSeq(items, 1, 0) = << >>
    <3>1. 1 \in Int /\ 0 \in Int /\ 0 < 1
      OBVIOUS
    <3> QED
      BY <3>1, SubSeqEmpty
  <2>3. ~ (at + 0 > size) /\ at + 0 = at
    BY <1>4
  <2> QED
    BY <1>1, <1>3, <2>1, <2>2, <2>3
<1>7. ASSUME NEW k \in Nat, k \in T
      PROVE  k + 1 \in T
  <2>1. SUFFICES ASSUME k + 1 <= count PROVE State(k + 1)
    OBVIOUS
  <2>2. /\ k < count /\ k <= count /\ count # 0 /\ k + 1 \in 1 .. count
        /\ k < Len(bs) /\ k \in 0 .. Len(bs) /\ k + 1 \in 1 .. Len(items)
    BY <1>5, <2>1
  <2>3. r[k + 1] = DecodeItem(kind, b, r[k]) /\ State(k)
    BY <1>3, <1>7, <2>2
  <2>4. PICK of \in Kinds : of = ItemKind[kind]
    BY <2>2, ItemKindType
  <2>5. PICK new \in Blocks : new = items[k + 1] /\ Fitting(of, new)
    BY <2>2, <2>4, ElementOfSeq
  <2>6. PICK front \in Seq(Nat) : front = Flat(bs, k)
    BY <2>2, FlatType
  <2>7. PICK back \in Seq(Nat) : back = BlockBytes(new) /\ back = bs[k + 1]
    BY <1>5, <2>2, <2>5, BlocksType
  <2>8. PICK m \in Nat, n \in Nat : m = Len(front) /\ n = Len(back)
    BY LenProperties
  <2>9. Len(Flat(bs, k + 1)) = m + n
    <3>1. Flat(bs, k + 1) = front \o back
      BY <2>2, <2>6, <2>7, FlatNext
    <3>2. Len(front \o back) = Len(front) + Len(back)
      BY ConcatProperties
    <3> QED
      BY <2>8, <3>1, <3>2
  <2>10. PICK from \in Nat, to \in Nat : from = at + m /\ to = from + n
    OBVIOUS
  <2>11. Shows(back, b, from)
    <3>1. Len(b) \in Nat /\ Shows(FlattenSeq(bs), b, at)
      BY <1>4, <1>5
    <3>2. Shows(bs[k + 1], b, at + Len(Flat(bs, k)))
      BY <2>2, <3>1, ShowsEach
    <3> QED
      BY <2>6, <2>7, <2>8, <2>10, <3>2
  <2>12. CASE from > size
    <3>1. r[k] = Fail("BufferTooShort")
      BY <2>3, <2>6, <2>8, <2>10, <2>12
    <3>2. r[k + 1] = Fail("BufferTooShort")
      BY <2>3, <3>1 DEF DecodeItem, Fail
    <3>3. at + (m + n) > size
      BY <2>10, <2>12
    <3> QED
      BY <2>9, <3>2, <3>3
  <2>13. CASE ~ (from > size)
    <3>1. PICK sofar : sofar = SubSeq(items, 1, k)
      OBVIOUS
    <3>2. r[k] = Read(f, tails, sofar, from)
      BY <2>3, <2>6, <2>8, <2>10, <2>13, <3>1
    <3>3. PICK item : item = DecodeBlock(of, b, from)
      OBVIOUS
    <3>4. item = IF to > size THEN Fail("BufferTooShort")
                 ELSE Read(new.fixed, new.tails, << >>, to)
      <4>1. to = from + Len(BlockBytes(new)) /\ Shows(BlockBytes(new), b, from)
        BY <2>7, <2>8, <2>10, <2>11
      <4>2. DecodeBlock(of, b, from)
              = IF to > Len(b) THEN Fail("BufferTooShort")
                ELSE Read(new.fixed, new.tails, << >>, to)
        BY <2>5, <4>1, BlockHere
      <4> QED
        BY <1>4, <3>3, <4>2
    <3>5. DecodeItem(kind, b, Read(f, tails, sofar, from))
            = IF item.tag # "ok" THEN Fail(item.tag)
              ELSE Read(f, tails, Append(sofar, Block(item.fixed, item.tails)), item.at)
      BY <2>4, <3>3, ItemRead
    <3>6. at + (m + n) = to
      BY <2>10
    <3>7. CASE to > size
      <4>1. item.tag = "BufferTooShort"
        BY <3>4, <3>7 DEF Fail
      <4> QED
        BY <2>3, <2>9, <3>2, <3>5, <3>6, <3>7, <4>1
    <3>8. CASE ~ (to > size)
      <4>1. item.tag = "ok" /\ item.fixed = new.fixed /\ item.tails = new.tails /\ item.at = to
        BY <3>4, <3>8 DEF Read
      <4>2. Append(sofar, new) = SubSeq(items, 1, k + 1)
        <5>1. PICK j \in Nat : j = k + 1 /\ 1 \in 1 .. Len(items) /\ j \in 1 .. Len(items) /\ j - 1 = k
          BY <2>2
        <5>2. SubSeq(items, 1, j) = SubSeq(items, 1, j - 1) \o << items[j] >>
          BY <5>1, SubSeqRecursiveSecond
        <5>3. sofar \in Seq(Blocks)
          <6>1. k <= Len(items)
            BY <2>2
          <6>2. \A i \in 1 .. k : items[i] \in Blocks
            BY <2>2, ElementOfSeq
          <6>3. 1 \in Int /\ k \in Int
            OBVIOUS
          <6> QED
            BY <3>1, <6>2, <6>3, SubSeqProperties
        <5>4. Append(sofar, new) = sofar \o << new >>
          BY <5>3, AppendIsConcat
        <5> QED
          BY <2>5, <3>1, <5>1, <5>2, <5>4
      <4>3. Block(item.fixed, item.tails) = new
        BY <4>1, BlocksType
      <4> QED
        BY <2>3, <2>9, <3>2, <3>5, <3>6, <3>8, <4>1, <4>2, <4>3
    <3> QED
      BY <3>7, <3>8
  <2> QED
    BY <2>12, <2>13
<1> HIDE DEF T, State
<1>8. Nat \subseteq T
  BY <1>6, <1>7, Induction
<1>9. State(count)
  BY <1>8 DEF T
<1>10. Flat(bs, count) = FlattenSeq(ItemBytes(items))
  BY <1>5, FlatAll
<1>11. SubSeq(items, 1, count) = items
  BY SubSeqFull
<1> QED
  BY <1>1, <1>3, <1>4, <1>9, <1>10, <1>11 DEF State, ListOrTooShort

-----------------------------------------------------------------------------
(* encode.                                                                 *)

\* A message whose block and items fit their arrays, with the items that encode
\* goes through.
FittingAll(kind, m) ==
    /\ m \in Bodies /\ Fitting(kind, m)
    /\ m.items # << >> => kind \in DOMAIN ItemKind
    /\ \A i \in 1 .. Len(m.items) : Fitting(ItemKind[kind], m.items[i])
    /\ kind = "GetFirmwareParametersResponse" => ListLen(kind, m.fixed) <= Len(m.items)

\* What stands before the payload.
BeforeRest(m) == BlockBytes(m) \o FlattenSeq(ItemBytes(m.items))

LEMMA BodiesType ==
    ASSUME NEW m \in Bodies
    PROVE  /\ m.fixed \in Seq(Nat) /\ m.tails \in Seq(Seq(Nat))
           /\ m.items \in Seq(Blocks) /\ m.rest \in Seq(Nat)
           /\ m = Body(m.fixed, m.tails, m.items, m.rest)
           /\ BlockBytes(m) \in Seq(Nat)
           /\ FlattenSeq(ItemBytes(m.items)) \in Seq(Nat)
           /\ BeforeRest(m) \in Seq(Nat) /\ Bytes(m) \in Seq(Nat) /\ Bytes(m) = BeforeRest(m) \o m.rest
           /\ Len(BeforeRest(m)) = Len(BlockBytes(m)) + Len(FlattenSeq(ItemBytes(m.items)))
           /\ Len(Bytes(m)) = Len(BeforeRest(m)) + Len(m.rest)
<1>1. PICK f \in Seq(Nat) : f = m.fixed
  BY DEF Bodies
<1>2. PICK tails \in Seq(Seq(Nat)) : tails = m.tails
  BY DEF Bodies
<1>3. PICK items \in Seq(Blocks) : items = m.items
  BY DEF Bodies
<1>4. PICK rest \in Seq(Nat) : rest = m.rest
  BY DEF Bodies
<1>5. m = Body(m.fixed, m.tails, m.items, m.rest)
  BY DEF Bodies, Body
<1>6. PICK flat \in Seq(Nat) : flat = FlattenSeq(tails)
  BY FlattenType
<1>7. PICK block \in Seq(Nat) : block = f \o flat
  BY ConcatProperties
<1>8. PICK list \in Seq(Nat) : list = FlattenSeq(ItemBytes(items))
  BY ItemBytesType
<1>9. PICK front \in Seq(Nat) : front = block \o list /\ Len(front) = Len(block) + Len(list)
  BY ConcatProperties
<1>10. PICK all \in Seq(Nat) : all = front \o rest /\ Len(all) = Len(front) + Len(rest)
  BY ConcatProperties
<1>11. BlockBytes(m) = block
  BY <1>1, <1>2, <1>6, <1>7 DEF BlockBytes
<1>12. BeforeRest(m) = front
  BY <1>3, <1>8, <1>9, <1>11 DEF BeforeRest
<1>13. Bytes(m) = BeforeRest(m) \o m.rest
  BY DEF Bytes, BeforeRest, ItemBytes
<1> QED
  BY <1>1, <1>2, <1>3, <1>4, <1>5, <1>8, <1>9, <1>10, <1>11, <1>12, <1>13

\* codec_size_in_bytes of a block is what its bytes are.
LEMMA BlockSizeIs ==
    ASSUME NEW kind \in Kinds, NEW b, Fitting(kind, b)
    PROVE  BlockSize(kind, b) = Len(BlockBytes(b)) /\ Len(BlockBytes(b)) \in Nat
<1>1. PICK fix \in Nat, total \in Nat :
        /\ fix = FixedLen[kind] /\ total = Total(TailLens(kind, b.fixed))
        /\ Len(BlockBytes(b)) = fix + total
  BY FixedLenType, BlockBytesType
<1>2. CASE kind = "UpdateComponentResponse"
  <2>1. PICK lens \in Seq(Nat) : lens = TailLens(kind, b.fixed)
    BY BlockBytesType
  <2>2. lens = <<IF Flagged(kind, b.fixed) THEN 4 ELSE 0>>
    BY <1>2, <2>1, StringKindsAre DEF TailLens, Optional
  <2>3. Len(lens) = 1 /\ lens[1] \in Nat
    BY <2>2
  <2>4. Ends(lens)[1] = lens[1]
    <3>1. /\ Ends(lens)[0] = 0
          /\ \A i \in Nat : i < Len(lens) => Ends(lens)[i + 1] = Ends(lens)[i] + lens[i + 1]
      BY EndsSteps
    <3>2. 0 \in Nat /\ 0 < Len(lens) /\ 0 + 1 = 1
      BY <2>3
    <3>3. Ends(lens)[0 + 1] = Ends(lens)[0] + lens[0 + 1]
      BY <3>1, <3>2
    <3> QED
      BY <2>3, <3>1, <3>2, <3>3
  <2>5. Len(b.tails[1]) = lens[1]
    BY <2>1, <2>3 DEF Fitting
  <2>6. total = lens[1]
    BY <1>1, <2>1, <2>3, <2>4 DEF Total
  <2> QED
    BY <1>1, <1>2, <2>5, <2>6 DEF BlockSize
<1>3. CASE kind # "UpdateComponentResponse"
  BY <1>1, <1>3 DEF BlockSize
<1> QED
  BY <1>2, <1>3

\* Its strings can be sliced.
LEMMA FittingSliceable ==
    ASSUME NEW kind, NEW b, Fitting(kind, b)
    PROVE  Sliceable(kind, b)
<1>1. DOMAIN b.tails = 1 .. Len(b.tails)
  BY LenProperties DEF Fitting
<1> QED
  BY <1>1 DEF Sliceable, Fitting

\* codec_size_in_bytes of a message is what its bytes are.
LEMMA SizeIs ==
    ASSUME NEW kind \in Kinds, NEW m, FittingAll(kind, m)
    PROVE  codec_size_in_bytes(kind, m) = Len(Bytes(m)) /\ Len(Bytes(m)) \in Nat
<1>1. PICK items \in Seq(Blocks) : items = m.items
  BY BodiesType DEF FittingAll
<1>2. PICK count \in Nat : count = Len(items) /\ DOMAIN items = 1 .. count
  BY LenProperties
<1> DEFINE P(i) == BlockSize(ItemKind[kind], items[i])
<1>3. PICK bs \in Seq(Seq(Nat)) :
        /\ bs = ItemBytes(items) /\ Len(bs) = count
        /\ \A i \in 1 .. count : bs[i] = BlockBytes(items[i])
  BY <1>2, ItemBytesType
<1>4. ASSUME NEW i \in 1 .. count
      PROVE  P(i) = Len(bs[i]) /\ P(i) \in Nat
  <2>1. count # 0
    BY <1>2
  <2>2. items # << >>
    BY <1>2, <2>1, EmptySeq
  <2>3. PICK of \in Kinds : of = ItemKind[kind]
    BY <1>1, <2>2, ItemKindType DEF FittingAll
  <2>4. Fitting(of, items[i])
    BY <1>1, <1>2, <2>3 DEF FittingAll
  <2>5. BlockSize(of, items[i]) = Len(BlockBytes(items[i])) /\ Len(BlockBytes(items[i])) \in Nat
    BY <2>4, BlockSizeIs
  <2> QED
    BY <1>3, <2>3, <2>5
<1> HIDE DEF P
<1>5. PICK lens \in Seq(Nat) :
        lens = [i \in 1 .. count |-> P(i)] /\ Len(lens) = count /\ \A i \in 1 .. count : lens[i] = P(i)
  <2>1. [i \in 1 .. count |-> P(i)] \in Seq(Nat)
    BY <1>4, IsASeq
  <2>2. PICK lens \in Seq(Nat) : lens = [i \in 1 .. count |-> P(i)]
    BY <2>1
  <2>3. \A i \in 1 .. count : lens[i] = P(i)
    BY <2>2
  <2>4. DOMAIN lens = 1 .. count /\ DOMAIN lens = 1 .. Len(lens) /\ Len(lens) \in Nat
    BY <2>2, LenProperties
  <2>5. Len(lens) = count
    BY <2>4
  <2> QED
    BY <2>2, <2>3, <2>5
<1>6. Ends(lens)[count] = Len(Flat(bs, count))
  <2>1. Len(bs) = Len(lens) /\ \A i \in 1 .. Len(bs) : Len(bs[i]) = lens[i]
    BY <1>3, <1>4, <1>5
  <2>2. count \in 0 .. Len(bs)
    BY <1>3
  <2> QED
    BY <2>1, <2>2, EndsAreLengths
<1>7. Total([i \in DOMAIN m.items |-> BlockSize(ItemKind[kind], m.items[i])])
        = Len(FlattenSeq(ItemBytes(m.items)))
  <2>1. [i \in DOMAIN m.items |-> BlockSize(ItemKind[kind], m.items[i])] = lens
    BY <1>1, <1>2, <1>5 DEF P
  <2>2. Total(lens) = Len(FlattenSeq(bs))
    BY <1>3, <1>5, <1>6, FlatAll DEF Total
  <2> QED
    BY <1>1, <1>3, <2>1, <2>2
<1>8. BlockSize(kind, m) = Len(BlockBytes(m))
  BY BlockSizeIs DEF FittingAll
<1>9. PICK block \in Seq(Nat), list \in Seq(Nat), rest \in Seq(Nat) :
        block = BlockBytes(m) /\ list = FlattenSeq(ItemBytes(m.items)) /\ rest = m.rest
  BY BodiesType DEF FittingAll
<1>10. Len(Bytes(m)) = Len(block) + Len(list) + Len(rest)
  BY <1>9, BodiesType DEF FittingAll
<1>11. PICK x \in Nat, y \in Nat, z \in Nat : x = Len(block) /\ y = Len(list) /\ z = Len(rest)
  BY LenProperties
<1>12. codec_size_in_bytes(kind, m) = x + z + y
  BY <1>7, <1>8, <1>9, <1>11 DEF codec_size_in_bytes
<1>13. Len(Bytes(m)) = x + y + z
  BY <1>10, <1>11
<1> QED
  BY <1>12, <1>13

\* Such a message is encoded, or the buffer is too small for it.
LEMMA EncodeIs ==
    ASSUME NEW kind \in Kinds, NEW m, FittingAll(kind, m), NEW len \in Nat
    PROVE  Encode(kind, m, len)
             = IF \/ len < Len(Bytes(m))
                  \/ kind = "RequestFirmwareDataResponse" /\ Len(m.rest) > MAX_TRANSFER_SIZE
               THEN Fail("BufferTooShort")
               ELSE [tag |-> "ok", bytes |-> Bytes(m)]
<1>1. Sliceable(kind, m)
  BY FittingSliceable DEF FittingAll
<1>2. PICK items \in Seq(Blocks) : items = m.items
  BY BodiesType DEF FittingAll
<1>3. \A i \in DOMAIN m.items : Sliceable(ItemKind[kind], m.items[i])
  BY <1>2, LenProperties, FittingSliceable DEF FittingAll
<1>4. ~ (kind = "GetFirmwareParametersResponse" /\ ListLen(kind, m.fixed) > Len(m.items))
  <2>1. SUFFICES ASSUME kind = "GetFirmwareParametersResponse"
                 PROVE  ~ (ListLen(kind, m.fixed) > Len(m.items))
    OBVIOUS
  <2>2. PICK f \in Seq(Nat) : f = m.fixed /\ Len(f) = FixedLen[kind]
    BY DEF FittingAll, Fitting
  <2>3. ListLen(kind, f) \in Nat /\ Len(items) \in Nat
    BY <2>2, ListLenType, LenProperties
  <2>4. ListLen(kind, f) <= Len(items)
    BY <1>2, <2>1, <2>2 DEF FittingAll
  <2> QED
    BY <1>2, <2>2, <2>3, <2>4
<1>5. codec_size_in_bytes(kind, m) = Len(Bytes(m)) /\ Len(Bytes(m)) \in Nat
  BY SizeIs
<1> QED
  BY <1>1, <1>3, <1>4, <1>5 DEF Encode

-----------------------------------------------------------------------------
(* decode.                                                                 *)

\* By what was found of the block, the list and the payload.
Outcome(kind, block, list, rest) ==
    IF block.tag # "ok" THEN block
    ELSE IF ~ CountInRoom(kind, block.fixed) THEN Fail("InvalidData")
    ELSE IF kind = "GetPackageDataResponse" /\ Len(rest) > MAX_PORTION_DATA_SIZE
         THEN Fail("BufferTooShort")
    ELSE IF list.tag # "ok" THEN list
    ELSE [tag |-> "ok",
          body |-> Body(Rebuilt(kind, list.fixed), list.tails, list.items,
                        IF kind \in OpenEnded THEN rest ELSE << >>)]

LEMMA DecodeCases ==
    ASSUME NEW kind, NEW b, NEW block, NEW list, NEW rest,
           block = DecodeBlock(kind, b, 0),
           list = DecodeItems(kind, b, block, Taken(kind, block.fixed)),
           rest = SubSeq(b, block.at + 1, Len(b))
    PROVE  Decode(kind, b) = Outcome(kind, block, list, rest)
BY DEF Decode, Outcome

\* A list of no items is no bytes.
LEMMA NoItems ==
    ASSUME NEW items, Len(items) = 0, items \in Seq(Blocks)
    PROVE  items = << >> /\ FlattenSeq(ItemBytes(items)) = << >>
<1>1. items = << >>
  BY EmptySeq
<1>2. ItemBytes(<< >>) = << >>
  BY DEF ItemBytes
<1> QED
  BY <1>1, <1>2 DEF FlattenSeq

\* What the decoder's header has at a place.
ByteOfNew(kind, f, i) ==
    IF kind # "GetPackageDataResponse" \/ i > 3 THEN f[i]
    ELSE IF i = 1 THEN f[1] % 32 ELSE IF i = 2 THEN 5 ELSE 17

\* It is as long as the one received, and nothing after it changes.
LEMMA RebuiltType ==
    ASSUME NEW kind, NEW f \in Seq(Nat)
    PROVE  /\ Rebuilt(kind, f) \in Seq(Nat) /\ Len(Rebuilt(kind, f)) = Len(f)
           /\ \A i \in 1 .. Len(f) : Rebuilt(kind, f)[i] = ByteOfNew(kind, f, i)
<1>1. CASE kind = "GetPackageDataResponse"
  <2>1. PICK n \in Nat : n = Len(f) /\ f \in [1 .. n -> Nat]
    BY LenProperties
  <2>2. PICK g : g = Rebuilt(kind, f) /\ g = [f EXCEPT ![1] = @ % 32, ![2] = 5, ![3] = 17]
    BY <1>1 DEF Rebuilt
  <2>3. \A x \in Nat : x % 32 \in Nat
    OBVIOUS
  <2>4. \A i \in 1 .. n : g[i] = ByteOfNew(kind, f, i)
    BY <1>1, <2>1, <2>2 DEF ByteOfNew
  <2>5. \A i \in 1 .. n : g[i] \in Nat
    BY <2>1, <2>3, <2>4 DEF ByteOfNew
  <2>6. g = [i \in 1 .. n |-> g[i]]
    BY <2>1, <2>2
  <2>7. [i \in 1 .. n |-> g[i]] \in Seq(Nat)
    BY <2>5, IsASeq
  <2>8. g \in Seq(Nat) /\ DOMAIN g = 1 .. n
    BY <2>6, <2>7
  <2>9. Len(g) = n
    BY <2>1, <2>8, LenProperties
  <2> QED
    BY <2>1, <2>2, <2>4, <2>8, <2>9
<1>2. CASE kind # "GetPackageDataResponse"
  BY <1>2 DEF Rebuilt, ByteOfNew
<1> QED
  BY <1>1, <1>2

\* A header that is all there is rebuilt alike whatever follows it,
LEMMA RebuiltConcat ==
    ASSUME NEW kind, NEW f \in Seq(Nat), NEW g \in Seq(Nat), Len(f) >= 3
    PROVE  Rebuilt(kind, f \o g) = Rebuilt(kind, f) \o g
<1>1. PICK n \in Nat, k \in Nat : n = Len(f) /\ k = Len(g) /\ n >= 3
  BY LenProperties
<1>2. PICK w \in Seq(Nat) :
        /\ w = f \o g /\ Len(w) = n + k
        /\ \A i \in 1 .. n + k : w[i] = IF i <= n THEN f[i] ELSE g[i - n]
  <2>1. /\ f \o g \in Seq(Nat) /\ Len(f \o g) = n + k
        /\ \A i \in 1 .. n + k : (f \o g)[i] = IF i <= n THEN f[i] ELSE g[i - n]
    BY ONLY <1>1, ConcatProperties, f \in Seq(Nat), g \in Seq(Nat)
  <2> QED
    BY ONLY <2>1
<1>3. PICK r \in Seq(Nat) :
        /\ r = Rebuilt(kind, w) /\ Len(r) = n + k
        /\ \A i \in 1 .. n + k : r[i] = ByteOfNew(kind, w, i)
  <2>1. /\ Rebuilt(kind, w) \in Seq(Nat) /\ Len(Rebuilt(kind, w)) = n + k
        /\ \A i \in 1 .. n + k : Rebuilt(kind, w)[i] = ByteOfNew(kind, w, i)
    BY ONLY <1>2, RebuiltType, w \in Seq(Nat)
  <2> QED
    BY ONLY <2>1
<1>4. PICK h \in Seq(Nat) :
        /\ h = Rebuilt(kind, f) /\ Len(h) = n
        /\ \A i \in 1 .. n : h[i] = ByteOfNew(kind, f, i)
  BY <1>1, RebuiltType
<1>5. PICK v \in Seq(Nat) :
        /\ v = h \o g /\ Len(v) = n + k
        /\ \A i \in 1 .. n + k : v[i] = IF i <= n THEN h[i] ELSE g[i - n]
  <2>1. /\ h \o g \in Seq(Nat) /\ Len(h \o g) = n + k
        /\ \A i \in 1 .. n + k : (h \o g)[i] = IF i <= n THEN h[i] ELSE g[i - n]
    <3>1. Len(h) = n /\ Len(g) = k
      BY <1>1, <1>4
    <3> QED
      BY ONLY <3>1, ConcatProperties, h \in Seq(Nat), g \in Seq(Nat)
  <2> QED
    BY ONLY <2>1
<1>6. ASSUME NEW i \in 1 .. n + k
      PROVE  r[i] = v[i]
  <2>1. 1 \in 1 .. n + k /\ 1 <= n /\ w[1] = f[1]
    BY <1>1, <1>2
  <2>2. CASE i <= n
    <3>1. i \in 1 .. n
      BY ONLY <2>2, i \in 1 .. n + k, n \in Nat, k \in Nat
    <3>w. w[i] = f[i]
      BY ONLY <1>2, <2>2, i \in 1 .. n + k
    <3>2. ByteOfNew(kind, w, i) = ByteOfNew(kind, f, i)
      BY ONLY <2>1, <3>w DEF ByteOfNew
    <3>3. r[i] = ByteOfNew(kind, w, i) /\ h[i] = ByteOfNew(kind, f, i) /\ v[i] = h[i]
      BY ONLY <1>3, <1>4, <1>5, <2>2, <3>1, i \in 1 .. n + k
    <3> QED
      BY ONLY <3>2, <3>3
  <2>3. CASE ~ (i <= n)
    <3>1. i > 3
      BY <1>1, <2>3
    <3>2. r[i] = w[i]
      BY <1>3, <3>1 DEF ByteOfNew
    <3> QED
      BY <1>2, <1>5, <2>3, <3>2
  <2> QED
    BY <2>2, <2>3
<1>7. r = v
  BY <1>3, <1>5, <1>6, SeqEqual
<1> QED
  BY <1>2, <1>3, <1>4, <1>5, <1>7

\* and whatever is cut off behind it.
LEMMA RebuiltCut ==
    ASSUME NEW kind, NEW b \in Seq(Nat), NEW n \in Nat, 3 <= n, n <= Len(b)
    PROVE  SubSeq(Rebuilt(kind, b), 1, n) = Rebuilt(kind, SubSeq(b, 1, n))
<1>1. PICK zero \in Nat, size \in Nat : zero = 0 /\ size = Len(b)
  BY LenProperties
<1>2. zero + 1 = 1 /\ n - zero = n /\ zero <= n /\ n <= size /\ \A i \in 1 .. n : zero + i = i
  BY <1>1
<1>3. PICK c \in Seq(Nat) : /\ c = SubSeq(b, 1, n) /\ Len(c) = n
                            /\ \A i \in 1 .. n : c[i] = b[i]
  <2>1. /\ SubSeq(b, zero + 1, n) \in Seq(Nat) /\ Len(SubSeq(b, zero + 1, n)) = n - zero
        /\ \A i \in 1 .. n - zero : SubSeq(b, zero + 1, n)[i] = b[zero + i]
    BY ONLY <1>1, <1>2, Stretch, b \in Seq(Nat), zero \in Nat, n \in Nat
  <2> QED
    BY <1>2, <2>1
<1>4. PICK r \in Seq(Nat) : /\ r = Rebuilt(kind, b) /\ Len(r) = size
                            /\ \A i \in 1 .. size : r[i] = ByteOfNew(kind, b, i)
  BY <1>1, RebuiltType
<1>5. PICK s \in Seq(Nat) : /\ s = SubSeq(r, 1, n) /\ Len(s) = n
                            /\ \A i \in 1 .. n : s[i] = r[i]
  <2>1. /\ SubSeq(r, zero + 1, n) \in Seq(Nat) /\ Len(SubSeq(r, zero + 1, n)) = n - zero
        /\ \A i \in 1 .. n - zero : SubSeq(r, zero + 1, n)[i] = r[zero + i]
    <3>1. zero <= n /\ n <= Len(r)
      BY <1>2, <1>4
    <3> QED
      BY ONLY <3>1, Stretch, r \in Seq(Nat), zero \in Nat, n \in Nat
  <2> QED
    BY <1>2, <2>1
<1>6. PICK d \in Seq(Nat) : /\ d = Rebuilt(kind, c) /\ Len(d) = n
                            /\ \A i \in 1 .. n : d[i] = ByteOfNew(kind, c, i)
  <2>1. /\ Rebuilt(kind, c) \in Seq(Nat) /\ Len(Rebuilt(kind, c)) = n
        /\ \A i \in 1 .. n : Rebuilt(kind, c)[i] = ByteOfNew(kind, c, i)
    BY ONLY <1>3, RebuiltType, c \in Seq(Nat)
  <2> QED
    BY ONLY <2>1
<1>7. ASSUME NEW i \in 1 .. n
      PROVE  s[i] = d[i]
  <2>1. i \in 1 .. size /\ 1 \in 1 .. n
    BY <1>2
  <2>2. ByteOfNew(kind, b, i) = ByteOfNew(kind, c, i)
    BY <1>3, <2>1 DEF ByteOfNew
  <2> QED
    BY <1>4, <1>5, <1>6, <2>1, <2>2
<1>8. s = d
  BY <1>5, <1>6, <1>7, SeqEqual
<1> QED
  BY <1>3, <1>4, <1>5, <1>6, <1>8

\* A message under the header its decoder gives it.
Renewed(kind, m) == Body(Rebuilt(kind, m.fixed), m.tails, m.items, m.rest)

LEMMA RenewedFits ==
    ASSUME NEW kind \in Kinds, NEW m, FittingAll(kind, m)
    PROVE  /\ FittingAll(kind, Renewed(kind, m)) /\ Renewed(kind, m).items = m.items
           /\ Bytes(Renewed(kind, m)) = Rebuilt(kind, Bytes(m))
           /\ Len(Bytes(Renewed(kind, m))) = Len(Bytes(m))
           /\ kind = "GetPackageDataResponse" => 3 <= Len(Bytes(m))
<1>1. m \in Bodies /\ Fitting(kind, m)
  BY DEF FittingAll
<1>2. CASE kind # "GetPackageDataResponse"
  <2>1. m = Body(m.fixed, m.tails, m.items, m.rest)
    BY <1>1, BodiesType
  <2>2. Rebuilt(kind, m.fixed) = m.fixed /\ Rebuilt(kind, Bytes(m)) = Bytes(m)
    BY <1>2 DEF Rebuilt
  <2>3. Renewed(kind, m) = m
    BY <2>1, <2>2 DEF Renewed
  <2> QED
    BY <1>2, <2>2, <2>3
<1>3. CASE kind = "GetPackageDataResponse"
  <2>1. PICK f \in Seq(Nat), tails \in Seq(Seq(Nat)), items \in Seq(Blocks), rest \in Seq(Nat) :
          f = m.fixed /\ tails = m.tails /\ items = m.items /\ rest = m.rest
    BY <1>1, BodiesType
  <2>2. Len(f) = 9
    BY <1>1, <1>3, <2>1 DEF Fitting, FixedLen
  <2>3. PICK h \in Seq(Nat) : h = Rebuilt(kind, f) /\ Len(h) = 9
    BY <2>2, RebuiltType
  <2>4. PICK r : r = Renewed(kind, m)
    OBVIOUS
  <2>5. /\ r = Body(h, tails, items, rest)
        /\ r.fixed = h /\ r.tails = tails /\ r.items = items /\ r.rest = rest
    BY <2>1, <2>3, <2>4 DEF Renewed, Body
  <2>6. FittingAll(kind, r)
    <3>1. TailLens(kind, h) = << >> /\ TailLens(kind, f) = << >>
      BY <1>3, StringKindsAre DEF TailLens, Optional
    <3>2. Fitting(kind, r)
      BY <1>1, <1>3, <2>1, <2>3, <2>5, <3>1 DEF Fitting, FixedLen
    <3>3. r \in Bodies
      BY <2>5 DEF Body, Bodies
    <3> QED
      BY <1>3, <2>1, <2>5, <3>2, <3>3 DEF FittingAll
  <2>7. PICK flat \in Seq(Nat), list \in Seq(Nat) :
          flat = FlattenSeq(tails) /\ list = FlattenSeq(ItemBytes(items))
    BY FlattenType, ItemBytesType
  <2>8. /\ Bytes(m) = ((f \o flat) \o list) \o rest
        /\ Bytes(r) = ((h \o flat) \o list) \o rest
    BY <2>1, <2>5, <2>7 DEF Bytes, BlockBytes, ItemBytes
  <2>9. ASSUME NEW front \in Seq(Nat), NEW more \in Seq(Nat), Len(front) >= 3
        PROVE  /\ front \o more \in Seq(Nat) /\ Len(front \o more) >= 3
               /\ Rebuilt(kind, front \o more) = Rebuilt(kind, front) \o more
    <3>1. PICK n \in Nat, k \in Nat : n = Len(front) /\ k = Len(more) /\ n >= 3
      BY <2>9, LenProperties
    <3>2. front \o more \in Seq(Nat) /\ Len(front \o more) = n + k
      BY ONLY <3>1, ConcatProperties, front \in Seq(Nat), more \in Seq(Nat)
    <3>3. n + k >= 3
      BY <3>1
    <3>4. Rebuilt(kind, front \o more) = Rebuilt(kind, front) \o more
      BY <2>9, RebuiltConcat
    <3> QED
      BY ONLY <3>2, <3>3, <3>4
  <2>10. Len(f) >= 3
    BY <2>2
  <2>11. /\ f \o flat \in Seq(Nat) /\ Len(f \o flat) >= 3
         /\ Rebuilt(kind, f \o flat) = h \o flat
    BY ONLY <2>3, <2>9, <2>10, f \in Seq(Nat), flat \in Seq(Nat)
  <2>12. PICK f2 \in Seq(Nat) :
          /\ f2 = (f \o flat) \o list /\ Len(f2) >= 3
          /\ Rebuilt(kind, f2) = (h \o flat) \o list
    <3>1. PICK f1 \in Seq(Nat) :
            f1 = f \o flat /\ Len(f1) >= 3 /\ Rebuilt(kind, f1) = h \o flat
      BY <2>11
    <3>2. /\ f1 \o list \in Seq(Nat) /\ Len(f1 \o list) >= 3
          /\ Rebuilt(kind, f1 \o list) = Rebuilt(kind, f1) \o list
      BY ONLY <2>9, <3>1, list \in Seq(Nat)
    <3> QED
      BY ONLY <3>1, <3>2
  <2>13. PICK f3 \in Seq(Nat) :
           /\ f3 = ((f \o flat) \o list) \o rest /\ Len(f3) >= 3
           /\ Rebuilt(kind, f3) = ((h \o flat) \o list) \o rest
    <3>1. /\ f2 \o rest \in Seq(Nat) /\ Len(f2 \o rest) >= 3
          /\ Rebuilt(kind, f2 \o rest) = Rebuilt(kind, f2) \o rest
      BY ONLY <2>9, <2>12, rest \in Seq(Nat)
    <3> QED
      BY ONLY <2>12, <3>1
  <2>14. Bytes(m) = f3 /\ Bytes(r) = Rebuilt(kind, f3)
    BY <2>8, <2>13
  <2>15. Len(Rebuilt(kind, f3)) = Len(f3) /\ Len(f3) \in Nat
    BY RebuiltType, LenProperties
  <2> QED
    BY <2>1, <2>4, <2>5, <2>6, <2>13, <2>14, <2>15
<1> QED
  BY <1>2, <1>3

\* What is decoded stands in b, but for that header.
DecodedOrError(kind, b, d) ==
    \/ d = Fail("BufferTooShort")
    \/ d = Fail("InvalidData")
    \/ \E m : /\ d = [tag |-> "ok", body |-> Renewed(kind, m)]
              /\ FittingAll(kind, m) /\ Len(m.items) <= ListRoom(kind)
              /\ Len(Bytes(m)) <= Len(b)
              /\ Bytes(m) = SubSeq(b, 1, Len(Bytes(m)))

LEMMA DecodeRead ==
    ASSUME NEW kind \in Kinds, NEW b \in Seq(Nat)
    PROVE  DecodedOrError(kind, b, Decode(kind, b))
<1>1. PICK size \in Nat, zero \in Nat : size = Len(b) /\ zero = 0
  BY LenProperties
<1>2. PICK block : block = DecodeBlock(kind, b, 0) /\ BlockOrError(kind, b, zero, block)
  BY <1>1, BlockRead
<1>3. PICK list : list = DecodeItems(kind, b, block, Taken(kind, block.fixed))
  OBVIOUS
<1>4. PICK rest : rest = SubSeq(b, block.at + 1, Len(b))
  OBVIOUS
<1>5. PICK d : d = Decode(kind, b) /\ d = Outcome(kind, block, list, rest)
  BY <1>2, <1>3, <1>4, DecodeCases
<1>6. CASE block = Fail("BufferTooShort") \/ block = Fail("InvalidData")
  <2>1. block.tag # "ok"
    BY <1>6 DEF Fail
  <2> QED
    BY <1>5, <1>6, <2>1 DEF DecodedOrError, Outcome
<1>7. CASE \E f, tails, end : /\ block = Read(f, tails, << >>, end)
                              /\ StandsAt(kind, b, zero, Block(f, tails), end)
  <2>1. PICK f, tails, end : /\ block = Read(f, tails, << >>, end)
                             /\ StandsAt(kind, b, zero, Block(f, tails), end)
    BY <1>7
  <2>2. /\ block.tag = "ok" /\ block.fixed = f /\ block.at = end
        /\ Block(f, tails).fixed = f /\ Block(f, tails).tails = tails
    BY <2>1 DEF Read, Block
  <2>3. /\ Fitting(kind, Block(f, tails)) /\ end \in Nat /\ zero <= end /\ end <= Len(b)
        /\ BlockBytes(Block(f, tails)) = SubSeq(b, zero + 1, end)
    BY <2>1 DEF StandsAt
  <2>4. f \in Seq(Nat) /\ Len(f) = FixedLen[kind] /\ tails \in Seq(Seq(Nat))
    BY <2>2, <2>3 DEF Fitting
  <2>5. PICK count \in Nat, all \in Nat, room \in Nat :
          /\ count = Taken(kind, f) /\ all = ListLen(kind, f) /\ room = ListRoom(kind)
          /\ count <= room /\ (all <= room => count = all)
          /\ kind \notin DOMAIN ItemKind => count = 0
    <3>1. ListLen(kind, f) \in Nat /\ Taken(kind, f) \in Nat
      BY <2>4, ListLenType
    <3>2. /\ Taken(kind, f) <= ListRoom(kind)
          /\ kind \notin DOMAIN ItemKind => Taken(kind, f) = 0
      BY <2>4, ListLenType
    <3>3. ListRoom(kind) \in Nat
      BY RoomType
    <3>4. ListLen(kind, f) <= ListRoom(kind) => Taken(kind, f) = ListLen(kind, f)
      BY <3>1, <3>3 DEF Taken
    <3> QED
      BY <3>1, <3>2, <3>3, <3>4
  <2>6. ListOrError(kind, b, f, tails, end, count, list)
    <3>1. list = DecodeItems(kind, b, Read(f, tails, << >>, end), count)
      BY <1>3, <2>1, <2>2, <2>5
    <3>2. count # 0 => kind \in DOMAIN ItemKind
      BY <2>5
    <3> QED
      BY <2>3, <3>1, <3>2, ItemsRead
  <2>7. CASE d = Fail("InvalidData") \/ d = Fail("BufferTooShort") \/ list.tag # "ok"
    <3>1. CASE list.tag # "ok" /\ ~ (d = Fail("InvalidData") \/ d = Fail("BufferTooShort"))
      <4>1. d = list
        BY <1>5, <2>2, <3>1 DEF Outcome
      <4>2. \A items, to : Read(f, tails, items, to).tag = "ok"
        BY DEF Read
      <4> QED
        BY <2>6, <3>1, <4>1, <4>2 DEF ListOrError
    <3> QED
      BY <1>5, <2>7, <3>1 DEF DecodedOrError
  <2>8. CASE ~ (d = Fail("InvalidData") \/ d = Fail("BufferTooShort") \/ list.tag # "ok")
    <3>1. /\ CountInRoom(kind, f)
          /\ d = [tag |-> "ok",
                  body |-> Body(Rebuilt(kind, list.fixed), list.tails, list.items,
                                IF kind \in OpenEnded THEN rest ELSE << >>)]
      BY <1>5, <2>2, <2>8 DEF Outcome
    <3>2. PICK items, to : /\ list = Read(f, tails, items, to) /\ Len(items) = count
                           /\ ListStandsAt(kind, b, end, items, to)
      <4>1. Fail("InvalidData").tag # "ok" /\ Fail("BufferTooShort").tag # "ok"
        BY DEF Fail
      <4> QED
        BY <2>6, <2>8, <4>1 DEF ListOrError
    <3>3. list.fixed = f /\ list.tails = tails /\ list.items = items
      BY <3>2 DEF Read
    <3>4. /\ items \in Seq(Blocks) /\ to \in Nat /\ end <= to /\ to <= Len(b)
          /\ \A i \in 1 .. count : Fitting(ItemKind[kind], items[i])
          /\ FlattenSeq(ItemBytes(items)) = SubSeq(b, end + 1, to)
      BY <3>2 DEF ListStandsAt
    <3>5. PICK payload : payload = IF kind \in OpenEnded THEN rest ELSE << >>
      OBVIOUS
    <3>6. PICK m : m = Body(f, tails, items, payload)
      OBVIOUS
    <3>7. m.fixed = f /\ m.tails = tails /\ m.items = items /\ m.rest = payload
      BY <3>6 DEF Body
    <3>8. d = [tag |-> "ok", body |-> Renewed(kind, m)]
      BY <3>1, <3>3, <3>5, <3>7 DEF Renewed
    <3>9. BlockBytes(m) \o FlattenSeq(ItemBytes(m.items)) = SubSeq(b, zero + 1, to)
      <4>1. BlockBytes(m) = SubSeq(b, zero + 1, end)
        BY <2>2, <2>3, <3>7 DEF BlockBytes
      <4>2. SubSeq(b, zero + 1, end) \o SubSeq(b, end + 1, to) = SubSeq(b, zero + 1, to)
        <5>1. end \in Nat /\ to \in Nat /\ zero <= end /\ end <= to /\ to <= Len(b)
          BY <2>3, <3>4
        <5> QED
          BY ONLY <5>1, StretchOn, b \in Seq(Nat), zero \in Nat
      <4> QED
        BY <3>4, <3>7, <4>1, <4>2
    <3>10. PICK last \in Nat : /\ to <= last /\ last <= size
                               /\ payload = SubSeq(b, to + 1, last) /\ payload \in Seq(Nat)
      <4>1. CASE kind \in OpenEnded
        <5>1. kind \notin DOMAIN ItemKind
          BY <4>1 DEF OpenEnded, ItemKind
        <5>2. FlattenSeq(ItemBytes(items)) = << >>
          BY <2>5, <3>2, <3>4, <5>1, NoItems
        <5>3. Len(SubSeq(b, end + 1, to)) = to - end
          BY <2>3, <3>4, Stretch
        <5>4. to = end
          <6>1. Len(SubSeq(b, end + 1, to)) = 0
            BY <3>4, <5>2, EmptySeq
          <6> QED
            BY <2>3, <3>4, <5>3, <6>1
        <5>5. payload = SubSeq(b, to + 1, size)
          BY <1>1, <1>4, <2>2, <3>5, <4>1, <5>4
        <5>6. SubSeq(b, to + 1, size) \in Seq(Nat)
          <6>1. to <= size /\ size <= Len(b)
            BY <1>1, <3>4
          <6> QED
            BY <3>4, <6>1, Stretch
        <5> QED
          BY <1>1, <3>4, <5>5, <5>6
      <4>2. CASE kind \notin OpenEnded
        <5>1. payload = << >>
          BY <3>5, <4>2
        <5>2. SubSeq(b, to + 1, to) = << >>
          <6>1. to + 1 \in Int /\ to \in Int /\ to < to + 1
            BY <3>4
          <6> QED
            BY <6>1, SubSeqEmpty
        <5> QED
          BY <1>1, <3>4, <5>1, <5>2, EmptySeq
      <4> QED
        BY <4>1, <4>2
    <3>11. Bytes(m) = SubSeq(b, 1, last) /\ Len(Bytes(m)) = last
      <4>1. BlockBytes(m) \o FlattenSeq(ItemBytes(m.items)) \o m.rest = Bytes(m)
        BY DEF Bytes, ItemBytes
      <4>2. SubSeq(b, zero + 1, to) \o SubSeq(b, to + 1, last) = SubSeq(b, zero + 1, last)
        <5>1. zero <= to /\ to <= last /\ last <= Len(b)
          BY <1>1, <3>4, <3>10
        <5> QED
          BY <3>4, <5>1, StretchOn
      <4>3. Len(SubSeq(b, zero + 1, last)) = last - zero
        <5>1. zero <= last /\ last <= Len(b)
          BY <1>1, <3>10
        <5> QED
          BY <5>1, Stretch
      <4>4. zero + 1 = 1 /\ last - zero = last
        BY <1>1
      <4> QED
        BY <3>7, <3>9, <3>10, <4>1, <4>2, <4>3, <4>4
    <3>12. FittingAll(kind, m)
      <4>1. m \in Bodies
        BY <2>4, <3>4, <3>6, <3>10 DEF Body, Bodies
      <4>2. Fitting(kind, m)
        BY <2>2, <2>3, <3>7 DEF Fitting
      <4>3. m.items # << >> => kind \in DOMAIN ItemKind
        BY <2>5, <3>2, <3>4, <3>7, NoItems
      <4>4. kind = "GetFirmwareParametersResponse" => ListLen(kind, m.fixed) <= Len(m.items)
        BY <2>5, <3>1, <3>2, <3>7 DEF CountInRoom
      <4> QED
        BY <3>2, <3>4, <3>7, <4>1, <4>2, <4>3, <4>4 DEF FittingAll
    <3>13. Len(m.items) <= ListRoom(kind)
      BY <2>5, <3>2, <3>7
    <3>14. Len(Bytes(m)) <= Len(b) /\ Bytes(m) = SubSeq(b, 1, Len(Bytes(m)))
      BY <1>1, <3>10, <3>11
    <3>15. DecodedOrError(kind, b, d)
      BY <3>8, <3>12, <3>13, <3>14 DEF DecodedOrError
    <3> QED
      BY <1>5, <3>15
  <2> QED
    BY <2>7, <2>8
<1> QED
  BY <1>2, <1>6, <1>7 DEF BlockOrError

\* A message that a constructor builds: under the header its decoder would give it,
\* with as many items as its block says, no more than there is room for; a payload only where there is one, and as long as
\* the receiver accepts.
Built(kind, m) ==
    /\ FittingAll(kind, m) /\ m.fixed = Rebuilt(kind, m.fixed)
    /\ Len(m.items) = ListLen(kind, m.fixed) /\ Len(m.items) <= ListRoom(kind)
    /\ kind \notin OpenEnded => m.rest = << >>
    /\ kind = "GetPackageDataResponse" => Len(m.rest) <= MAX_PORTION_DATA_SIZE

\* Of such a message decode finds what arrived of its payload, or misses part of
\* its blocks.
LEMMA DecodeHere ==
    ASSUME NEW kind \in Kinds, NEW m, Built(kind, m),
           NEW n \in 0 .. Len(Bytes(m)), NEW b, b = SubSeq(Bytes(m), 1, n)
    PROVE  Decode(kind, b)
             = IF n < Len(BeforeRest(m)) THEN Fail("BufferTooShort")
               ELSE [tag |-> "ok",
                     body |-> Body(m.fixed, m.tails, m.items,
                                   SubSeq(m.rest, 1, n - Len(BeforeRest(m))))]
<1>m. m \in Bodies /\ Fitting(kind, m)
  BY DEF Built, FittingAll
<1>1. PICK w \in Seq(Nat), front \in Seq(Nat), head \in Seq(Nat), flat \in Seq(Nat), rest \in Seq(Nat) :
        /\ w = Bytes(m) /\ front = BeforeRest(m) /\ head = BlockBytes(m)
        /\ flat = FlattenSeq(ItemBytes(m.items)) /\ rest = m.rest
  BY <1>m, BodiesType
<1>2. w = front \o rest /\ front = head \o flat
  BY <1>1, <1>m, BodiesType DEF BeforeRest
<1>3. PICK end \in Nat, to \in Nat, size \in Nat, more \in Nat :
        /\ end = Len(head) /\ to = Len(front) /\ size = Len(w) /\ more = Len(rest)
        /\ to = end + Len(flat) /\ size = to + more
  <2>1. Len(head) \in Nat /\ Len(front) \in Nat /\ Len(w) \in Nat /\ Len(rest) \in Nat
    BY LenProperties
  <2>2. Len(front) = Len(head) + Len(flat) /\ Len(w) = Len(front) + Len(rest)
    BY <1>2, ConcatProperties
  <2> QED
    BY <2>1, <2>2
<1>4. Len(flat) \in Nat /\ end <= to /\ to <= size /\ n \in Nat /\ n <= size
  <2>1. Len(flat) \in Nat
    BY LenProperties
  <2>2. n \in 0 .. size
    BY <1>1, <1>3
  <2> QED
    BY <1>3, <2>1, <2>2
<1>5. PICK zero \in Nat : zero = 0
  OBVIOUS
<1>6. /\ b \in Seq(Nat) /\ Len(b) = n
      /\ \A i \in 1 .. n : b[i] = w[i]
  <2>1. zero <= n /\ n <= Len(w) /\ n \in Nat
    BY <1>3, <1>4, <1>5
  <2>2. /\ SubSeq(w, zero + 1, n) \in Seq(Nat) /\ Len(SubSeq(w, zero + 1, n)) = n - zero
        /\ \A i \in 1 .. n - zero : SubSeq(w, zero + 1, n)[i] = w[zero + i]
    BY ONLY <2>1, Stretch, w \in Seq(Nat), zero \in Nat
  <2>3. zero + 1 = 1 /\ n - zero = n /\ \A i \in 1 .. n : zero + i = i
    BY <1>4, <1>5
  <2> QED
    BY <1>1, <2>2, <2>3
<1>7. /\ Shows(head, b, zero) /\ Shows(flat, b, end) /\ Shows(rest, b, to)
  <2>1. Shows(w, b, zero)
    <3>1. \A i \in 1 .. Len(w) : zero + i = i /\ (i <= n => i \in 1 .. n)
      BY <1>4, <1>5
    <3> QED
      BY <1>6, <3>1 DEF Shows
  <2>2. Len(b) \in Nat
    BY <1>4, <1>6
  <2>3. Shows(front, b, zero) /\ Shows(rest, b, zero + Len(front))
    BY <1>2, <2>1, <2>2, ShowsBoth
  <2>4. Shows(head, b, zero) /\ Shows(flat, b, zero + Len(head))
    BY <1>2, <2>2, <2>3, ShowsBoth
  <2>5. zero + Len(front) = to /\ zero + Len(head) = end
    BY <1>3, <1>5
  <2> QED
    BY <2>3, <2>4, <2>5
<1>8. PICK block : /\ block = DecodeBlock(kind, b, 0)
                   /\ block = IF end > n THEN Fail("BufferTooShort")
                              ELSE Read(m.fixed, m.tails, << >>, end)
  <2>1. end = zero + Len(BlockBytes(m)) /\ Shows(BlockBytes(m), b, zero)
    BY <1>1, <1>3, <1>5, <1>7
  <2>2. DecodeBlock(kind, b, zero) = IF end > Len(b) THEN Fail("BufferTooShort")
                                     ELSE Read(m.fixed, m.tails, << >>, end)
    <3>1. b \in Seq(Nat) /\ Fitting(kind, m)
      BY <1>m, <1>6
    <3> QED
      BY ONLY <3>1, <2>1, BlockHere, kind \in Kinds, zero \in Nat, end \in Nat
  <2> QED
    BY <1>5, <1>6, <2>2
<1>9. PICK list : list = DecodeItems(kind, b, block, Taken(kind, block.fixed))
  OBVIOUS
<1>10. PICK payload : payload = SubSeq(b, block.at + 1, Len(b))
  OBVIOUS
<1>11. PICK d : d = Decode(kind, b) /\ d = Outcome(kind, block, list, payload)
  <2>1. block = DecodeBlock(kind, b, 0)
    BY <1>8
  <2>2. Decode(kind, b) = Outcome(kind, block, list, payload)
    BY ONLY <1>9, <1>10, <2>1, DecodeCases
  <2> QED
    BY <2>2
<1>12. CASE end > n
  <2>1. block = Fail("BufferTooShort") /\ block.tag # "ok"
    BY <1>8, <1>12 DEF Fail
  <2>2. d = Fail("BufferTooShort")
    BY <1>11, <2>1 DEF Outcome
  <2>3. n < Len(BeforeRest(m))
    BY <1>1, <1>3, <1>4, <1>12
  <2> QED
    BY <1>11, <2>2, <2>3
<1>13. CASE ~ (end > n)
  <2>1. /\ block = Read(m.fixed, m.tails, << >>, end)
        /\ block.tag = "ok" /\ block.fixed = m.fixed /\ block.at = end
    BY <1>8, <1>13 DEF Read
  <2>2. PICK items \in Seq(Blocks), count \in Nat : items = m.items /\ count = Len(items)
    BY <1>m, BodiesType, LenProperties
  <2>3. Taken(kind, m.fixed) = count /\ CountInRoom(kind, m.fixed)
    <3>1. count = ListLen(kind, m.fixed) /\ count <= ListRoom(kind) /\ ListRoom(kind) \in Nat
      BY <2>2, RoomType DEF Built
    <3> QED
      BY <3>1 DEF Taken, CountInRoom
  <2>4. count # 0 => kind \in DOMAIN ItemKind
    <3>1. items = << >> => count = 0
      BY <2>2, EmptySeq
    <3> QED
      BY <2>2, <3>1 DEF Built, FittingAll
  <2>5. list = IF to > n THEN Fail("BufferTooShort") ELSE Read(m.fixed, m.tails, items, to)
    <3>1. \A i \in 1 .. count : Fitting(ItemKind[kind], items[i])
      BY <2>2 DEF Built, FittingAll
    <3>2. /\ Shows(FlattenSeq(ItemBytes(items)), b, end)
          /\ to = end + Len(FlattenSeq(ItemBytes(items)))
      BY <1>1, <1>3, <1>7, <2>2
    <3>3. end <= Len(b)
      BY <1>4, <1>6, <1>13
    <3>4. PICK f, tails : f = m.fixed /\ tails = m.tails
      OBVIOUS
    <3>5. DecodeItems(kind, b, Read(f, tails, << >>, end), count)
            = IF to > Len(b) THEN Fail("BufferTooShort") ELSE Read(f, tails, items, to)
      <4>1. ShowsList(kind, b, end, items, count, to)
        BY <2>2, <2>4, <3>1, <3>2 DEF ShowsList
      <4>2. b \in Seq(Nat)
        BY <1>6
      <4>3. ListOrTooShort(kind, b, f, tails, end, items, count, to)
        BY ONLY <3>3, <4>1, <4>2, ItemsHere, count \in Nat, end \in Nat, to \in Nat
      <4> QED
        BY <4>3 DEF ListOrTooShort
    <3>6. list = DecodeItems(kind, b, Read(f, tails, << >>, end), count)
      BY <1>9, <2>1, <2>3, <3>4
    <3> QED
      BY <1>6, <3>4, <3>5, <3>6
  <2>6. CASE to > n
    <3>1. list = Fail("BufferTooShort") /\ list.tag # "ok"
      BY <2>5, <2>6 DEF Fail
    <3>2. d = Fail("BufferTooShort")
      BY <1>11, <2>1, <2>3, <3>1 DEF Outcome
    <3>3. n < Len(BeforeRest(m))
      BY <1>1, <1>3, <1>4, <2>6
    <3> QED
      BY <1>11, <3>2, <3>3
  <2>7. CASE ~ (to > n)
    <3>1. /\ list.tag = "ok" /\ list.fixed = m.fixed /\ list.tails = m.tails
          /\ list.items = m.items
      BY <2>2, <2>5, <2>7 DEF Read
    <3>2. PICK left \in Nat : left = n - to /\ left <= more
      <4>1. n - to \in Nat /\ n - to <= more
        BY <1>3, <1>4, <2>7
      <4> QED
        BY <4>1
    <3>3. PICK part \in Seq(Nat) : /\ part = SubSeq(rest, 1, left) /\ Len(part) = left
                                   /\ \A i \in 1 .. left : part[i] = rest[i]
      <4>1. zero <= left /\ left <= Len(rest)
        BY <1>3, <1>5, <3>2
      <4>2. /\ SubSeq(rest, zero + 1, left) \in Seq(Nat) /\ Len(SubSeq(rest, zero + 1, left)) = left - zero
            /\ \A i \in 1 .. left - zero : SubSeq(rest, zero + 1, left)[i] = rest[zero + i]
        BY ONLY <4>1, Stretch, rest \in Seq(Nat), zero \in Nat, left \in Nat
      <4>3. zero + 1 = 1 /\ left - zero = left /\ \A i \in 1 .. left : zero + i = i
        BY <1>5
      <4> QED
        BY <4>2, <4>3
    <3>4. SubSeq(b, to + 1, n) = part
      <4>1. Shows(part, b, to)
        <5>1. \A i \in 1 .. left : i \in 1 .. Len(rest)
          BY <1>3, <3>2
        <5> QED
          BY <1>7, <3>3, <5>1 DEF Shows
      <4>2. n = to + Len(part) /\ n <= Len(b) /\ n \in Nat
        <5>1. n = to + left
          BY <1>4, <3>2
        <5>2. n <= Len(b) /\ n \in Nat
          BY <1>4, <1>6
        <5> QED
          BY <3>3, <5>1, <5>2
      <4> QED
        BY ONLY <4>1, <4>2, ShowsAll, <1>6, to \in Nat, part \in Seq(Nat)
    <3>5. (IF kind \in OpenEnded THEN payload ELSE << >>) = part
      <4>1. CASE kind \in OpenEnded
        <5>1. kind \notin DOMAIN ItemKind
          BY <4>1 DEF OpenEnded, ItemKind
        <5>2. Len(items) = 0
          BY <2>2, <2>4, <5>1
        <5>3. flat = << >>
          BY <1>1, <2>2, <5>2, NoItems
        <5>4. Len(flat) = 0
          BY <5>3, EmptySeq
        <5>5. to = end
          BY <1>3, <5>4
        <5> QED
          BY <1>6, <1>10, <2>1, <3>4, <4>1, <5>5
      <4>2. CASE kind \notin OpenEnded
        <5>1. rest = << >>
          BY <1>1, <4>2 DEF Built
        <5>2. more = 0
          BY <1>3, <5>1, EmptySeq
        <5>3. Len(part) = 0
          BY <3>2, <3>3, <5>2
        <5>4. part = << >>
          BY <5>3, EmptySeq
        <5> QED
          BY <4>2, <5>4
      <4> QED
        BY <4>1, <4>2
    <3>6. ~ (kind = "GetPackageDataResponse" /\ Len(payload) > MAX_PORTION_DATA_SIZE)
      <4>1. SUFFICES ASSUME kind = "GetPackageDataResponse"
                     PROVE  ~ (Len(payload) > MAX_PORTION_DATA_SIZE)
        OBVIOUS
      <4>2. payload = part
        BY <3>5, <4>1 DEF OpenEnded
      <4>3. more <= MAX_PORTION_DATA_SIZE /\ MAX_PORTION_DATA_SIZE \in Nat
        BY <1>1, <1>3, <4>1, SizeAssumption DEF Built
      <4>4. left <= MAX_PORTION_DATA_SIZE
        BY <3>2, <4>3
      <4> QED
        BY <3>3, <4>2, <4>3, <4>4
    <3>7. d = [tag |-> "ok", body |-> Body(m.fixed, m.tails, m.items, part)]
      <4>1. Rebuilt(kind, list.fixed) = m.fixed
        BY <3>1 DEF Built
      <4> QED
        BY <1>11, <2>1, <2>3, <3>1, <3>5, <3>6, <4>1 DEF Outcome
    <3>8. ~ (n < Len(BeforeRest(m))) /\ n - Len(BeforeRest(m)) = left
      BY <1>1, <1>3, <1>4, <2>7, <3>2
    <3> QED
      BY <1>1, <1>11, <3>3, <3>7, <3>8
  <2> QED
    BY <2>6, <2>7
<1> QED
  BY <1>12, <1>13

-----------------------------------------------------------------------------
(* The exchange.                                                           *)

\* The message is one of those, the wire holds what encode made of it,
SentInv ==
    /\ from_peer \in BOOLEAN
    /\ message \in IF from_peer THEN PeerMessages ELSE Messages
    /\ wire # None =>
          IF from_peer THEN wire = [tag |-> "ok", bytes |-> Bytes(message.body)]
          ELSE \E len \in BufferLens : wire = Encode(message.kind, message.body, len)

\* what arrived is the beginning of it, and was decoded,
ReceivedInv ==
    (received # None \/ decoded # None \/ reencoded # None) =>
        /\ wire # None /\ wire.tag = "ok" /\ received \in Seq(Nat)
        /\ \E n \in 0 .. Len(wire.bytes) : received = SubSeq(wire.bytes, 1, n)
        /\ decoded = Decode(message.kind, received)

\* and what was encoded again was decoded before.
ReencodedInv ==
    reencoded # None =>
        /\ decoded.tag = "ok"
        /\ reencoded = Encode(message.kind, decoded.body, Len(received))

ExchangeInv == SentInv /\ ReceivedInv /\ ReencodedInv

LEMMA MessageType ==
    ASSUME SentInv
    PROVE  message.kind \in Kinds /\ message.body \in Bodies
BY MessageAssumption, PeerAssumption DEF SentInv

\* What encode returns, whatever it is given.
LEMMA EncodeTags ==
    ASSUME NEW kind, NEW m, NEW len
    PROVE  /\ Encode(kind, m, len).tag \in {"ok", "BufferTooShort", "panic"}
           /\ Encode(kind, m, len).tag = "ok"
                => Encode(kind, m, len) = [tag |-> "ok", bytes |-> Bytes(m)]
BY DEF Encode, Fail

LEMMA WireType ==
    ASSUME SentInv, wire # None, wire.tag = "ok"
    PROVE  wire.bytes = Bytes(message.body) /\ wire.bytes \in Seq(Nat)
<1>1. wire = [tag |-> "ok", bytes |-> Bytes(message.body)]
  BY EncodeTags DEF SentInv
<1>2. Bytes(message.body) \in Seq(Nat)
  BY MessageType, BodiesType
<1> QED
  BY <1>1, <1>2

LEMMA InitExchange == Init => ExchangeInv
BY DEF Init, ExchangeInv, SentInv, ReceivedInv, ReencodedInv

LEMMA NextExchange == ExchangeInv /\ [Next]_vars => ExchangeInv'
<1> SUFFICES ASSUME ExchangeInv, [Next]_vars PROVE ExchangeInv'
  OBVIOUS
<1> USE DEF ExchangeInv
<1>1. CASE Send
  <2>1. received = None /\ decoded = None /\ reencoded = None
    BY <1>1 DEF Send, ReceivedInv
  <2>2. SentInv'
    BY <1>1 DEF Send, SentInv
  <2> QED
    BY <1>1, <2>1, <2>2 DEF Send, ReceivedInv, ReencodedInv
<1>2. CASE Receive
  <2>1. SentInv'
    BY <1>2 DEF Receive, SentInv
  <2>2. PICK w \in Seq(Nat) : w = wire.bytes
    BY <1>2, WireType DEF Receive
  <2>3. PICK n \in 0 .. Len(w) : received' = SubSeq(w, 1, n)
    BY <1>2, <2>2 DEF Receive
  <2>4. received' \in Seq(Nat)
    <3>1. \A i \in 1 .. n : w[i] \in Nat
      BY ElementOfSeq, LenProperties
    <3>2. 1 \in Int /\ n \in Int
      OBVIOUS
    <3> QED
      BY <2>3, <3>1, <3>2, SubSeqProperties
  <2>5. ReceivedInv'
    BY <1>2, <2>2, <2>3, <2>4 DEF Receive, ReceivedInv
  <2>6. reencoded = None
    BY <1>2, NoneAssumption DEF Receive, ReceivedInv
  <2>7. ReencodedInv'
    BY <1>2, <2>6 DEF Receive, ReencodedInv
  <2> QED
    BY <2>1, <2>5, <2>7
<1>3. CASE Reencode
  <2>1. SentInv' /\ ReceivedInv'
    BY <1>3 DEF Reencode, SentInv, ReceivedInv
  <2>2. ReencodedInv'
    BY <1>3 DEF Reencode, ReencodedInv
  <2> QED
    BY <2>1, <2>2
<1>4. CASE UNCHANGED vars
  BY <1>4 DEF vars, SentInv, ReceivedInv, ReencodedInv
<1> QED
  BY <1>1, <1>2, <1>3, <1>4 DEF Next

\* At every moment of every exchange the wire, the bytes that arrived and the
\* two results belong to one another.
THEOREM ExchangeHolds == Spec => []ExchangeInv
BY InitExchange, NextExchange, PTL DEF Spec

-----------------------------------------------------------------------------
(* The properties.                                                         *)

\* What decode returned is what DecodeRead says of the bytes that arrived.
LEMMA DecodedIs ==
    ASSUME ExchangeInv, received # None \/ decoded # None \/ reencoded # None
    PROVE  /\ message.kind \in Kinds /\ received \in Seq(Nat)
           /\ DecodedOrError(message.kind, received, decoded)
BY MessageType, DecodeRead DEF ExchangeInv, ReceivedInv

LEMMA DecodedOk ==
    ASSUME NEW kind \in Kinds, NEW b, NEW d, DecodedOrError(kind, b, d), d.tag = "ok"
    PROVE  /\ FittingAll(kind, d.body) /\ Len(d.body.items) <= ListRoom(kind)
           /\ Len(Bytes(d.body)) <= Len(b)
           /\ Bytes(d.body) = Rebuilt(kind, SubSeq(b, 1, Len(Bytes(d.body))))
           /\ kind = "GetPackageDataResponse" => 3 <= Len(Bytes(d.body))
<1>1. Fail("BufferTooShort").tag # "ok" /\ Fail("InvalidData").tag # "ok"
  BY DEF Fail
<1>2. PICK m : /\ d.body = Renewed(kind, m)
               /\ FittingAll(kind, m) /\ Len(m.items) <= ListRoom(kind)
               /\ Len(Bytes(m)) <= Len(b)
               /\ Bytes(m) = SubSeq(b, 1, Len(Bytes(m)))
  BY <1>1 DEF DecodedOrError
<1> QED
  BY <1>2, RenewedFits

LEMMA DecodedTags ==
    ASSUME NEW kind, NEW b, NEW d, DecodedOrError(kind, b, d)
    PROVE  d.tag \in {"ok", "BufferTooShort", "InvalidData"}
<1>1. Fail("BufferTooShort").tag = "BufferTooShort" /\ Fail("InvalidData").tag = "InvalidData"
  BY DEF Fail
<1> QED
  BY <1>1 DEF DecodedOrError

\* The strings of a block that fits are in their arrays.
LEMMA FittingInArrays ==
    ASSUME NEW kind, NEW b, Fitting(kind, b)
    PROVE  InArrays(kind, b)
<1>1. DOMAIN b.tails = 1 .. Len(b.tails)
  BY LenProperties DEF Fitting
<1> QED
  BY <1>1 DEF InArrays, Fitting

\* Each step returns a value of its type; a value that decode returns has its
\* strings, descriptor data and lists in their arrays.
THEOREM TypeCorrect == Spec => []TypeOK
<1>1. ExchangeInv => TypeOK
  <2> SUFFICES ASSUME ExchangeInv PROVE TypeOK
    OBVIOUS
  <2>1. SentInv /\ ReceivedInv /\ ReencodedInv
    BY DEF ExchangeInv
  <2>2. from_peer \in BOOLEAN /\ message.kind \in Kinds
    BY <2>1, MessageType DEF SentInv
  <2>3. wire = None \/ wire.tag \in {"ok", "BufferTooShort", "panic"}
    <3>1. SUFFICES ASSUME wire # None PROVE wire.tag \in {"ok", "BufferTooShort", "panic"}
      OBVIOUS
    <3>2. CASE from_peer
      BY <2>1, <3>1, <3>2 DEF SentInv
    <3>3. CASE ~ from_peer
      <4>1. PICK len \in BufferLens : wire = Encode(message.kind, message.body, len)
        BY <2>1, <3>1, <3>3 DEF SentInv
      <4> QED
        BY <4>1, EncodeTags
    <3> QED
      BY <3>2, <3>3
  <2>4. reencoded = None \/ reencoded.tag \in {"ok", "BufferTooShort", "panic"}
    BY <2>1, EncodeTags DEF ReencodedInv
  <2>5. decoded = None \/ decoded.tag \in {"ok", "BufferTooShort", "InvalidData", "panic"}
    BY DecodedIs, DecodedTags
  <2>6. ASSUME decoded # None, decoded.tag = "ok"
        PROVE  /\ InArrays(message.kind, decoded.body)
               /\ Len(decoded.body.items) <= ListRoom(message.kind)
               /\ \A i \in DOMAIN decoded.body.items :
                     InArrays(ItemKind[message.kind], decoded.body.items[i])
    <3>1. /\ FittingAll(message.kind, decoded.body)
          /\ Len(decoded.body.items) <= ListRoom(message.kind)
      BY <2>6, DecodedIs, DecodedOk
    <3>2. PICK items \in Seq(Blocks) : items = decoded.body.items
      BY <3>1, BodiesType DEF FittingAll
    <3>3. DOMAIN items = 1 .. Len(items)
      BY LenProperties
    <3>4. \A i \in DOMAIN items : InArrays(ItemKind[message.kind], items[i])
      BY <3>1, <3>2, <3>3, FittingInArrays DEF FittingAll
    <3>5. InArrays(message.kind, decoded.body)
      BY <3>1, FittingInArrays DEF FittingAll
    <3> QED
      BY <3>1, <3>2, <3>4, <3>5
  <2> QED
    BY <2>2, <2>3, <2>4, <2>5, <2>6 DEF TypeOK
<1> QED
  BY <1>1, ExchangeHolds, PTL

\* What decode accepts, encode takes: the lengths and counts of a value that was
\* decoded are those of its arrays, so a buffer of the size it came from holds
\* it, and the bytes are the ones it was decoded from, under the header that
\* GetPackageDataResponse::decode gives its message and no other decoder changes.
THEOREM ReencodesHolds == Spec => []ReencodesToInput
<1>1. ExchangeInv => ReencodesToInput
  <2>1. SUFFICES ASSUME ExchangeInv, reencoded # None
                 PROVE  \/ /\ reencoded.tag = "ok"
                           /\ IsPrefix(reencoded.bytes, Rebuilt(message.kind, received))
                        \/ /\ message.kind = "RequestFirmwareDataResponse"
                           /\ Len(decoded.body.rest) > MAX_TRANSFER_SIZE
    BY DEF ReencodesToInput
  <2>2. /\ decoded.tag = "ok"
        /\ reencoded = Encode(message.kind, decoded.body, Len(received))
    BY <2>1 DEF ExchangeInv, ReencodedInv
  <2>m. PICK m : m = decoded.body
    OBVIOUS
  <2>3. PICK kind \in Kinds, b \in Seq(Nat) : kind = message.kind /\ b = received
    BY <2>1, DecodedIs
  <2>4. /\ FittingAll(kind, m) /\ Len(Bytes(m)) <= Len(b)
        /\ Bytes(m) = Rebuilt(kind, SubSeq(b, 1, Len(Bytes(m))))
        /\ kind = "GetPackageDataResponse" => 3 <= Len(Bytes(m))
    BY <2>1, <2>2, <2>3, <2>m, DecodedIs, DecodedOk
  <2>5. PICK len \in Nat : len = Len(b)
    BY LenProperties
  <2>6. PICK all \in Seq(Nat), n \in Nat : all = Bytes(m) /\ n = Len(all) /\ n <= len
    <3>1. Bytes(m) \in Seq(Nat)
      BY <2>4, BodiesType DEF FittingAll
    <3> QED
      BY <2>4, <2>5, <3>1, LenProperties
  <2>7. ~ (len < Len(Bytes(m)))
    BY <2>6
  <2>8. Encode(kind, m, len)
          = IF \/ len < Len(Bytes(m))
               \/ kind = "RequestFirmwareDataResponse" /\ Len(m.rest) > MAX_TRANSFER_SIZE
            THEN Fail("BufferTooShort")
            ELSE [tag |-> "ok", bytes |-> Bytes(m)]
    BY <2>4, EncodeIs
  <2>9. CASE kind = "RequestFirmwareDataResponse" /\ Len(m.rest) > MAX_TRANSFER_SIZE
    BY <2>3, <2>9, <2>m
  <2>10. CASE ~ (kind = "RequestFirmwareDataResponse" /\ Len(m.rest) > MAX_TRANSFER_SIZE)
    <3>1. reencoded = [tag |-> "ok", bytes |-> all]
      BY <2>2, <2>3, <2>m, <2>5, <2>6, <2>7, <2>8, <2>10
    <3>2. PICK new \in Seq(Nat) : new = Rebuilt(kind, b) /\ Len(new) = len
      BY <2>5, RebuiltType
    <3>3. SubSeq(new, 1, n) = Rebuilt(kind, SubSeq(b, 1, n))
      <4>1. CASE kind = "GetPackageDataResponse"
        <5>1. 3 <= n /\ n <= Len(b)
          BY <2>4, <2>5, <2>6, <4>1
        <5> QED
          BY <3>2, <5>1, RebuiltCut
      <4>2. CASE kind # "GetPackageDataResponse"
        BY <3>2, <4>2 DEF Rebuilt
      <4> QED
        BY <4>1, <4>2
    <3>4. all = SubSeq(new, 1, n)
      BY <2>4, <2>6, <3>3
    <3>5. SubSeq(all, 1, n) = all
      BY <2>6, SubSeqFull
    <3>6. IsPrefix(all, new)
      BY <2>6, <3>2, <3>4, <3>5 DEF IsPrefix
    <3> QED
      BY <2>3, <3>1, <3>2, <3>6
  <2> QED
    BY <2>9, <2>10
<1> QED
  BY <1>1, ExchangeHolds, PTL

\* What a constructor builds, if counts and flags are those of the lists and
\* options it was given.
LEMMA MessageBuilt ==
    ASSUME CountsAgree, FlagsAgree, NEW m \in Messages
    PROVE  m.kind \in Kinds /\ Built(m.kind, m.body)
<1>1. PICK kind \in Kinds : kind = m.kind
  BY MessageAssumption
<1>2. PICK body \in Bodies : body = m.body
  BY MessageAssumption
<1>3. /\ AsBuilt(kind, body)
      /\ kind \notin DOMAIN ItemKind => body.items = << >>
      /\ kind \in DOMAIN ItemKind =>
            \A i \in DOMAIN body.items : AsBuilt(ItemKind[kind], body.items[i])
      /\ kind \notin OpenEnded => body.rest = << >>
      /\ kind = "GetPackageDataResponse" => Len(body.rest) <= MAX_PORTION_DATA_SIZE
  BY <1>1, <1>2, MessageAssumption
<1>4. /\ Len(body.items) = ListLen(kind, body.fixed)
      /\ Len(body.items) <= ListRoom(kind)
      /\ kind \in Optional => Len(body.tails[1]) = TailLens(kind, body.fixed)[1]
  BY <1>1, <1>2 DEF CountsAgree, FlagsAgree
<1>5. PICK f \in Seq(Nat), tails \in Seq(Seq(Nat)), items \in Seq(Blocks) :
        f = body.fixed /\ tails = body.tails /\ items = body.items
  BY BodiesType
<1>6. /\ Len(f) = FixedLen[kind] /\ Len(tails) = Len(TailLens(kind, f))
      /\ DOMAIN tails = 1 .. Len(tails) /\ DOMAIN items = 1 .. Len(items)
  BY <1>3, <1>5, LenProperties DEF AsBuilt
<1>7. Fitting(kind, body)
  <2>1. ASSUME NEW i \in 1 .. Len(tails)
        PROVE  Len(tails[i]) = TailLens(kind, f)[i] /\ Len(tails[i]) <= TailRoom(kind)
    <3>1. CASE kind \notin Optional
      BY <1>3, <1>5, <1>6, <3>1 DEF AsBuilt
    <3>2. CASE kind \in Optional
      <4>1. TailLens(kind, f) = <<IF Flagged(kind, f) THEN 4 ELSE 0>>
        BY <3>2, StringKindsAre DEF TailLens, Optional
      <4>2. Len(tails) = 1
        BY <1>6, <4>1
      <4>3. i = 1
        BY <4>2
      <4> QED
        BY <1>3, <1>4, <1>5, <1>6, <3>2, <4>3 DEF AsBuilt
    <3> QED
      BY <3>1, <3>2
  <2> QED
    BY <1>5, <1>6, <2>1 DEF Fitting
<1>8. ASSUME NEW i \in 1 .. Len(items)
      PROVE  Fitting(ItemKind[kind], items[i])
  <2>1. PICK block \in Blocks : block = items[i]
    BY ElementOfSeq
  <2>2. kind \in DOMAIN ItemKind
    <3>1. items # << >>
      BY EmptySeq
    <3> QED
      BY <1>3, <1>5, <3>1
  <2>3. PICK of \in Kinds \ Optional : of = ItemKind[kind]
    BY <2>2, ItemKindType
  <2>4. AsBuilt(of, block)
    BY <1>3, <1>5, <1>6, <2>1, <2>2, <2>3
  <2>5. block.fixed \in Seq(Nat) /\ block.tails \in Seq(Seq(Nat))
    BY BlocksType
  <2>6. DOMAIN block.tails = 1 .. Len(block.tails)
    BY <2>5, LenProperties
  <2>7. Fitting(of, block)
    BY <2>3, <2>4, <2>5, <2>6 DEF AsBuilt, Fitting
  <2> QED
    BY <2>1, <2>3, <2>7
<1>9. FittingAll(kind, body)
  <2>1. ListLen(kind, body.fixed) <= Len(body.items)
    <3>1. Len(items) \in Nat
      BY LenProperties
    <3> QED
      BY <1>4, <1>5, <3>1
  <2>2. body.items # << >> => kind \in DOMAIN ItemKind
    BY <1>3
  <2> QED
    BY <1>5, <1>7, <1>8, <2>1, <2>2 DEF FittingAll
<1> QED
  BY <1>1, <1>2, <1>3, <1>4, <1>9 DEF Built, AsBuilt

\* Whatever arrives, from a peer or cut short, decode does not index outside an
\* array, and encoding the result again does not slice beyond one.
THEOREM DecodeNeverPanics ==
    Spec => [](\A r \in {decoded, reencoded} : r = None \/ r.tag # "panic")
<1> DEFINE Quiet == \A r \in {decoded, reencoded} : r = None \/ r.tag # "panic"
<1>1. ExchangeInv => Quiet
  <2> SUFFICES ASSUME ExchangeInv PROVE Quiet
    OBVIOUS
  <2>1. decoded = None \/ decoded.tag # "panic"
    BY DecodedIs, DecodedTags
  <2>2. ASSUME reencoded # None
        PROVE  reencoded.tag # "panic"
    <3>1. /\ decoded.tag = "ok"
          /\ reencoded = Encode(message.kind, decoded.body, Len(received))
      BY <2>2 DEF ExchangeInv, ReencodedInv
    <3>2. /\ message.kind \in Kinds /\ FittingAll(message.kind, decoded.body)
          /\ Len(received) \in Nat
      BY <2>2, <3>1, DecodedIs, DecodedOk, LenProperties
    <3>3. PICK kind \in Kinds, len \in Nat : kind = message.kind /\ len = Len(received)
      BY <3>2
    <3>4. PICK m : m = decoded.body
      OBVIOUS
    <3>5. FittingAll(kind, m)
      BY <3>2, <3>3, <3>4
    <3>6. Encode(kind, m, len).tag # "panic"
      <4>1. Encode(kind, m, len)
              = IF \/ len < Len(Bytes(m))
                   \/ kind = "RequestFirmwareDataResponse" /\ Len(m.rest) > MAX_TRANSFER_SIZE
                THEN Fail("BufferTooShort")
                ELSE [tag |-> "ok", bytes |-> Bytes(m)]
        BY <3>5, EncodeIs
      <4> QED
        BY <4>1 DEF Fail
    <3> QED
      BY <3>1, <3>3, <3>4, <3>6
  <2> QED
    BY <2>1, <2>2
<1> QED
  BY <1>1, ExchangeHolds, PTL

\* What is on the wire of a message the library built, and how much arrived.
LEMMA SentIs ==
    ASSUME CountsAgree, FlagsAgree, ExchangeInv, ~ from_peer, wire # None
    PROVE  /\ message.kind \in Kinds /\ Built(message.kind, message.body)
           /\ \/ wire = Fail("BufferTooShort")
              \/ wire = [tag |-> "ok", bytes |-> Bytes(message.body)]
<1>1. message \in Messages /\ \E len \in BufferLens : wire = Encode(message.kind, message.body, len)
  BY DEF ExchangeInv, SentInv
<1>m. PICK m : m = message.body
  OBVIOUS
<1>2. PICK kind \in Kinds : kind = message.kind /\ Built(kind, m)
  BY <1>1, <1>m, MessageBuilt
<1>3. PICK len \in Nat : wire = Encode(kind, m, len)
  BY <1>1, <1>2, <1>m, SizeAssumption
<1>4. FittingAll(kind, m)
  BY <1>2 DEF Built
<1>5. Encode(kind, m, len)
        = IF \/ len < Len(Bytes(m))
             \/ kind = "RequestFirmwareDataResponse" /\ Len(m.rest) > MAX_TRANSFER_SIZE
          THEN Fail("BufferTooShort")
          ELSE [tag |-> "ok", bytes |-> Bytes(m)]
  BY <1>4, EncodeIs
<1> QED
  BY <1>2, <1>3, <1>5, <1>m

\* No step of an exchange panics: nothing a peer sends and no cut makes decode,
\* and no buffer makes encode, index outside an array.
THEOREM NoPanicHolds ==
    ASSUME CountsAgree, FlagsAgree
    PROVE  Spec => []NoPanic
<1> DEFINE Quiet == \A r \in {decoded, reencoded} : r = None \/ r.tag # "panic"
<1>1. ExchangeInv /\ Quiet => NoPanic
  <2> SUFFICES ASSUME ExchangeInv, Quiet PROVE NoPanic
    OBVIOUS
  <2>1. wire = None \/ wire.tag # "panic"
    <3>1. CASE from_peer
      BY <3>1 DEF ExchangeInv, SentInv
    <3>2. CASE ~ from_peer
      BY <3>2, SentIs DEF Fail
    <3> QED
      BY <3>1, <3>2
  <2> QED
    BY <2>1 DEF NoPanic
<1>2. Spec => []Quiet
  BY DecodeNeverPanics
<1> QED
  BY <1>1, <1>2, ExchangeHolds, PTL

\* What decode made of what arrived of such a message.
LEMMA ArrivedIs ==
    ASSUME CountsAgree, FlagsAgree, ExchangeInv, ~ from_peer, received # None
    PROVE  \E n \in 0 .. Len(Bytes(message.body)) :
              /\ wire.bytes = Bytes(message.body)
              /\ received = SubSeq(Bytes(message.body), 1, n) /\ Len(received) = n
              /\ decoded = Decode(message.kind, received)
<1>1. wire # None /\ wire.tag = "ok" /\ decoded = Decode(message.kind, received)
  BY DEF ExchangeInv, ReceivedInv
<1>2. PICK w \in Seq(Nat) : w = wire.bytes /\ w = Bytes(message.body)
  BY <1>1, WireType DEF ExchangeInv
<1>3. PICK n \in 0 .. Len(w) : received = SubSeq(w, 1, n)
  BY <1>2 DEF ExchangeInv, ReceivedInv
<1>4. Len(received) = n
  <2>1. \A i \in 1 .. n : w[i] \in Nat
    BY ElementOfSeq, LenProperties
  <2>2. 1 \in Int /\ n \in Int
    OBVIOUS
  <2>3. Len(SubSeq(w, 1, n)) = IF 1 <= n THEN n - 1 + 1 ELSE 0
    BY <2>1, <2>2, SubSeqProperties
  <2> QED
    BY <1>3, <2>3
<1> QED
  BY <1>1, <1>2, <1>3, <1>4

\* A message that arrived whole decodes to itself, whatever its strings, items
\* and options, and however large the buffer it was encoded into.
THEOREM RoundTripHolds ==
    ASSUME CountsAgree, FlagsAgree
    PROVE  Spec => []RoundTrip
<1>1. ExchangeInv => RoundTrip
  <2>1. SUFFICES ASSUME ExchangeInv, ~ from_peer, received # None, received = wire.bytes
                 PROVE  decoded = [tag |-> "ok", body |-> message.body]
    BY DEF RoundTrip
  <2>2. PICK n \in 0 .. Len(Bytes(message.body)) :
          /\ wire.bytes = Bytes(message.body)
          /\ received = SubSeq(Bytes(message.body), 1, n) /\ Len(received) = n
          /\ decoded = Decode(message.kind, received)
    BY <2>1, ArrivedIs
  <2>3. PICK m \in Bodies : m = message.body
    BY <2>1, MessageType DEF ExchangeInv
  <2>4. PICK kind \in Kinds : kind = message.kind /\ Built(kind, m)
    <3>1. wire # None
      BY <2>1 DEF ExchangeInv, ReceivedInv
    <3> QED
      BY <2>1, <2>3, <3>1, SentIs
  <2>5. PICK b : b = received
    OBVIOUS
  <2>6. PICK to \in Nat, more \in Nat, rest \in Seq(Nat) :
          /\ to = Len(BeforeRest(m)) /\ rest = m.rest /\ more = Len(rest)
          /\ Len(Bytes(m)) = to + more
    BY BodiesType, LenProperties
  <2>7. n \in 0 .. Len(Bytes(m)) /\ b = SubSeq(Bytes(m), 1, n)
    BY <2>2, <2>3, <2>5
  <2>8. n = to + more
    BY <2>1, <2>2, <2>3, <2>6
  <2>9. Decode(kind, b)
          = IF n < Len(BeforeRest(m)) THEN Fail("BufferTooShort")
            ELSE [tag |-> "ok",
                  body |-> Body(m.fixed, m.tails, m.items,
                                SubSeq(m.rest, 1, n - Len(BeforeRest(m))))]
    BY <2>4, <2>7, DecodeHere
  <2>10. ~ (n < Len(BeforeRest(m))) /\ n - Len(BeforeRest(m)) = Len(rest)
    BY <2>6, <2>8
  <2>11. SubSeq(m.rest, 1, n - Len(BeforeRest(m))) = m.rest
    BY <2>6, <2>10, SubSeqFull
  <2>12. Body(m.fixed, m.tails, m.items, m.rest) = m
    BY BodiesType
  <2> QED
    BY <2>2, <2>3, <2>4, <2>5, <2>9, <2>10, <2>11, <2>12
<1> QED
  BY <1>1, ExchangeHolds, PTL

\* A message that was cut is reported as too short, wherever it was cut; only of
\* a payload that has no length a part may be taken, and then the blocks are whole.
THEOREM CutHolds ==
    ASSUME CountsAgree, FlagsAgree
    PROVE  Spec => []CutIsNoticed
<1>1. ExchangeInv => CutIsNoticed
  <2>1. SUFFICES ASSUME ExchangeInv, ~ from_peer, received # None,
                        Len(received) < Len(wire.bytes)
                 PROVE  \/ decoded.tag = "BufferTooShort"
                        \/ /\ message.kind \in OpenEnded /\ decoded.tag = "ok"
                           /\ decoded.body.fixed = message.body.fixed
                           /\ IsStrictPrefix(decoded.body.rest, message.body.rest)
    BY DEF CutIsNoticed
  <2>2. PICK n \in 0 .. Len(Bytes(message.body)) :
          /\ wire.bytes = Bytes(message.body)
          /\ received = SubSeq(Bytes(message.body), 1, n) /\ Len(received) = n
          /\ decoded = Decode(message.kind, received)
    BY <2>1, ArrivedIs
  <2>3. PICK m \in Bodies : m = message.body
    BY <2>1, MessageType DEF ExchangeInv
  <2>4. PICK kind \in Kinds : kind = message.kind /\ Built(kind, m)
    <3>1. wire # None
      BY <2>1 DEF ExchangeInv, ReceivedInv
    <3> QED
      BY <2>1, <2>3, <3>1, SentIs
  <2>5. PICK b : b = received
    OBVIOUS
  <2>6. PICK to \in Nat, more \in Nat, rest \in Seq(Nat) :
          /\ to = Len(BeforeRest(m)) /\ rest = m.rest /\ more = Len(rest)
          /\ Len(Bytes(m)) = to + more
    BY BodiesType, LenProperties
  <2>7. n \in 0 .. Len(Bytes(m)) /\ b = SubSeq(Bytes(m), 1, n)
    BY <2>2, <2>3, <2>5
  <2>8. n \in Nat /\ n < to + more
    <3>1. n \in 0 .. to + more
      BY <2>6, <2>7
    <3>2. Len(received) < Len(Bytes(m))
      BY <2>1, <2>2, <2>3
    <3>3. n < to + more
      BY <2>2, <2>6, <3>2
    <3> QED
      BY <3>1, <3>3
  <2>9. Decode(kind, b)
          = IF n < Len(BeforeRest(m)) THEN Fail("BufferTooShort")
            ELSE [tag |-> "ok",
                  body |-> Body(m.fixed, m.tails, m.items,
                                SubSeq(m.rest, 1, n - Len(BeforeRest(m))))]
    BY <2>4, <2>7, DecodeHere
  <2>10. decoded = Decode(kind, b)
    BY <2>2, <2>4, <2>5
  <2>11. CASE n < to
    BY <2>6, <2>9, <2>10, <2>11 DEF Fail
  <2>12. CASE ~ (n < to)
    <3>1. PICK k \in Nat : k = n - to /\ k < more
      BY <2>8, <2>12
    <3>2. PICK part \in Seq(Nat) : part = SubSeq(rest, 1, k) /\ Len(part) = k
      <4>1. \A i \in 1 .. k : rest[i] \in Nat
        BY <2>6, <3>1, ElementOfSeq
      <4>2. 1 \in Int /\ k \in Int
        OBVIOUS
      <4>3. /\ SubSeq(rest, 1, k) \in Seq(Nat)
            /\ Len(SubSeq(rest, 1, k)) = IF 1 <= k THEN k - 1 + 1 ELSE 0
        BY <4>1, <4>2, SubSeqProperties
      <4>4. Len(SubSeq(rest, 1, k)) = k
        BY <4>3
      <4> QED
        BY <4>3, <4>4
    <3>3. decoded = [tag |-> "ok", body |-> Body(m.fixed, m.tails, m.items, part)]
      BY <2>6, <2>9, <2>10, <2>12, <3>1, <3>2
    <3>4. decoded.tag = "ok" /\ decoded.body.fixed = m.fixed /\ decoded.body.rest = part
      BY <3>3 DEF Body
    <3>5. kind \in OpenEnded
      <4>1. SUFFICES ASSUME kind \notin OpenEnded PROVE more = 0
        BY <3>1
      <4>2. rest = << >>
        BY <2>4, <2>6, <4>1 DEF Built
      <4> QED
        BY <2>6, <4>2, EmptySeq
    <3>6. IsStrictPrefix(part, rest)
      <4>1. SubSeq(part, 1, Len(part)) = part
        BY SubSeqFull
      <4>2. IsPrefix(part, rest)
        BY <2>6, <3>1, <3>2, <4>1 DEF IsPrefix
      <4>3. part # rest
        BY <2>6, <3>1, <3>2
      <4> QED
        BY <4>2, <4>3 DEF IsStrictPrefix
    <3> QED
      BY <2>3, <2>4, <2>6, <3>4, <3>5, <3>6
  <2> QED
    BY <2>11, <2>12
<1> QED
  BY <1>1, ExchangeHolds, PTL
=============================================================================
