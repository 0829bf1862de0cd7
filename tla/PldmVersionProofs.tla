------------------------- MODULE PldmVersionProofs -------------------------
(* The wire form of a version loses nothing, as long as no number has three *)
(* digits.                                                                  *)
EXTENDS PldmVersion, TLAPS

\* Numbers of one or two digits.
TwoDigits == 0 .. 99

\* The versions that BCD can hold.
Encodable ==
    [major : TwoDigits, minor : TwoDigits, update : TwoDigits \cup {Absent}, alpha : Byte]

\* A number of two digits: its tens fit a nibble other than 0xF.
LEMMA Tens ==
    ASSUME NEW n \in TwoDigits, n >= 10
    PROVE  /\ n \div 10 \in 1 .. 9 /\ n % 10 \in 0 .. 9
           /\ (n \div 10) % 16 = n \div 10
           /\ 10 * (n \div 10) + (n % 10) = n
<1>1. n \in Nat /\ n \in 10 .. 99
  BY DEF TwoDigits
<1>2. n \div 10 \in 1 .. 9 /\ n % 10 \in 0 .. 9
  BY <1>1
<1>3. \A h \in 1 .. 9 : h % 16 = h
  OBVIOUS
<1>4. 10 * (n \div 10) + (n % 10) = n
  BY <1>1
<1> QED
  BY <1>2, <1>3, <1>4

\* A byte of two nibbles gives them back.
LEMMA Nibbles ==
    ASSUME NEW h \in 0 .. 15, NEW l \in 0 .. 15
    PROVE  /\ (16 * h + l) \div 16 = h /\ (16 * h + l) % 16 = l
           /\ 16 * h + l \in Byte
BY DEF Byte

\* One number comes back as it was.
LEMMA BcdRoundTrip ==
    ASSUME NEW n \in TwoDigits
    PROVE  FromBcd(Bcd(n)) = n
<1>1. CASE n < 10
  <2>1. n \in 0 .. 15 /\ 15 \in 0 .. 15
    BY <1>1 DEF TwoDigits
  <2>2. Bcd(n) = 16 * 15 + n
    BY <1>1, <2>1 DEF Bcd
  <2>3. (16 * 15 + n) \div 16 = 15 /\ (16 * 15 + n) % 16 = n
    BY <2>1, Nibbles
  <2> QED
    BY <2>2, <2>3 DEF FromBcd
<1>2. CASE n >= 10
  <2> DEFINE h == n \div 10
             l == n % 10
  <2>1. h \in 1 .. 9 /\ l \in 0 .. 9 /\ h % 16 = h /\ 10 * h + l = n
    BY <1>2, Tens
  <2>2. Bcd(n) = 16 * (h % 16) + l
    BY <1>2 DEF Bcd, TwoDigits
  <2> HIDE DEF h, l
  <2>3. h \in 0 .. 15 /\ l \in 0 .. 15 /\ h # 15
    BY <2>1
  <2>4. (16 * h + l) \div 16 = h /\ (16 * h + l) % 16 = l
    BY <2>3, Nibbles
  <2>5. FromBcd(16 * h + l) = 10 * h + l
    BY <2>3, <2>4 DEF FromBcd
  <2> QED
    BY <2>1, <2>2, <2>5
<1> QED
  BY <1>1, <1>2 DEF TwoDigits

\* No number, of however many digits, is written as the byte that says that a
\* field is absent: 0xFF "is not allowed as a value for the major or minor
\* fields", and an update is never lost.
THEOREM NumberIsNotAbsent ==
    ASSUME NEW n \in Byte
    PROVE  Bcd(n) # Absent
<1>1. CASE n < 10
  BY <1>1 DEF Bcd, Byte, Absent
<1>2. CASE n >= 10
  <2>1. n % 10 \in 0 .. 9 /\ (n \div 10) % 16 \in 0 .. 15
    BY <1>2 DEF Byte
  <2> QED
    BY <1>2, <2>1 DEF Bcd, Byte, Absent
<1> QED
  BY <1>1, <1>2 DEF Byte

\* What GetPldmVersion puts on the wire decodes to the version of the table,
\* with its absent update, its single digits and its letter.
THEOREM VersionRoundTrip ==
    ASSUME NEW v \in Encodable
    PROVE  bcd_decode_from_ver32(bcd_encode_to_ver32(v)) = v
<1>1. /\ v.major \in TwoDigits /\ v.minor \in TwoDigits
      /\ v.update \in TwoDigits \cup {Absent}
      /\ v = [major |-> v.major, minor |-> v.minor, update |-> v.update, alpha |-> v.alpha]
  BY DEF Encodable
<1>2. FromBcd(Bcd(v.major)) = v.major /\ FromBcd(Bcd(v.minor)) = v.minor
  BY <1>1, BcdRoundTrip
<1>3. CASE v.update = Absent
  BY <1>1, <1>2, <1>3 DEF bcd_decode_from_ver32, bcd_encode_to_ver32
<1>4. CASE v.update \in TwoDigits
  <2>1. FromBcd(Bcd(v.update)) = v.update
    BY <1>4, BcdRoundTrip
  <2>2. v.update # Absent /\ Bcd(v.update) # Absent
    BY <1>4, NumberIsNotAbsent DEF TwoDigits, Byte, Absent
  <2> QED
    BY <1>1, <1>2, <2>1, <2>2 DEF bcd_decode_from_ver32, bcd_encode_to_ver32
<1> QED
  BY <1>1, <1>3, <1>4

\* Two entries of a capability table have the same version on the wire only if
\* they have the same version: the comparison of Ver32 that GetPldmCommands
\* makes (control_context.rs) confuses no two of them.
THEOREM VersionsStayDistinct ==
    ASSUME NEW v \in Encodable, NEW w \in Encodable,
           bcd_encode_to_ver32(v) = bcd_encode_to_ver32(w)
    PROVE  v = w
BY VersionRoundTrip
=============================================================================
