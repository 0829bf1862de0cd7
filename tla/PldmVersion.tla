----------------------------- MODULE PldmVersion -----------------------------
(* The version of a PLDM protocol (protocol/version.rs): what the text of a *)
(* version stands for, and its four bytes on the wire, of which three are   *)
(* BCD with a convention for a single digit and one for an absent field.    *)
(*                                                                          *)
(* A part of the text, between two dots, is the number that its digits      *)
(* write, if they are digits, and the letter behind them, 0 if there is     *)
(* none.  Letters are bytes of ISO 8859-1.                                  *)
EXTENDS Integers, Sequences

Part(number, letter) == [number |-> number, letter |-> letter]

NotANumber == -1
Byte       == 0 .. 255
Absent     == 255

\* No update, and the text "FF", which says the same.
NoUpdate == Part(NotANumber, 70)

\* PldmVersion, and its Ver32 from the most significant byte down.
Versions == [major : Byte, minor : Byte, update : Byte, alpha : Byte]

InvalidProtocolVersion == [error |-> "InvalidProtocolVersion"]

\* PldmVersion::try_from.  The letter of the minor number counts if the update
\* has none.
try_from(text) ==
    LET update == IF Len(text) = 3 THEN text[3] ELSE NoUpdate
    IN  IF \/ Len(text) \notin {2, 3}
           \/ text[1].number \notin Byte \/ text[1].letter # 0
           \/ text[2].number \notin Byte
           \/ update # NoUpdate /\ update.number \notin Byte
        THEN InvalidProtocolVersion
        ELSE [major  |-> text[1].number,
              minor  |-> text[2].number,
              update |-> IF update = NoUpdate THEN Absent ELSE update.number,
              alpha  |-> IF update # NoUpdate /\ update.letter # 0
                         THEN update.letter ELSE text[2].letter]

\* A digit below the nibble 0xF, or two digits; of more than two the upper
\* nibble loses its high bits.
Bcd(n) == IF n < 10 THEN 240 + n ELSE 16 * ((n \div 10) % 16) + (n % 10)

FromBcd(b) == IF b \div 16 = 15 THEN b % 16 ELSE 10 * (b \div 16) + (b % 16)

bcd_encode_to_ver32(v) ==
    [major  |-> Bcd(v.major),
     minor  |-> Bcd(v.minor),
     update |-> IF v.update = Absent THEN Absent ELSE Bcd(v.update),
     alpha  |-> v.alpha]

bcd_decode_from_ver32(w) ==
    [major  |-> FromBcd(w.major),
     minor  |-> FromBcd(w.minor),
     update |-> IF w.update = Absent THEN Absent ELSE FromBcd(w.update),
     alpha  |-> w.alpha]
=============================================================================
