------------------------------- MODULE Codecs -------------------------------
(* The hand-written codecs: messages whose length depends on their content, *)
(* but for DownstreamDevice, whose decode is a step of DownstreamPortion.   *)
(* All of them have one shape.  A block of fixed size holds the lengths of  *)
(* the byte strings that follow it; some messages go on with a counted list *)
(* of such blocks, some end in a payload that is the rest of the buffer.    *)
(* A sender encodes into a buffer, which may be too small; what arrives may *)
(* be cut short, or come from a peer with other limits than this library;   *)
(* the receiver decodes it and, if that succeeds, can encode it again.      *)
(*                                                                          *)
(* Bytes that are neither lengths nor flags are any bytes the conversions   *)
(* of codes and headers accept.  A panic ends the exchange.                 *)
EXTENDS Integers, Sequences, SequencesExt

CONSTANTS
    Messages,       \* what the constructors of the library build
    PeerMessages,   \* what a peer with other limits may send
    BufferLens,     \* lengths of the buffer to encode into
    PLDM_FWUP_IMAGE_SET_VER_STR_MAX_LEN,
    DESCRIPTOR_DATA_MAX_LEN,
    MAX_COMPONENT_COUNT,
    ADDITIONAL_DESCRIPTORS_MAX_COUNT,
    MAX_PORTION_DATA_SIZE,
    MAX_TRANSFER_SIZE,
    None

\* size_of the fixed block, PLDM header included where there is one.
FixedLen ==
    [PldmFirmwareString |-> 2, RequestUpdateRequest |-> 14,
     PassComponentTableRequest |-> 15, UpdateComponentRequest |-> 22,
     RequestUpdateResponse |-> 7, UpdateComponentResponse |-> 12,
     GetFirmwareParametersResponse |-> 14, ComponentParameterEntry |-> 39,
     QueryDeviceIdentifiersResponse |-> 9, Descriptor |-> 4,
     GetDownstreamFirmwareParametersResponse |-> 51,
     RequestFirmwareDataResponse |-> 4, GetPackageDataResponse |-> 9,
     GetDeviceMetaDataResponse |-> 9, GetMetaDataResponse |-> 9,
     QueryDownstreamIdentifiersResponse |-> 9]

Kinds    == DOMAIN FixedLen
Optional == {"RequestUpdateResponse", "UpdateComponentResponse"}
OpenEnded ==
    {"RequestFirmwareDataResponse", "GetPackageDataResponse",
     "GetDeviceMetaDataResponse", "GetMetaDataResponse",
     "QueryDownstreamIdentifiersResponse"}

\* Offsets in the fixed block of the lengths of the version strings.
StringLenAt ==
    [PldmFirmwareString |-> <<1>>, RequestUpdateRequest |-> <<13>>,
     PassComponentTableRequest |-> <<14>>, UpdateComponentRequest |-> <<21>>,
     GetFirmwareParametersResponse |-> <<11, 13>>,
     ComponentParameterEntry |-> <<10, 24>>,
     GetDownstreamFirmwareParametersResponse |-> <<22, 36>>]

ItemKind ==
    [GetFirmwareParametersResponse |-> "ComponentParameterEntry",
     QueryDeviceIdentifiersResponse |-> "Descriptor"]

\* The lists of bytes a message is built from.
Block(fixed, tails) == [fixed |-> fixed, tails |-> tails]
Body(fixed, tails, items, rest) ==
    [fixed |-> fixed, tails |-> tails, items |-> items, rest |-> rest]

VARIABLES
    message,    \* [kind, body] to send; of a peer's, only the kind is known
    from_peer,  \* whether a peer sends it
    wire,       \* what encode returned
    received,   \* the bytes that arrived
    decoded,    \* what decode returned
    reencoded   \* what encode returned for it

vars == <<message, from_peer, wire, received, decoded, reencoded>>

-----------------------------------------------------------------------------
(* Lengths, as they stand in a fixed block.                                 *)

Byte(f, at) == f[at + 1]
U16(f, at)  == Byte(f, at) + 256 * Byte(f, at + 1)

\* UpdateOptionFlags.component_opaque_data, FDWillSendGetPackageDataCommand.
Flagged(kind, f) ==
    IF kind = "RequestUpdateResponse" THEN Byte(f, 6) = 2
                                      ELSE (Byte(f, 6) \div 2) % 2 = 1

TailLens(kind, f) ==
    CASE kind \in DOMAIN StringLenAt ->
            [i \in DOMAIN StringLenAt[kind] |-> Byte(f, StringLenAt[kind][i])]
      [] kind = "Descriptor" -> <<U16(f, 2)>>
      [] kind \in Optional   -> <<IF Flagged(kind, f) THEN 4 ELSE 0>>
      [] OTHER               -> <<>>

\* The array a tail is copied into.
TailRoom(kind) ==
    CASE kind = "Descriptor" -> DESCRIPTOR_DATA_MAX_LEN
      [] kind \in Optional   -> 4
      [] OTHER               -> PLDM_FWUP_IMAGE_SET_VER_STR_MAX_LEN

\* The items a block announces, of which descriptors have at least one, and
\* the array they are kept in.
ListLen(kind, f) ==
    CASE kind = "GetFirmwareParametersResponse"  -> U16(f, 8)
      [] kind = "QueryDeviceIdentifiersResponse" -> IF Byte(f, 8) = 0 THEN 1 ELSE Byte(f, 8)
      [] OTHER -> 0
ListRoom(kind) ==
    CASE kind = "GetFirmwareParametersResponse"  -> MAX_COMPONENT_COUNT
      [] kind = "QueryDeviceIdentifiersResponse" -> 1 + ADDITIONAL_DESCRIPTORS_MAX_COUNT
      [] OTHER -> 0

Taken_All(kind, f) == ListLen(kind, f)   \* mutant: as many as announced

\* Iterator::take over the array.
Taken(kind, f) == IF ListLen(kind, f) < ListRoom(kind) THEN ListLen(kind, f) ELSE ListRoom(kind)

\* Where each part ends that follows others of these lengths.
Ends(lens) ==
    LET end[i \in 0 .. Len(lens)] == IF i = 0 THEN 0 ELSE end[i - 1] + lens[i]
    IN  end
Total(lens) == Ends(lens)[Len(lens)]

-----------------------------------------------------------------------------
(* encode                                                                   *)

Fail(e) == [tag |-> e]

\* codec_size_in_bytes: by the lengths in the block, except the option of
\* UpdateComponentResponse.
BlockSize(kind, b) ==
    FixedLen[kind]
        + IF kind = "UpdateComponentResponse" THEN Len(b.tails[1])
                                              ELSE Total(TailLens(kind, b.fixed))

codec_size_in_bytes(kind, m) ==
    BlockSize(kind, m) + Len(m.rest)
        + Total([i \in DOMAIN m.items |-> BlockSize(ItemKind[kind], m.items[i])])

BlockBytes(b) == b.fixed \o FlattenSeq(b.tails)
Bytes(m) ==
    BlockBytes(m) \o FlattenSeq([i \in DOMAIN m.items |-> BlockBytes(m.items[i])])
                  \o m.rest

\* A block whose lengths are not those of the arrays it came with cannot be
\* sliced.
Sliceable(kind, b) ==
    kind \in Optional
    \/ \A i \in DOMAIN b.tails : TailLens(kind, b.fixed)[i] <= TailRoom(kind)

Encode(kind, m, len) ==
    IF \/ ~ Sliceable(kind, m)
       \/ kind = "GetFirmwareParametersResponse" /\ ListLen(kind, m.fixed) > Len(m.items)
       \/ \E i \in DOMAIN m.items : ~ Sliceable(ItemKind[kind], m.items[i])
    THEN Fail("panic")
    ELSE IF \/ len < codec_size_in_bytes(kind, m)
            \/ kind = "RequestFirmwareDataResponse" /\ Len(m.rest) > MAX_TRANSFER_SIZE
    THEN Fail("BufferTooShort")
    ELSE IF len < Len(Bytes(m)) THEN Fail("panic")
    ELSE [tag |-> "ok", bytes |-> Bytes(m)]

-----------------------------------------------------------------------------
(* decode                                                                   *)

\* What has been read of a message, and up to where.
Read(f, tails, items, at) ==
    [tag |-> "ok", fixed |-> f, tails |-> tails, items |-> items, at |-> at]

Fits(b, at, n) == at + n <= Len(b)
TailInRoom_Any(kind, n) == TRUE   \* mutant: no length is refused
TailInRoom(kind, n) == n <= TailRoom(kind)
CountInRoom_Any(kind, f) == TRUE   \* mutant: too long a list is cut, not refused
CountInRoom(kind, f) ==
    kind = "GetFirmwareParametersResponse" => ListLen(kind, f) <= ListRoom(kind)

\* The table of a downstream device is read by index after a check that
\* forgets its two types and two lengths; the last fields check again.
MinSize(kind) ==
    FixedLen[kind] - IF kind = "GetDownstreamFirmwareParametersResponse" THEN 4 ELSE 0
IndexedSize(kind) ==
    FixedLen[kind] - IF kind = "GetDownstreamFirmwareParametersResponse" THEN 6 ELSE 0

\* Mutant: the offset stays where the last string began.
DecodeTail_NoAdvance(kind, b, r, n) ==
    IF r.tag # "ok" THEN r
    ELSE IF ~ TailInRoom(kind, n) THEN Fail("InvalidData")
    ELSE IF ~ Fits(b, r.at, n) THEN Fail("BufferTooShort")
    ELSE [r EXCEPT !.tails = Append(@, SubSeq(b, r.at + 1, r.at + n))]

\* Mutant: what there is of a string is taken.
DecodeTail_Clipped(kind, b, r, n) ==
    LET end == IF Fits(b, r.at, n) THEN r.at + n ELSE Len(b) IN
    IF r.tag # "ok" THEN r
    ELSE IF ~ TailInRoom(kind, n) THEN Fail("InvalidData")
    ELSE [r EXCEPT !.tails = Append(@, SubSeq(b, r.at + 1, end)), !.at = end]

DecodeTail(kind, b, r, n) ==
    IF r.tag # "ok" THEN r
    ELSE IF ~ TailInRoom(kind, n) THEN Fail("InvalidData")
    ELSE IF ~ Fits(b, r.at, n) THEN Fail("BufferTooShort")
    ELSE IF n > TailRoom(kind) THEN Fail("panic")
    ELSE Read(r.fixed, Append(r.tails, SubSeq(b, r.at + 1, r.at + n)), r.items, r.at + n)

DecodeTails(kind, b, at, f, lens) ==
    LET r[i \in 0 .. Len(lens)] ==
            IF i = 0 THEN Read(f, <<>>, <<>>, at)
                     ELSE DecodeTail(kind, b, r[i - 1], lens[i])
    IN  r[Len(lens)]

DecodeBlock(kind, b, at) ==
    LET f == SubSeq(b, at + 1, at + FixedLen[kind]) IN
    IF ~ Fits(b, at, MinSize(kind)) THEN Fail("BufferTooShort")
    ELSE IF ~ Fits(b, at, IndexedSize(kind)) THEN Fail("panic")
    ELSE IF ~ Fits(b, at, FixedLen[kind]) THEN Fail("BufferTooShort")
    ELSE DecodeTails(kind, b, at + FixedLen[kind], f, TailLens(kind, f))

DecodeItem(kind, b, r) ==
    IF r.tag # "ok" THEN r
    ELSE LET item == DecodeBlock(ItemKind[kind], b, r.at) IN
         IF item.tag # "ok" THEN Fail(item.tag)
         ELSE Read(r.fixed, r.tails, Append(r.items, Block(item.fixed, item.tails)), item.at)

DecodeItems(kind, b, block, count) ==
    LET r[i \in 0 .. count] == IF i = 0 THEN block ELSE DecodeItem(kind, b, r[i - 1])
    IN  r[count]

\* GetPackageDataResponse::decode makes a new message of what it read: of the
\* header it keeps the instance ID; the rest is that of a FwUpdate response to
\* GetPackageData.  The other decoders keep the bytes of the header.
Rebuilt(kind, f) ==
    IF kind = "GetPackageDataResponse"
    THEN [f EXCEPT ![1] = @ % 32, ![2] = 5, ![3] = 17]
    ELSE f

Decode(kind, b) ==
    LET block == DecodeBlock(kind, b, 0)
        items == DecodeItems(kind, b, block, Taken(kind, block.fixed))
        rest  == SubSeq(b, block.at + 1, Len(b))
        Ok(r, payload) ==
            [tag |-> "ok", body |-> Body(Rebuilt(kind, r.fixed), r.tails, r.items, payload)]
    IN  IF block.tag # "ok" THEN block
        ELSE IF ~ CountInRoom(kind, block.fixed) THEN Fail("InvalidData")
        ELSE IF kind = "GetPackageDataResponse" /\ Len(rest) > MAX_PORTION_DATA_SIZE
             THEN Fail("BufferTooShort")
        ELSE IF items.tag # "ok" THEN items
        ELSE Ok(items, IF kind \in OpenEnded THEN rest ELSE <<>>)

-----------------------------------------------------------------------------
(* What the constructors build.                                             *)

\* Every string, option and descriptor data is in its array and as long as the
\* block says; an option is there or not; the header is the one of new.
AsBuilt(kind, b) ==
    /\ Len(b.fixed) = FixedLen[kind] /\ b.fixed = Rebuilt(kind, b.fixed)
    /\ Len(b.tails) = Len(TailLens(kind, b.fixed))
    /\ \A i \in DOMAIN b.tails :
          /\ Len(b.tails[i]) <= TailRoom(kind)
          /\ IF kind \in Optional THEN Len(b.tails[i]) \in {0, 4}
                                  ELSE Len(b.tails[i]) = TailLens(kind, b.fixed)[i]

Blocks == [fixed : Seq(Nat), tails : Seq(Seq(Nat))]
Bodies == [fixed : Seq(Nat), tails : Seq(Seq(Nat)), items : Seq(Blocks), rest : Seq(Nat)]

ASSUME MessageAssumption ==
    \A m \in Messages :
        /\ m.kind \in Kinds /\ m.body \in Bodies /\ AsBuilt(m.kind, m.body)
        /\ m.kind \notin DOMAIN ItemKind => m.body.items = <<>>
        /\ m.kind \in DOMAIN ItemKind =>
              \A i \in DOMAIN m.body.items : AsBuilt(ItemKind[m.kind], m.body.items[i])
        /\ m.kind \notin OpenEnded => m.body.rest = <<>>
        /\ m.kind = "GetPackageDataResponse" => Len(m.body.rest) <= MAX_PORTION_DATA_SIZE

\* Of a peer, only the bytes it sends are known.
ASSUME PeerAssumption == \A m \in PeerMessages : m.kind \in Kinds /\ m.body \in Bodies

ASSUME SizeAssumption ==
    /\ {PLDM_FWUP_IMAGE_SET_VER_STR_MAX_LEN, DESCRIPTOR_DATA_MAX_LEN, MAX_COMPONENT_COUNT,
        ADDITIONAL_DESCRIPTORS_MAX_COUNT, MAX_PORTION_DATA_SIZE, MAX_TRANSFER_SIZE} \subseteq Nat
    /\ BufferLens \subseteq Nat

ASSUME NoneAssumption == None \notin Seq(Nat)

\* The list of a message has as many items as its block says: FirmwareParameters::new
\* takes the count and the table apart.
CountsAgree ==
    \A m \in Messages :
        /\ Len(m.body.items) = ListLen(m.kind, m.body.fixed)
        /\ Len(m.body.items) <= ListRoom(m.kind)

\* An option is there if the flag says so: the two responses take flag and option apart.
FlagsAgree ==
    \A m \in Messages : m.kind \in Optional =>
        Len(m.body.tails[1]) = TailLens(m.kind, m.body.fixed)[1]

-----------------------------------------------------------------------------
(* The exchange.                                                            *)

Init ==
    /\ \/ from_peer = FALSE /\ message \in Messages
       \/ from_peer = TRUE  /\ message \in PeerMessages
    /\ wire = None /\ received = None /\ decoded = None /\ reencoded = None

Send ==
    /\ wire = None
    /\ IF from_peer
       THEN wire' = [tag |-> "ok", bytes |-> Bytes(message.body)]
       ELSE \E len \in BufferLens : wire' = Encode(message.kind, message.body, len)
    /\ UNCHANGED <<message, from_peer, received, decoded, reencoded>>

\* All of it arrives, or the transport cuts it short.
Receive ==
    /\ wire # None /\ wire.tag = "ok" /\ received = None
    /\ \E n \in 0 .. Len(wire.bytes) : received' = SubSeq(wire.bytes, 1, n)
    /\ decoded' = Decode(message.kind, received')
    /\ UNCHANGED <<message, from_peer, wire, reencoded>>

Reencode ==
    /\ decoded # None /\ decoded.tag = "ok" /\ reencoded = None
    /\ reencoded' = Encode(message.kind, decoded.body, Len(received))
    /\ UNCHANGED <<message, from_peer, wire, received, decoded>>

Next == Send \/ Receive \/ Reencode
Spec == Init /\ [][Next]_vars

-----------------------------------------------------------------------------
(* Properties.                                                              *)

\* The result of each step has its type: PldmCodecError, or a value whose
\* strings, descriptor data and lists are in their arrays.
InArrays(kind, b) == \A i \in DOMAIN b.tails : Len(b.tails[i]) <= TailRoom(kind)
TypeOK ==
    /\ from_peer \in BOOLEAN /\ message.kind \in Kinds
    /\ wire = None \/ wire.tag \in {"ok", "BufferTooShort", "panic"}
    /\ reencoded = None \/ reencoded.tag \in {"ok", "BufferTooShort", "panic"}
    /\ decoded = None \/ decoded.tag \in {"ok", "BufferTooShort", "InvalidData", "panic"}
    /\ (decoded # None /\ decoded.tag = "ok") =>
        /\ InArrays(message.kind, decoded.body)
        /\ Len(decoded.body.items) <= ListRoom(message.kind)
        /\ \A i \in DOMAIN decoded.body.items :
                InArrays(ItemKind[message.kind], decoded.body.items[i])

\* A message that was encoded and arrived whole decodes to itself: the round
\* trip the codec tests of each message assert, for every combination of
\* string lengths, list lengths and options the constructors accept.
RoundTrip ==
    (/\ ~ from_peer /\ received # None /\ received = wire.bytes)
    => decoded = [tag |-> "ok", body |-> message.body]

\* A message that was cut short is never taken for another one: decode says
\* that the buffer is too short, unless the message ends in a payload of any
\* length, of which a part is then missing.
CutIsNoticed ==
    (/\ ~ from_peer /\ received # None /\ Len(received) < Len(wire.bytes))
    => \/ decoded.tag = "BufferTooShort"
       \/ /\ message.kind \in OpenEnded /\ decoded.tag = "ok"
          /\ decoded.body.fixed = message.body.fixed
          /\ IsStrictPrefix(decoded.body.rest, message.body.rest)

\* Nothing a peer sends, and no buffer, however short, makes encode or decode
\* index outside an array: tests/decode_no_panic.rs demands it of decode.
NoPanic ==
    \A r \in {wire, decoded, reencoded} : r = None \/ r.tag # "panic"

\* What was decoded can be encoded again into a buffer of the size it came
\* from, and gives the bytes it was decoded from, whose header a
\* GetPackageDataResponse has changed into its own: no length or count is
\* accepted that the arrays do not hold (tests/ver_str_bounds.rs, site 11).
\* Only image data is accepted in portions that would not be encoded: a
\* device never sends it.
ReencodesToInput ==
    reencoded # None =>
        \/ /\ reencoded.tag = "ok"
           /\ IsPrefix(reencoded.bytes, Rebuilt(message.kind, received))
        \/ /\ message.kind = "RequestFirmwareDataResponse"
           /\ Len(decoded.body.rest) > MAX_TRANSFER_SIZE

=============================================================================
