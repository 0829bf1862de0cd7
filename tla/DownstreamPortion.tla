-------------------------- MODULE DownstreamPortion --------------------------
(* Reading a QueryDownstreamIdentifiers response (query_downstream.rs): the  *)
(* portion is a list of downstream devices, each of them a list of           *)
(* descriptors, that was never decoded.  The response and the device are     *)
(* iterators with a position of their own, which parse the bytes as they go. *)
(*                                                                           *)
(* What is read is a portion that lists some devices, of which any part may  *)
(* have arrived, with anything behind it; a device that arrived on its own,  *)
(* perhaps cut short; or one that was built.                                 *)
EXTENDS Integers, Sequences, SequencesExt

CONSTANTS
    Listings,    \* lists of [index, descriptors], a descriptor being [type, data]
    Trailers,    \* what may stand behind a portion
    Blobs,       \* what DownstreamDevice::new may be given
    Indices,     \* the indices try_at is called with
    DESCRIPTOR_DATA_MAX_LEN,
    None

\* What a portion can be made of: its counts and lengths are u16 and u8.
Byte == { n \in Nat : n < 256 }
Word == { n \in Nat : n < 65536 }
Descriptor == [type : Word, data : Seq(Byte)]
DownstreamDevice == [index : Word, descriptors : Seq(Descriptor)]

ASSUME ListingAssumption ==
    \A l \in Listings :
        /\ l \in Seq(DownstreamDevice) /\ Len(l) \in Word
        /\ \A i \in DOMAIN l :
             /\ Len(l[i].descriptors) \in Byte
             /\ \A j \in DOMAIN l[i].descriptors : Len(l[i].descriptors[j].data) \in Word

ASSUME BytesAssumption == Trailers \cup Blobs \subseteq Seq(Byte)

ASSUME NumberAssumption == Indices \subseteq Nat /\ DESCRIPTOR_DATA_MAX_LEN \in Nat

\* None is no descriptor, and no device of any origin.
ASSUME NoneAssumption ==
    /\ None \notin [type : Nat, data : Seq(Nat)]
    /\ None \notin [origin : {"portion", "new", "wire"}, index : Nat, count : Nat,
                    bytes : Seq(Nat), iter_count : Nat, iter_offset : Nat]

PORTION_HEADER    == 6   \* size_of::<PortionHeader>(): u32 and u16
DEVICE_HEADER     == 3   \* size_of::<DownstreamDevicesHeader>(): u16 and u8
DESCRIPTOR_HEADER == 4   \* type and length, u16 each
FIRST_RESERVED    == 4096

VARIABLES
    listed,     \* history: the devices the portion was made of
    portion,    \* QueryDownstreamIdentifiersResponse.portion
    position,   \* portion_iter_current and portion_offset_next
    device,     \* the device in the caller's hand, with its position
    result,     \* what the last call returned
    walk,       \* history: the devices next has returned since it started
    read        \* history: the descriptors the device has returned since then

vars == <<listed, portion, position, device, result, walk, read>>

-----------------------------------------------------------------------------
(* The wire format.                                                         *)

LowHigh(n) == <<n % 256, n \div 256>>
U16(bytes, at) == bytes[at + 1] + 256 * bytes[at + 2]

DescriptorBytes(d) == LowHigh(d.type) \o LowHigh(Len(d.data)) \o d.data
DescriptorsBytes(ds) == FlattenSeq([i \in DOMAIN ds |-> DescriptorBytes(ds[i])])
DeviceBytes(d) ==
    LowHigh(d.index) \o <<Len(d.descriptors)>> \o DescriptorsBytes(d.descriptors)
DevicesBytes(l) == FlattenSeq([i \in DOMAIN l |-> DeviceBytes(l[i])])

\* The length of all devices is not looked at.
PortionBytes(l) == <<0, 0, 0, 0>> \o LowHigh(Len(l)) \o DevicesBytes(l)

-----------------------------------------------------------------------------
(* Descriptor::decode and the length of a list of descriptors.               *)

Error == -1

\* Where a descriptor at an offset ends, if it decodes.
DescriptorEnd(bytes, at) ==
    IF at + DESCRIPTOR_HEADER > Len(bytes) THEN Error
    ELSE LET end == at + DESCRIPTOR_HEADER + U16(bytes, at + 2)
         IN  IF \/ U16(bytes, at + 2) > DESCRIPTOR_DATA_MAX_LEN
                \/ end > Len(bytes)
             THEN Error ELSE end

DescriptorAt(bytes, at) ==
    [type |-> U16(bytes, at),
     data |-> SubSeq(bytes, at + DESCRIPTOR_HEADER + 1, DescriptorEnd(bytes, at))]

\* try_get_descriptor_length_from_blob, as the offset it comes to.
DescriptorsEnd(bytes, at, count) ==
    LET end[i \in 0 .. count] ==
            IF i = 0 THEN at
            ELSE IF end[i - 1] = Error THEN Error ELSE DescriptorEnd(bytes, end[i - 1])
    IN  end[count]

-----------------------------------------------------------------------------
(* Iterator for QueryDownstreamIdentifiersResponse.                          *)

Start == [current |-> 0, offset_next |-> 0]
At(current, offset) == [current |-> current, offset_next |-> offset]

Device(origin, index, count, bytes) ==
    [origin |-> origin, index |-> index, count |-> count, bytes |-> bytes,
     iter_count |-> 0, iter_offset |-> 0]

Step(dev, pos) == [device |-> dev, position |-> pos]

\* Mutant: every device is read from behind the header of the portion.
DeviceAt_First(pos) == PORTION_HEADER

DeviceAt(pos) == IF pos.current = 0 THEN PORTION_HEADER ELSE pos.offset_next

AtEnd_Early(bytes, pos) == pos.current + 1 >= U16(bytes, 4)   \* mutant: one too few
AtEnd_Never(bytes, pos) == FALSE                              \* mutant: whatever follows

AtEnd(bytes, pos) == pos.current >= U16(bytes, 4)

\* What next returns at a position and where it leaves the iterator.  Only the
\* end resets the position, not a device that does not parse.
StepFrom(bytes, pos) ==
    LET at    == DeviceAt(pos)
        count == bytes[at + 3]
        end   == DescriptorsEnd(bytes, at + DEVICE_HEADER, count)
    IN  IF Len(bytes) < PORTION_HEADER THEN Step(None, pos)
        ELSE IF AtEnd(bytes, pos) THEN Step(None, Start)
        ELSE IF at + DEVICE_HEADER > Len(bytes) \/ end = Error THEN Step(None, pos)
        ELSE Step(Device("portion", U16(bytes, at), count,
                         SubSeq(bytes, at + DEVICE_HEADER + 1, end)),
                  At(pos.current + 1, end))

\* The device that an iterator returns as its n-th from a position on.
Nth(bytes, pos, n) ==
    LET step[i \in 0 .. n] ==
            IF i = 0 THEN StepFrom(bytes, pos)
            ELSE IF step[i - 1].device = None THEN step[i - 1]
            ELSE StepFrom(bytes, step[i - 1].position)
    IN  step[n].device

-----------------------------------------------------------------------------
(* The calls.                                                               *)

Returned(op, arg, value) == [op |-> op, arg |-> arg, value |-> value]

\* QueryDownstreamIdentifiersResponse::decode of a message that arrived, all or
\* a part of it.
decode ==
    /\ listed \in Listings
    /\ \/ \E n \in 0 .. Len(PortionBytes(listed)) : portion = SubSeq(PortionBytes(listed), 1, n)
       \/ \E t \in Trailers : portion = PortionBytes(listed) \o t
    /\ position = Start

Init ==
    /\ decode
    /\ walk = <<>>
    /\ device = None /\ read = <<>>
    /\ result = Returned("decode", None, None)

Hand(dev) == device' = dev /\ read' = <<>>

\* Some(device) is the caller's to iterate over; None leaves what it holds.
next ==
    /\ LET step == StepFrom(portion, position)
       IN  /\ position' = step.position
           /\ result' = Returned("next", None, step.device)
           /\ walk' = IF step.device # None THEN Append(walk, step.device)
                      ELSE IF position' = Start THEN <<>> ELSE walk
           /\ IF step.device # None THEN Hand(step.device) ELSE UNCHANGED <<device, read>>
    /\ UNCHANGED <<listed, portion>>

\* Mutant: the iterator itself is moved, not a clone.
try_at_Moves(i) ==
    /\ LET step == StepFrom(portion, position)
       IN  position' = step.position /\ result' = Returned("try_at", i, Nth(portion, position, i))
    /\ UNCHANGED <<listed, portion, device, walk, read>>

\* A clone of the iterator is moved, which starts where the iterator is.
try_at(i) ==
    /\ LET dev == Nth(portion, position, i)
       IN  /\ result' = Returned("try_at", i, dev)
           /\ IF dev # None THEN Hand(dev) ELSE UNCHANGED <<device, read>>
    /\ UNCHANGED <<listed, portion, position, walk>>

\* DownstreamDevice::new takes the number of bytes for that of descriptors.
new ==
    /\ \E blob \in Blobs, index \in {1, FIRST_RESERVED - 1} :
          Hand(Device("new", index, Len(blob) % 256, blob))
    /\ result' = Returned("new", None, None)
    /\ UNCHANGED <<listed, portion, position, walk>>

\* DownstreamDevice::decode of a device on its own: what follows the header is
\* taken for the descriptors, however much has arrived.
decode_device ==
    /\ \E d \in Range(listed) :
       \E n \in DEVICE_HEADER .. Len(DeviceBytes(d)) :
          Hand(Device("wire", d.index, Len(d.descriptors),
                      SubSeq(DeviceBytes(d), DEVICE_HEADER + 1, n)))
    /\ result' = Returned("decode_device", None, None)
    /\ UNCHANGED <<listed, portion, position, walk>>

-----------------------------------------------------------------------------
(* Iterator for DownstreamDevice.                                            *)

HeaderFits(d) == d.iter_offset + DESCRIPTOR_HEADER <= Len(d.bytes)

AfterLast(d) == d.count = 0 \/ d.iter_count >= d.count

\* Mutant: the offset moves by the data alone.
Behind_DataOnly(d) == DescriptorEnd(d.bytes, d.iter_offset) - DESCRIPTOR_HEADER

Behind(d) == DescriptorEnd(d.bytes, d.iter_offset)

NoDescriptor ==
    /\ device # None /\ AfterLast(device)
    /\ device' = [device EXCEPT !.iter_count = 0, !.iter_offset = 0]
    /\ read' = <<>>
    /\ result' = Returned("descriptor", None, None)
    /\ UNCHANGED <<listed, portion, position, walk>>

\* Too long for the array, or cut short.
BadDescriptor ==
    /\ device # None /\ ~AfterLast(device) /\ HeaderFits(device)
    /\ DescriptorEnd(device.bytes, device.iter_offset) = Error
    /\ result' = Returned("descriptor", None, None)
    /\ UNCHANGED <<listed, portion, position, device, walk, read>>

NextDescriptor ==
    /\ device # None /\ ~AfterLast(device) /\ HeaderFits(device)
    /\ DescriptorEnd(device.bytes, device.iter_offset) # Error
    /\ LET d == DescriptorAt(device.bytes, device.iter_offset)
       IN  result' = Returned("descriptor", None, d) /\ read' = Append(read, d)
    /\ device' = [device EXCEPT !.iter_count = @ + 1, !.iter_offset = Behind(device)]
    /\ UNCHANGED <<listed, portion, position, walk>>

\* The length is sliced out before there is a check for it: a panic, after which
\* the caller is gone.
PastTheEnd ==
    /\ device # None /\ ~AfterLast(device) /\ ~HeaderFits(device)
    /\ result' = Returned("panic", None, None)
    /\ UNCHANGED <<listed, portion, position, device, walk, read>>

-----------------------------------------------------------------------------
Next ==
    /\ result.op # "panic"
    /\ \/ next \/ (\E i \in Indices : try_at(i))
       \/ new \/ decode_device
       \/ NoDescriptor \/ BadDescriptor \/ NextDescriptor \/ PastTheEnd

Spec == Init /\ [][Next]_vars

-----------------------------------------------------------------------------
(* Properties.  The reference is the list the portion was made of: the       *)
(* devices that have arrived whole, up to the first that does not decode.    *)

Decodes(d) ==
    \A i \in DOMAIN d.descriptors : Len(d.descriptors[i].data) <= DESCRIPTOR_DATA_MAX_LEN

Readable(n) ==
    /\ Len(PortionBytes(SubSeq(listed, 1, n))) <= Len(portion)
    /\ \A i \in 1 .. n : Decodes(listed[i])

Arrived ==
    CHOOSE n \in 0 .. Len(listed) :
        /\ n = 0 \/ Readable(n)
        /\ \A m \in 0 .. Len(listed) : m # 0 /\ Readable(m) => m <= n

Is(dev, d) ==
    /\ dev.index = d.index /\ dev.count = Len(d.descriptors)
    /\ dev.bytes = DescriptorsBytes(d.descriptors)

\* The positions stay inside what they walk over.
TypeOK ==
    /\ position.current \in 0 .. Len(listed)
    /\ position.offset_next \in 0 .. Len(portion)
    /\ Len(walk) = position.current
    /\ device = None
       \/ /\ device.iter_count \in 0 .. device.count
          /\ device.iter_offset \in 0 .. Len(device.bytes)
          /\ Len(read) = device.iter_count

\* next returns the devices of the portion one after another, each with its own
\* index and descriptors, whatever was called in between.
WalkInOrder == \A i \in DOMAIN walk : i <= Arrived /\ Is(walk[i], listed[i])

\* None means that all devices that arrived were returned, never that one was
\* skipped; and a portion that arrived whole can be walked again from the start.
NoneMeansAll ==
    [][ result'.op = "next" /\ result'.value = None =>
            /\ Len(walk) = Arrived
            /\ Arrived = Len(listed) => position' = Start ]_vars

\* As long as no walk is under way, and after one that was finished, try_at finds
\* the device of an index in the portion if it has arrived, whatever other calls
\* came in between.  In the middle of a walk it counts on from there, so all that
\* holds then is that it never makes up a device, nor finds one that is before
\* its index or has been returned already.
TryAtFindsDevice ==
    result.op = "try_at" =>
        /\ walk = <<>> =>
             IF result.arg + 1 <= Arrived
             THEN result.value # None /\ Is(result.value, listed[result.arg + 1])
             ELSE result.value = None
        /\ result.value # None =>
             \E n \in 1 .. Arrived :
                n > result.arg /\ n > Len(walk) /\ Is(result.value, listed[n])

\* A device that next or try_at returned gives out its descriptors in order and
\* all of them, and never panics: next has decoded each of them before.
DescriptorsInOrder ==
    (device # None /\ device.origin = "portion") =>
        /\ result.op # "panic"
        /\ \E i \in DOMAIN listed :
            /\ Is(device, listed[i]) /\ IsPrefix(read, listed[i].descriptors)
            /\ result.op = "descriptor" /\ result.value = None => read = <<>>
=============================================================================
