------------------------ MODULE MC_DownstreamPortion ------------------------
(* Portions and blobs for DownstreamPortion.                               *)
EXTENDS DownstreamPortion

D(type, data) == [type |-> type, data |-> data]

\* Descriptors of any length up to the array and, of a peer, one byte beyond.
Dev(index, descriptors) == [index |-> index, descriptors |-> descriptors]
Empty == Dev(1, <<>>)
One   == Dev(4095, <<D(0, <<7, 8>>)>>)
Two   == Dev(300, <<D(1, <<>>), D(65535, <<9>>)>>)
Long  == Dev(2, <<D(2, <<5>>), D(3, <<1, 2, 3>>)>>)

Lists ==
    UNION {[1 .. n -> {Empty, One, Two}] : n \in 0 .. 2}
    \cup {<<Two, Empty, One>>, <<One, Long, Two>>, <<Long>>}

\* A device more than the header says, and less than a device.
Behinds == {DeviceBytes(One), <<1>>}

\* What new is given: nothing, a descriptor, two of them, half of one.
Given == {<<>>, DescriptorsBytes(One.descriptors), DescriptorsBytes(Two.descriptors), <<0, 0, 9>>}
=============================================================================
