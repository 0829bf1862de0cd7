------------------------- MODULE MC_FirmwareDevice -------------------------
(* Values for the constants of FirmwareDevice that a .cfg cannot write.    *)
EXTENDS FirmwareDeviceProperties, TLC

CONSTANTS c1, c2

OneComponent  == {c1}
TwoComponents == {c1, c2}
OneSize       == c1 :> 2
TwoSizes      == c1 :> 1 @@ c2 :> 3

\* Of a component of size 2 with a padding of 1, and a transfer size of 2:
\* up to the padding and cut to the transfer size; starting in the image and
\* ending behind the padding; from behind the image; and an end that overflows
\* a u32 of 64 values.
AnyRange    == {<<0, 3>>, <<2, 2>>, <<3, 0>>, <<2, 62>>}
ValidRanges == {<<0, 1>>, <<1, 1>>}
OneRange    == {<<0, 1>>}
AnyCall     == Callbacks \cup {"encode"}

\* Time passes only inside callbacks: the application polls without a pause.
NoPause == ~Tick
=============================================================================
