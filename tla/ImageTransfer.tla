--------------------------- MODULE ImageTransfer ---------------------------
(***************************************************************************)
(* What the transfer of an image over a link promises: bytes reach the     *)
(* platform at their own offsets, in any order and as often as the device  *)
(* asks for them, and only a whole image is verified and applied.          *)
(***************************************************************************)
EXTENDS Integers

CONSTANTS
    Images,      \* the images there are
    SizeOf,      \* the number of bytes of each of them
    Nothing      \* no image, no byte

VARIABLES
    target,      \* the image under way
    stored,      \* what the platform holds at each offset of it
    accepted     \* the platform works with what it holds

vars == <<target, stored, accepted>>

Offsets(image) == 0 .. SizeOf[image] - 1

Blank(image) == [ i \in Offsets(image) |-> Nothing ]

\* Byte `offset' of an image.
Byte(image, offset) == [image |-> image, offset |-> offset]

Init == target = Nothing /\ stored = <<>> /\ accepted = FALSE

Begin ==
    /\ target' \in Images
    /\ stored' = Blank(target')
    /\ accepted' = FALSE

Store ==
    /\ target # Nothing /\ ~accepted
    /\ \E first, last \in Offsets(target) :
          stored' = [ i \in Offsets(target) |->
                        IF i \in first .. last THEN Byte(target, i) ELSE stored[i] ]
    /\ UNCHANGED <<target, accepted>>

Accept ==
    /\ target # Nothing
    /\ \A i \in Offsets(target) : stored[i] = Byte(target, i)
    /\ accepted' = TRUE
    /\ UNCHANGED <<target, stored>>

\* Cancelled, timed out, or applied.
End ==
    /\ target' = Nothing /\ stored' = <<>> /\ accepted' = FALSE

Next == Begin \/ Store \/ Accept \/ End

Spec == Init /\ [][Next]_vars
=============================================================================
