----------------------------- MODULE UpdateFlow -----------------------------
(***************************************************************************)
(* What the firmware device promises a UA and a platform about the flow of *)
(* an update: the sequence of states in the README of firmware_device,     *)
(* with its repetition and its ways out, and that no phase begins before   *)
(* the platform has finished the one it builds on.                         *)
(***************************************************************************)

VARIABLES
    phase,   \* the state GetStatus reports
    image    \* how far the component under way has come, "None" without one

vars == <<phase, image>>

Operations == {"Download", "Verify", "Apply"}

Init == phase = "Idle" /\ image = "None"

Move(from, to) == phase = from /\ phase' = to

RequestUpdate == Move("Idle", "LearnComponents") /\ UNCHANGED image

FinalComponent == Move("LearnComponents", "ReadyXfer") /\ UNCHANGED image

AcceptComponent == Move("ReadyXfer", "Download") /\ image' = "Fresh"

\* The platform completes the work of a phase.
Work(operation, before, after) ==
    /\ phase = operation
    /\ image = before /\ image' = after
    /\ UNCHANGED phase

TransferSucceeds ==
    image = "Downloaded" /\ Move("Download", "Verify") /\ UNCHANGED image

VerifySucceeds ==
    image = "Verified" /\ Move("Verify", "Apply") /\ UNCHANGED image

ApplySucceeds ==
    image = "Applied" /\ Move("Apply", "ReadyXfer") /\ image' = "None"

CancelComponent ==
    \E operation \in Operations : Move(operation, "ReadyXfer") /\ image' = "None"

CancelUpdate ==   \* by the UA or by the T1 timeout
    \E operation \in Operations : Move(operation, "Idle") /\ image' = "None"

Activate == Move("ReadyXfer", "Idle") /\ UNCHANGED image

Next ==
    \/ RequestUpdate
    \/ FinalComponent
    \/ AcceptComponent
    \/ Work("Download", "Fresh", "Downloaded")
    \/ TransferSucceeds
    \/ Work("Verify", "Downloaded", "Verified")
    \/ VerifySucceeds
    \/ Work("Apply", "Verified", "Applied")
    \/ ApplySucceeds
    \/ CancelComponent
    \/ CancelUpdate
    \/ Activate

Spec == Init /\ [][Next]_vars
=============================================================================
