---------------------- MODULE FirmwareDeviceProperties ----------------------
(***************************************************************************)
(* What has to be true of FirmwareDevice: safety invariants, what a step   *)
(* may not do, liveness, and the flow of an update it implements.          *)
(***************************************************************************)
EXTENDS FirmwareDevice

-----------------------------------------------------------------------------
(* Safety.                                                                 *)

CompletionOf(s) == CASE s = "Download" -> "TransferComplete"
                     [] s = "Verify"   -> "VerifyComplete"
                     [] OTHER          -> "ApplyComplete"

\* The request record agrees with the state and with itself, so that every
\* unwrap and ok_or in fd_progress and handle_response finds its value: a
\* download works on download data, an outstanding request has an ID, a
\* command and a time of sending, and that command is the one its state
\* sends; a failed request says why it failed.
RequestMatchesState ==
    /\ state = "Download" => mode.kind = "Download"
    /\ req.state = "Sent" => None \notin {req.instance_id, req.command, req.sent_time}
    /\ req.state = "Failed" => req.complete /\ req.result \notin {None, Success}
    /\ state \in InitiatorStates =>
          /\ req.state # "Unused"
          /\ req.state # "Failed" /\ req.complete =>
                /\ req.result # None
                /\ state = "Download" \/ req.state = "Sent"
          /\ req.state = "Sent" =>
                req.command = IF req.complete THEN CompletionOf(state)
                                              ELSE "RequestFirmwareData"
          /\ state # "Download" /\ req.state = "Sent" => req.complete

\* Nothing is verified before the platform has taken in the whole image, and
\* nothing applied before it has verified it, whatever responses arrive late,
\* twice or after a cancel: PhaseAcknowledged trusts req, never the message.
ImageReadyForPhase ==
    /\ state = "Verify" => stage \in {"Downloaded", "Verified"}
    /\ state = "Apply"  => stage \in {"Verified", "Applied"}

\* A request that announces the success of a phase, first or sent again,
\* announces work the platform has finished.
SuccessIsEarned ==
    /\ state \in InitiatorStates
    /\ req.state \in {"Ready", "Sent"} /\ req.complete /\ req.result = Success
    => stage = CASE state = "Download" -> "Downloaded"
                 [] state = "Verify"   -> "Verified"
                 [] OTHER              -> "Applied"

\* After a T1 timeout no request survives that a late response could match
\* (the comment at the set_fd_req of fd_progress).
TimeoutLeavesNoRequest ==
    state = "Idle" /\ reason \in {"DownloadTimeout", "VerifyTimeout", "ApplyTimeout"}
        => req.state = "Unused"

\* The reason GetStatus gives in Idle and the previous state it gives tell
\* the same story of how update mode ended.
ReasonMatchesHistory ==
    state = "Idle" =>
        CASE reason = None              -> prev_state = "Idle"
          [] reason = "ActivateFw"      -> prev_state = "Activate"
          [] reason = "CancelUpdate"    -> prev_state \in InitiatorStates
          [] reason = "DownloadTimeout" -> prev_state = "Download"
          [] reason = "VerifyTimeout"   -> prev_state = "Verify"
          [] reason = "ApplyTimeout"    -> prev_state = "Apply"
          [] OTHER                      -> FALSE

\* The range under way stays inside the component and its padding, and no
\* longer than the negotiated transfer size, until its data has arrived
\* (get_fd_download_chunk validates it only when it is sent).
ChunkInWindow ==
    state = "Download" /\ req.state = "Sent" /\ ~req.complete =>
        /\ mode.length <= max_xfer_size
        /\ mode.offset + mode.length <= CompImageSize + MaxPadding

\* While the device downloads, verifies or applies, it works on the component
\* the platform accepted and has not been told to cancel since.
ActiveComponentOpen == state \in InitiatorStates => open = update_comp

\* A poll that fails after alloc_next_instance_id has replaced the ID of the
\* request that is on its way: its answer cannot match any more.  That only
\* happens to a request that is due to be sent again, and it stays due: no
\* answer is refused in vain while T2 is still to be waited for.
UnmatchableIsResent ==
    req.state = "Sent" /\ req.instance_id # wire_id => should_send_fd_request

\* VerifyComplete and ApplyComplete carry what verify and apply returned.
ReportsVerdict ==
    state \in {"Verify", "Apply"} /\ req.state = "Sent" => req.result = verdict

\* GetStatus never calls a device idle that is in an operation, and never
\* reports a failed operation with the status byte of a success.
StatusFitsState ==
    /\ AuxState = "IdleLearnComponentsReadXfer" => state \notin InitiatorStates
    /\ AuxState = "OperationFailed" => AuxStateStatus # Success

\* No unwrap and no overflow check of the handlers panics.
NoPanic == ~panicked

-----------------------------------------------------------------------------
(* What a step may not do.                                                 *)

\* An answer other than a success, or none, leaves the state, the outstanding
\* request and the transfer as they were (sent_time is an age: time moves it).
RefusalChangesNothing ==
    [][reply' \notin {None, "Success", "ActivationNotRequired"} =>
          /\ UNCHANGED <<fsm, mode>>
          /\ [req' EXCEPT !.sent_time = None] = [req EXCEPT !.sent_time = None]]_vars

\* "Completed and failed; will not send more requests": only a new component
\* takes the device out of a failed request.
FailedStaysFailed ==
    [][req.state = "Failed" /\ req'.state # "Failed" =>
          state = "ReadyXfer" /\ state' = "Download"]_vars

\* The device leaves Apply with its request retired only if the platform
\* reported the apply as done.
FinishedOnlyIfApplied ==
    [][state = "Apply" /\ state' = "ReadyXfer" /\ req'.state = "Unused" =>
          stage = "Applied"]_vars

\* However often TransferComplete is sent again, it reports the same result.
TransferResultStable ==
    [][req.state = "Sent" /\ req.command = "TransferComplete" /\ req'.state = "Sent"
          => req'.result = req.result]_vars

\* When VerifyComplete or ApplyComplete is first sent, the UA still has time
\* to answer before T1 expires: a long callback does not count as UA silence.
WorkIsNotSilence ==
    [][req.state = "Ready" /\ req'.state = "Sent" /\ state # "Download"
          => t1_age' <= T1]_vars

-----------------------------------------------------------------------------
(* Liveness.  The application keeps polling and the clock keeps moving (the *)
(* README of the module asks for both); callbacks that may fail succeed in  *)
(* the end, and verify and apply come to an end.                            *)

Fairness ==
    /\ WF_vars(Tick)
    /\ SF_vars(ProgressTimeout /\ state' = "Idle")
    /\ SF_vars(fd_progress /\ req'.state = "Sent")

LiveSpec == Spec /\ Fairness

UaSilent == <>[][~(UaCommand \/ handle_response)]_vars

\* A UA that falls silent cannot hold the device in an operation it is still
\* working on: T1 or a failure ends it.
SilenceEndsOperation ==
    UaSilent => <>[](state \in InitiatorStates => req.state = "Failed")

\* A UA that falls silent cannot hold the device in update mode.
SilenceEndsUpdateMode == UaSilent => []<>(~is_update_mode)

-----------------------------------------------------------------------------
(* The flow of one update, as UpdateFlow promises it.                      *)

Flow == INSTANCE UpdateFlow WITH
            phase <- state,
            image <- IF state \in InitiatorStates THEN stage ELSE "None"

ImplementsFlow == Flow!Spec
=============================================================================
