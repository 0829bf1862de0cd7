--------------------------- MODULE FirmwareDevice ---------------------------
(***************************************************************************)
(* The PLDM firmware device: FirmwareDeviceContext (fd_context.rs) with    *)
(* the protocol state it keeps in FdInternal (fd_internal.rs).             *)
(*                                                                         *)
(* Each call an embedding application can make on the context is one       *)
(* action: a command of the Update Agent (UA), a poll of fd_progress, a    *)
(* response handed to handle_response.  Every call takes `&mut self', so   *)
(* calls never overlap; what is open is their order, the content of the    *)
(* messages, the outcome of every FdOps callback and the passage of time.  *)
(*                                                                         *)
(* Timestamps are kept as ages.  The code only ever compares               *)
(* now - fd_t1_update_ts with T1 and now - sent_time with T2, so an age    *)
(* that stops growing at T1 + 1 and at T2 decides each comparison as the   *)
(* code does.  FdOps::now is monotonic (fd_ops.rs).                        *)
(***************************************************************************)
EXTENDS Integers

CONSTANTS
    Components,       \* the component descriptions a UA may send
    ImageSize,        \* comp_image_size of each of them
    None,             \* Option::None
    T1,               \* fd_t1_timeout
    T2,               \* fd_t2_retry_time
    WorkTimes,        \* how long a verify or an apply callback may block
    InstanceIdCount,  \* INSTANCE_ID_COUNT
    U32,              \* one more than the largest u32
    OverflowChecks,   \* whether the build panics on arithmetic overflow
    MaxPadding,       \* PLDM_FWUP_MAX_PADDING_SIZE
    DefaultXferSize,  \* FD_MAX_XFER_SIZE
    XferSizes,        \* what get_xfer_size may return
    DownloadRanges,   \* what query_download_offset_and_length may return
    ResponseCodes,    \* what handle_component may return
    TransferResults,  \* what download_fw_data may return
    VerifyResults,    \* what verify may return
    ApplyResults,     \* what apply may return
    Percents,         \* what verify and apply may write as their progress
    MayFail           \* the callbacks that may return an FdOpsError

Callbacks == { "get_xfer_size", "get_firmware_parms", "handle_component",
               "query_download_offset_and_length", "download_fw_data", "verify",
               "apply", "activate", "cancel_update_component",
               "get_non_functional_component_info", "get_device_identifiers",
               "handle_pending_component", "update_security_revision" }

ASSUME ComponentAssumption ==
    /\ None \notin Components
    /\ ImageSize \in [Components -> 0 .. U32 - 1]

ASSUME NumberAssumption ==
    /\ T1 \in Nat /\ T2 \in Nat
    /\ WorkTimes \subseteq Nat
    /\ InstanceIdCount \in Nat /\ InstanceIdCount > 1
    /\ U32 \in Nat /\ U32 > 0
    /\ OverflowChecks \in BOOLEAN
    /\ MaxPadding \in Nat
    /\ DefaultXferSize \in 0 .. U32 - 1

ASSUME CallbackAssumption ==
    /\ XferSizes \subseteq Nat
    /\ DownloadRanges \subseteq Nat \X Nat
    /\ ResponseCodes \subseteq 0 .. 12
    /\ TransferResults \subseteq 0 .. 17
    /\ VerifyResults \subseteq 0 .. 11
    /\ ApplyResults \subseteq 0 .. 11
    /\ Percents \subseteq 0 .. 101
    \* "encode" stands for a reply or request that does not fit the caller's buffer
    /\ MayFail \subseteq Callbacks \cup {"encode"}

VARIABLES
    state,          \* FdInternal.state
    prev_state,     \* FdInternal.prev_state
    reason,         \* FdInternal.reason
    update_comp,    \* FdInternal.update_comp and update_flags
    max_xfer_size,  \* FdInternal.max_xfer_size
    req,            \* FdInternal.req; its sent_time is an age
    mode,           \* FdInternal.initiator_mode_state
    t1_age,         \* how long ago fd_t1_update_ts was set
    panicked,       \* a panic has stopped the device for good
    reply,          \* completion code of the answer to the last UA command
    stage,          \* history: how far the platform has taken the component
    verdict,        \* history: what verify or apply returned last
    open,           \* history: the component the platform holds open
    wire_id         \* history: the instance ID of the last request sent

fsm     == <<state, prev_state, reason>>
history == <<stage, verdict, open, wire_id>>
vars    == <<fsm, update_comp, max_xfer_size, req, mode, t1_age, panicked,
             reply, history>>

-----------------------------------------------------------------------------
(* Codes and types.                                                        *)

States == { "Idle", "LearnComponents", "ReadyXfer", "Download", "Verify",
            "Apply", "Activate" }

InitiatorStates == {"Download", "Verify", "Apply"}

Reasons == { "ActivateFw", "CancelUpdate", "LearnComponentTimeout",
             "ReadyXferTimeout", "DownloadTimeout", "VerifyTimeout",
             "ApplyTimeout" }

FdCommands == { "RequestFirmwareData", "TransferComplete", "VerifyComplete",
                "ApplyComplete" }

ASSUME NoneAssumption ==
    None \notin Int \cup FdCommands \cup Reasons

\* Result codes as the bytes that FdReq.result holds.
Success           == 0
FdAbortedTransfer_Zero == 0         \* mutant: an abort recorded as result 0
FdAbortedTransfer == 3
GenericError_Zero == 0              \* mutant: the enums default to success
GenericError      == 10

ApplySuccessWithActivationMethod == 1

\* The bytes TransferResult::try_from accepts.
TransferResultBytes == (0 .. 3) \cup (9 .. 16) \cup (112 .. 143)

\* The bytes ComponentCompatibilityResponseCode::try_from accepts.
CompatibilityBytes == (0 .. 11) \cup (208 .. 239)

CompCanBeUpdated == 0

CompletionCodes == { "Success", "Error", "InvalidData", "InvalidLength",
                     "NotInUpdateMode", "AlreadyInUpdateMode",
                     "InvalidTransferLength", "InvalidStateForCommand",
                     "ActivationNotRequired", "IncompleteUpdate",
                     "NotPermitted" }

\* The handler returned Err: nothing is written for the UA.
NoResponse == "NoResponse"

\* How decode_failure_code names a request that cannot be decoded.
Malformed == {"InvalidLength", "InvalidData"}

Replies == CompletionCodes \cup {NoResponse}

FdReq == [ state       : {"Unused", "Ready", "Sent", "Failed"},
           complete    : BOOLEAN,
           result      : (0 .. 255) \cup {None},
           instance_id : (0 .. InstanceIdCount - 1) \cup {None},
           command     : FdCommands \cup {None},
           sent_time   : (0 .. T2) \cup {None} ]

InitiatorMode == [ kind     : InitiatorStates,
                   offset   : 0 .. U32 - 1,
                   length   : 0 .. U32 - 1,
                   progress : 0 .. 101 ]

Stages == {"Fresh", "Downloaded", "Verified", "Applied"}

\* Every variable holds a value of the type its field has in the code.
TypeOK ==
    /\ state \in States
    /\ prev_state \in States
    /\ reason \in Reasons \cup {None}
    /\ update_comp \in Components \cup {None}
    /\ max_xfer_size \in 0 .. U32 - 1
    /\ req \in FdReq
    /\ mode \in InitiatorMode
    /\ t1_age \in 0 .. T1 + 1
    /\ panicked \in BOOLEAN
    /\ reply \in Replies \cup {None}
    /\ stage \in Stages
    /\ verdict \in (0 .. 11) \cup {None}
    /\ open \in Components \cup {None}
    /\ wire_id \in (0 .. InstanceIdCount - 1) \cup {None}

-----------------------------------------------------------------------------
(* FdInternal's setters.                                                   *)

Request(s, complete, result) ==
    [ state |-> s, complete |-> complete, result |-> result,
      instance_id |-> None, command |-> None, sent_time |-> None ]

Mode(kind, offset, length) ==
    [kind |-> kind, offset |-> offset, length |-> length, progress |-> 0]

Init ==
    /\ state = "Idle"
    /\ prev_state = "Idle"
    /\ reason = None
    /\ update_comp = None
    /\ max_xfer_size = DefaultXferSize
    /\ req = Request("Unused", FALSE, None)
    /\ mode = Mode("Download", 0, 0)
    /\ t1_age \in 0 .. T1 + 1   \* fd_t1_update_ts is 0, now may be anything
    /\ panicked = FALSE
    /\ reply = None
    /\ stage = "Fresh"
    /\ verdict = None
    /\ open = None
    /\ wire_id = None

is_update_mode == state # "Idle"

set_fd_state(s) ==
    /\ state' = s
    /\ prev_state' = IF s # state THEN state ELSE prev_state
    /\ UNCHANGED reason

\* Called in update mode only.
set_fd_idle(r) ==
    /\ state' = "Idle"
    /\ prev_state' = state
    /\ reason' = r

\* Mutant: the reasons of Verify and Apply swapped.
TimeoutReason_Swapped ==
    [ s \in InitiatorStates |-> CASE s = "Download" -> "DownloadTimeout"
                                  [] s = "Verify"   -> "ApplyTimeout"
                                  [] OTHER          -> "VerifyTimeout" ]

TimeoutReason ==
    [ s \in InitiatorStates |-> CASE s = "Download" -> "DownloadTimeout"
                                  [] s = "Verify"   -> "VerifyTimeout"
                                  [] OTHER          -> "ApplyTimeout" ]

\* Mutant: the ID does not wrap.
NextInstanceId_NoWrap ==
    IF req.instance_id = None THEN 1 ELSE req.instance_id + 1

NextInstanceId ==
    IF req.instance_id = None THEN 1 ELSE (req.instance_id + 1) % InstanceIdCount

Capped(n, cap) == IF n > cap THEN cap ELSE n

\* The ages after d more units of time.
LaterT1(d) == Capped(t1_age + d, T1 + 1)
Later(r, d) ==
    IF r.sent_time = None THEN r
                          ELSE [r EXCEPT !.sent_time = Capped(r.sent_time + d, T2)]

CanFail(call) == call \in MayFail

-----------------------------------------------------------------------------
(* Commands of the UA.                                                     *)

Answer(cc) == reply' = cc

\* An answer that leaves everything else alone.
Refuse(cc) ==
    /\ ~panicked
    /\ Answer(cc)
    /\ UNCHANGED <<fsm, update_comp, max_xfer_size, req, mode, t1_age, panicked,
                   history>>

RequestUpdate ==
    /\ ~panicked
    /\ \/ is_update_mode /\ Refuse("AlreadyInUpdateMode")
       \/ /\ ~is_update_mode
          /\ t1_age' = 0
          /\ \/ /\ \E cc \in Malformed \cup {"InvalidTransferLength"} :
                       Answer(cc)
                /\ UNCHANGED <<fsm, max_xfer_size>>
             \/ /\ CanFail("get_xfer_size")
                /\ Answer(NoResponse)
                /\ UNCHANGED <<fsm, max_xfer_size>>
             \/ /\ \E n \in XferSizes : max_xfer_size' = n % U32
                /\ \/ /\ Answer("Success")
                      /\ set_fd_state("LearnComponents")
                   \/ /\ CanFail("encode")
                      /\ Answer("InvalidLength")
                      /\ UNCHANGED fsm
          /\ UNCHANGED <<update_comp, req, mode, panicked, history>>

\* `last' is a transfer flag of End or StartAndEnd.
PassComponentTable(last) ==
    /\ ~panicked
    /\ \/ /\ state # "LearnComponents"
          /\ Refuse("InvalidStateForCommand")
       \/ /\ state = "LearnComponents"
          /\ t1_age' = 0
          /\ \/ /\ \E cc \in Malformed : Answer(cc)
                /\ UNCHANGED fsm
             \/ /\ CanFail("get_firmware_parms") \/ CanFail("handle_component")
                /\ Answer(NoResponse)
                /\ UNCHANGED fsm
             \/ /\ CanFail("encode")
                /\ Answer("InvalidLength")
                /\ UNCHANGED fsm
             \/ /\ Answer("Success")
                /\ IF last THEN set_fd_state("ReadyXfer") ELSE UNCHANGED fsm
          /\ UNCHANGED <<update_comp, max_xfer_size, req, mode, panicked, history>>

\* Mutant: the response code is sent and then not consulted.
ComponentDeclined_Downloads ==
    /\ Answer("Success")
    /\ mode' = Mode("Download", 0, 0)
    /\ req' = Request("Ready", FALSE, None)
    /\ set_fd_state("Download")
    /\ UNCHANGED <<panicked, history>>

\* The platform declines the component.  Its code is converted to the one of
\* the answer by try_from(..).unwrap().
ComponentDeclined ==
    /\ \E code \in ResponseCodes \ {CompCanBeUpdated} :
          IF code \in CompatibilityBytes
          THEN /\ Answer("Success") \/ (CanFail("encode") /\ Answer("InvalidLength"))
               /\ UNCHANGED panicked
          ELSE panicked' = TRUE /\ Answer(NoResponse)
    /\ UNCHANGED <<fsm, req, mode, history>>

\* Mutant: the download begins before the answer is encoded.
ComponentAccepted_TooEarly ==
    /\ CompCanBeUpdated \in ResponseCodes
    /\ open' = update_comp'
    /\ stage' = "Fresh"
    /\ verdict' = None
    /\ mode' = Mode("Download", 0, 0)
    /\ req' = Request("Ready", FALSE, None)
    /\ set_fd_state("Download")
    /\ Answer("Success") \/ (CanFail("encode") /\ Answer("InvalidLength"))
    /\ UNCHANGED <<panicked, wire_id>>

\* The platform accepts the component; the download begins once the answer
\* has been encoded.
ComponentAccepted ==
    /\ CompCanBeUpdated \in ResponseCodes
    /\ open' = update_comp'
    /\ stage' = "Fresh"
    /\ verdict' = None
    /\ \/ /\ Answer("Success")
          /\ mode' = Mode("Download", 0, 0)
          /\ req' = Request("Ready", FALSE, None)
          /\ set_fd_state("Download")
       \/ /\ CanFail("encode")
          /\ Answer("InvalidLength")
          /\ UNCHANGED <<fsm, req, mode>>
    /\ UNCHANGED <<panicked, wire_id>>

\* The component is stored before the callbacks are asked about it, whatever
\* they say.
UpdateComponent ==
    /\ ~panicked
    /\ \/ /\ state # "ReadyXfer"
          /\ Refuse("InvalidStateForCommand")
       \/ /\ state = "ReadyXfer"
          /\ t1_age' = 0
          /\ UNCHANGED max_xfer_size
          /\ \/ /\ \E cc \in Malformed : Answer(cc)
                /\ UNCHANGED <<fsm, update_comp, req, mode, panicked, history>>
             \/ /\ CanFail("get_firmware_parms") \/ CanFail("handle_component")
                /\ update_comp' \in Components
                /\ Answer(NoResponse)
                /\ UNCHANGED <<fsm, req, mode, panicked, history>>
             \/ update_comp' \in Components /\ ComponentDeclined
             \/ update_comp' \in Components /\ ComponentAccepted

\* Set to Activate and at once to Idle: Activate is only seen as prev_state.
ActivateFirmware ==
    /\ ~panicked
    /\ \/ /\ state # "ReadyXfer"
          /\ Refuse("InvalidStateForCommand")
       \/ /\ state = "ReadyXfer"
          /\ \E cc \in Malformed \cup {"IncompleteUpdate"} :
                 Refuse(cc)
       \/ /\ state = "ReadyXfer"
          /\ CanFail("activate")
          /\ Refuse(NoResponse)
       \/ /\ state = "ReadyXfer"
          /\ \E cc \in {"Success", "ActivationNotRequired"} :
                 Answer(cc)
          /\ state' = "Idle"
          /\ prev_state' = "Activate"
          /\ reason' = "ActivateFw"
          /\ UNCHANGED <<update_comp, max_xfer_size, req, mode, t1_age, panicked,
                         history>>

\* Mutant: a cancel ends update mode from every state.
ShouldCancel_Always == is_update_mode

\* In Apply, only what has not been applied successfully can be cancelled.
ShouldCancel ==
    \/ state \in {"Download", "Verify"}
    \/ state = "Apply" /\ ~(req.complete /\ req.result = Success)

CancelUpdateComponent ==
    /\ ~panicked
    /\ \/ ~is_update_mode /\ Refuse("NotInUpdateMode")
       \/ /\ is_update_mode /\ state \notin InitiatorStates
          /\ Refuse("InvalidStateForCommand")
       \/ /\ state \in InitiatorStates /\ ~ShouldCancel
          /\ Refuse("Error") \/ (CanFail("encode") /\ Refuse("InvalidLength"))
       \/ /\ ShouldCancel
          /\ CanFail("cancel_update_component")
          /\ Refuse(NoResponse)
       \/ /\ ShouldCancel
          /\ open' = None
          /\ \/ /\ Answer("Success")
                /\ set_fd_state("ReadyXfer")
             \/ /\ CanFail("encode")
                /\ Answer("InvalidLength")
                /\ UNCHANGED fsm
          /\ UNCHANGED <<update_comp, max_xfer_size, req, mode, t1_age, panicked,
                         stage, verdict, wire_id>>

\* The platform is told to cancel before the rest of the answer is gathered.
CancelUpdate ==
    /\ ~panicked
    /\ \/ ~is_update_mode /\ Refuse("NotInUpdateMode")
       \/ /\ is_update_mode
          /\ t1_age' = 0
          /\ \/ /\ ShouldCancel /\ CanFail("cancel_update_component")
                /\ Answer(NoResponse)
                /\ UNCHANGED <<fsm, open>>
             \/ /\ open' = IF ShouldCancel THEN None ELSE open
                /\ \/ /\ CanFail("get_non_functional_component_info")
                      /\ Answer(NoResponse)
                      /\ UNCHANGED fsm
                   \/ /\ CanFail("encode")
                      /\ Answer("InvalidLength")
                      /\ UNCHANGED fsm
                   \/ /\ ShouldCancel
                      /\ Answer("Success")
                      /\ set_fd_idle("CancelUpdate")
                   \/ /\ ~ShouldCancel
                      /\ Answer("Error")
                      /\ UNCHANGED fsm
          /\ UNCHANGED <<update_comp, max_xfer_size, req, mode, panicked,
                         stage, verdict, wire_id>>

\* A command that changes nothing in the context.
ReadOnly(calls, ccs) ==
    \/ \E cc \in ccs : Refuse(cc)
    \/ CanFail("encode") /\ Refuse("InvalidLength")
    \/ (\E call \in calls : CanFail(call)) /\ Refuse(NoResponse)

\* An error of query_download_progress is ignored.
GetStatus == ReadOnly({}, {"Success"})

\* A descriptor count outside 1 .. 4 fails like the callback.
QueryDeviceIdentifiers == ReadOnly({"get_device_identifiers"}, {"Success"})

GetFirmwareParameters == ReadOnly({"get_firmware_parms"}, {"Success"})

\* These two act on an image the device already holds, and only in Idle.
IdleCommand(callback) ==
    IF is_update_mode
    THEN Refuse("InvalidStateForCommand")
    ELSE ReadOnly({"get_firmware_parms", callback},
                  Malformed \cup {"Success", "NotPermitted"})

ActivatePendingComponentImage == IdleCommand("handle_pending_component")
UpdateSecurityRevision        == IdleCommand("update_security_revision")

\* Mutant: a request that waits to be sent is reported as none.
AuxState_ReadyIsIdle ==
    CASE req.state = "Failed" -> "OperationFailed"
      [] req.state = "Ready" /\ req.complete -> "OperationSuccessful"
      [] req.state = "Sent" -> "OperationInProgress"
      [] OTHER -> "IdleLearnComponentsReadXfer"

\* What GetStatus reports of the request state.
AuxState ==
    CASE req.state = "Unused" -> "IdleLearnComponentsReadXfer"
      [] req.state = "Failed" -> "OperationFailed"
      [] req.state = "Ready" /\ req.complete -> "OperationSuccessful"
      [] OTHER -> "OperationInProgress"

AuxStateStatus ==
    IF req.state # "Failed" THEN 0
    ELSE IF req.result = None THEN GenericError ELSE req.result

-----------------------------------------------------------------------------
(* FD-initiated requests: fd_progress.                                     *)

\* Mutant: T1 times the wrong side.
T1Expired_OfReady == req.state = "Ready" /\ t1_age > T1

T1Expired == req.state = "Sent" /\ t1_age > T1

\* Mutant: a failed request is sent again.
should_send_fd_request_Failed ==
    \/ req.state \in {"Ready", "Failed"}
    \/ req.state = "Sent" /\ req.sent_time >= T2

should_send_fd_request ==
    \/ req.state = "Ready"
    \/ req.state = "Sent" /\ req.sent_time >= T2

\* The call fails after alloc_next_instance_id has advanced the ID in place.
FailAfterAlloc(d) ==
    /\ req' = Later([req EXCEPT !.instance_id = NextInstanceId], d)
    /\ UNCHANGED wire_id

\* Mutant: the ID is allocated before looking whether a request is due.
ProgressNothing_Allocates ==
    /\ ~panicked
    /\ state \in InitiatorStates => ~T1Expired /\ ~should_send_fd_request
    /\ reply' = None
    /\ IF state \in InitiatorStates THEN FailAfterAlloc(0) ELSE UNCHANGED <<req, wire_id>>
    /\ UNCHANGED <<fsm, update_comp, max_xfer_size, mode, t1_age, panicked,
                   stage, verdict, open>>

\* A poll with nothing to do.
ProgressNothing ==
    /\ ~panicked
    /\ state \in InitiatorStates => ~T1Expired /\ ~should_send_fd_request
    /\ reply' = None
    /\ UNCHANGED <<fsm, update_comp, max_xfer_size, req, mode, t1_age, panicked,
                   history>>

\* Mutant: the request survives the timeout.
ProgressTimeout_KeepsRequest ==
    /\ ~panicked
    /\ state \in InitiatorStates
    /\ T1Expired
    /\ reply' = None
    /\ open' = None
    /\ set_fd_idle(TimeoutReason[state])
    /\ UNCHANGED <<update_comp, max_xfer_size, req, mode, t1_age, panicked,
                   stage, verdict, wire_id>>

ProgressTimeout ==
    /\ ~panicked
    /\ state \in InitiatorStates
    /\ T1Expired
    /\ reply' = None
    /\ \/ /\ CanFail("cancel_update_component")
          /\ UNCHANGED <<fsm, req, open>>
       \/ /\ open' = None
          /\ set_fd_idle(TimeoutReason[state])
          /\ req' = Request("Unused", FALSE, None)
    /\ UNCHANGED <<update_comp, max_xfer_size, mode, t1_age, panicked,
                   stage, verdict, wire_id>>

\* Mutants: the time of sending is left out; the result is lost on a retry.
Send_Untimed(cmd, complete, result) ==
    /\ req' = [ state |-> "Sent", complete |-> complete, result |-> result,
                instance_id |-> NextInstanceId, command |-> cmd, sent_time |-> None ]
    /\ wire_id' = NextInstanceId

Send_RetryLosesResult(cmd, complete, result) ==
    /\ req' = [ state |-> "Sent", complete |-> complete,
                result |-> IF req.state = "Sent" THEN GenericError ELSE result,
                instance_id |-> NextInstanceId, command |-> cmd, sent_time |-> 0 ]
    /\ wire_id' = NextInstanceId

\* A request goes out under the next instance ID and replaces req.
Send(cmd, complete, result) ==
    /\ req' = [ state |-> "Sent", complete |-> complete, result |-> result,
                instance_id |-> NextInstanceId, command |-> cmd, sent_time |-> 0 ]
    /\ wire_id' = NextInstanceId

CompImageSize == IF update_comp = None THEN 0 ELSE ImageSize[update_comp]

\* get_fd_download_chunk on u32: the two sums wrap, or panic if the build
\* checks for overflow.
ChunkOverflows(offset, length) ==
    /\ offset <= CompImageSize
    /\ offset + length >= U32 \/ CompImageSize + MaxPadding >= U32

\* Mutant: only the start of the range is validated.
ChunkAllowed_StartOnly(offset, length) == offset <= CompImageSize

ChunkAllowed(offset, length) ==
    /\ offset <= CompImageSize
    /\ (offset + length) % U32 <= (CompImageSize + MaxPadding) % U32

\* The next RequestFirmwareData.
ProgressRequestData ==
    /\ ~panicked
    /\ state = "Download" /\ ~T1Expired /\ should_send_fd_request
    /\ ~req.complete
    /\ reply' = None
    /\ \/ /\ CanFail("query_download_offset_and_length") \/ CanFail("encode")
          /\ FailAfterAlloc(0)
          /\ UNCHANGED <<mode, panicked>>
       \/ \E range \in DownloadRanges :
          LET offset == range[1] % U32
              length == range[2] % U32
          IN  \/ /\ OverflowChecks /\ ChunkOverflows(offset, length)
                 /\ panicked' = TRUE
                 /\ FailAfterAlloc(0)
                 /\ UNCHANGED mode
              \/ /\ ~(OverflowChecks /\ ChunkOverflows(offset, length))
                 /\ ~ChunkAllowed(offset, length)
                 /\ FailAfterAlloc(0)
                 /\ UNCHANGED <<mode, panicked>>
              \/ /\ ~(OverflowChecks /\ ChunkOverflows(offset, length))
                 /\ ChunkAllowed(offset, length)
                 /\ mode' = [mode EXCEPT !.offset = offset,
                                         !.length = Capped(length, max_xfer_size)]
                 /\ Send("RequestFirmwareData", FALSE, None)
                 /\ UNCHANGED panicked
    /\ UNCHANGED <<fsm, update_comp, max_xfer_size, t1_age, stage, verdict, open>>

\* The transfer is over: TransferComplete, with the result as an enum value
\* recovered by TransferResult::try_from(result).unwrap().
ProgressTransferComplete ==
    /\ ~panicked
    /\ state = "Download" /\ ~T1Expired /\ should_send_fd_request
    /\ req.complete
    /\ reply' = None
    /\ \/ /\ req.result \in TransferResultBytes \cup {None}
          /\ req.result = None \/ CanFail("encode")
          /\ FailAfterAlloc(0)
          /\ UNCHANGED panicked
       \/ /\ req.result # None /\ req.result \notin TransferResultBytes
          /\ panicked' = TRUE
          /\ FailAfterAlloc(0)
       \/ /\ req.result # None /\ req.result \in TransferResultBytes
          /\ Send("TransferComplete", TRUE, req.result)
          /\ UNCHANGED panicked
    /\ UNCHANGED <<fsm, update_comp, max_xfer_size, mode, t1_age, stage, verdict,
                   open>>

(* pldm_fd_progress_verify and pldm_fd_progress_apply are the same code     *)
(* over different enums.  The callback runs unless the request is complete; *)
(* on a T2 retry the result is the enum's default, GenericError.  T1 is     *)
(* refreshed after the callback unless the call ends in a request.          *)
Progress(st, callback, results, cmd, done) ==
    /\ ~panicked
    /\ state = st /\ ~T1Expired /\ should_send_fd_request
    /\ reply' = None
    /\ \/ /\ ~req.complete /\ CanFail(callback)
          /\ \E d \in WorkTimes : t1_age' = LaterT1(d) /\ req' = Later(req, d)
          /\ UNCHANGED <<mode, stage, verdict, wire_id>>
       \/ /\ ~req.complete
          /\ \E r \in results, p \in Percents, d \in WorkTimes :
             /\ mode' = IF mode.kind = st THEN [mode EXCEPT !.progress = p] ELSE mode
             /\ verdict' = r
             /\ IF r = Success /\ p < 100
                THEN /\ t1_age' = IF req.state = "Sent" THEN LaterT1(d) ELSE 0
                     /\ req' = Later(req, d)
                     /\ UNCHANGED <<stage, wire_id>>
                ELSE /\ t1_age' = LaterT1(d)
                     /\ stage' = IF r = Success THEN done ELSE stage
                     /\ \/ Send(cmd, TRUE, r)
                        \/ CanFail("encode") /\ FailAfterAlloc(d)
       \/ /\ req.complete
          /\ \/ Send(cmd, TRUE, GenericError)
             \/ CanFail("encode") /\ FailAfterAlloc(0)
          /\ UNCHANGED <<mode, t1_age, stage, verdict>>
    /\ UNCHANGED <<fsm, update_comp, max_xfer_size, panicked, open>>

ProgressVerify ==
    Progress("Verify", "verify", VerifyResults, "VerifyComplete", "Verified")

ProgressApply ==
    Progress("Apply", "apply", ApplyResults, "ApplyComplete", "Applied")

fd_progress ==
    \/ ProgressNothing \/ ProgressTimeout
    \/ ProgressRequestData \/ ProgressTransferComplete
    \/ ProgressVerify \/ ProgressApply

-----------------------------------------------------------------------------
(* Responses of the UA: handle_response.                                   *)

\* Mutant: the command alone has to match.
Expected_AnyId(id, cmd) == req.state = "Sent" /\ req.command = cmd

Expected(id, cmd) ==
    req.state = "Sent" /\ req.instance_id = id /\ req.command = cmd

ResponseUnexpected(id, cmd) ==
    /\ ~panicked
    /\ ~Expected(id, cmd)
    /\ reply' = None
    /\ UNCHANGED <<fsm, update_comp, max_xfer_size, req, mode, t1_age, panicked,
                   history>>

ServedIn == [ cmd \in FdCommands |-> CASE cmd = "VerifyComplete" -> "Verify"
                                       [] cmd = "ApplyComplete"  -> "Apply"
                                       [] OTHER                  -> "Download" ]

\* The response matches req and T1 is refreshed, but the state has moved on.
ResponseOutOfState(id, cmd) ==
    /\ ~panicked
    /\ Expected(id, cmd)
    /\ state # ServedIn[cmd] \/ req.complete # (cmd # "RequestFirmwareData")
    /\ t1_age' = 0
    /\ reply' = None
    /\ UNCHANGED <<fsm, update_comp, max_xfer_size, req, mode, panicked, history>>

\* Firmware data arrives for the chunk under way: cc is its completion code,
\* `enough' says it holds as many bytes as were requested.
FirmwareData(id, cc, enough) ==
    /\ ~panicked
    /\ Expected(id, "RequestFirmwareData")
    /\ state = "Download" /\ ~req.complete
    /\ t1_age' = 0
    /\ reply' = None
    /\ \/ /\ \/ cc = "RetryRequestFwData"
             \/ cc = "Success" /\ ~enough
             \/ cc = "Success" /\ enough /\ CanFail("download_fw_data")
          /\ UNCHANGED <<req, stage>>
       \/ /\ cc = "Error"
          /\ req' = Request("Ready", TRUE, FdAbortedTransfer)
          /\ UNCHANGED stage
       \/ /\ cc = "Success" /\ enough
          /\ \E res \in TransferResults, all \in BOOLEAN :   \* is_download_complete
             IF res = Success /\ ~all
             THEN /\ req' = Request("Ready", FALSE, None)
                  /\ UNCHANGED stage
             ELSE /\ req' = Request("Ready", TRUE, res)
                  /\ stage' = IF res = Success THEN "Downloaded" ELSE stage
    /\ UNCHANGED <<fsm, update_comp, max_xfer_size, mode, panicked, verdict, open,
                   wire_id>>

\* The UA acknowledges a request that ends a phase; what it says is not read.
\* A success moves on to the next phase, a failure waits for the UA to cancel.
PhaseAcknowledged(id, cmd) ==
    /\ ~panicked
    /\ cmd # "RequestFirmwareData"
    /\ Expected(id, cmd)
    /\ state = ServedIn[cmd] /\ req.complete
    /\ t1_age' = 0
    /\ reply' = None
    /\ \/ /\ req.result # Success
          /\ req' = Request("Failed", TRUE, req.result)
          /\ UNCHANGED <<fsm, mode, open>>
       \/ /\ req.result = Success /\ state # "Apply"
          /\ LET next == IF state = "Download" THEN "Verify" ELSE "Apply"
             IN  /\ mode' = Mode(next, 0, 0)
                 /\ set_fd_state(next)
          /\ req' = Request("Ready", FALSE, None)
          /\ UNCHANGED open
       \/ /\ req.result = Success /\ state = "Apply"
          /\ req' = Request("Unused", FALSE, None)
          /\ set_fd_state("ReadyXfer")
          /\ open' = None
          /\ UNCHANGED mode
    /\ UNCHANGED <<update_comp, max_xfer_size, panicked, stage, verdict, wire_id>>

handle_response ==
    \E id \in 0 .. InstanceIdCount - 1, cmd \in FdCommands :
        \/ ResponseUnexpected(id, cmd)
        \/ ResponseOutOfState(id, cmd)
        \/ \E cc \in {"Success", "RetryRequestFwData", "Error"}, enough \in BOOLEAN :
               cmd = "RequestFirmwareData" /\ FirmwareData(id, cc, enough)
        \/ PhaseAcknowledged(id, cmd)

-----------------------------------------------------------------------------
(* Time passes between calls.                                              *)
Tick ==
    /\ ~panicked
    /\ t1_age' = LaterT1(1)
    /\ req' = Later(req, 1)
    /\ UNCHANGED <<fsm, update_comp, max_xfer_size, mode, panicked, reply, history>>

UaCommand ==
    \/ RequestUpdate
    \/ \E last \in BOOLEAN : PassComponentTable(last)
    \/ UpdateComponent
    \/ ActivateFirmware
    \/ CancelUpdateComponent
    \/ CancelUpdate
    \/ GetStatus \/ QueryDeviceIdentifiers \/ GetFirmwareParameters
    \/ ActivatePendingComponentImage
    \/ UpdateSecurityRevision

Next ==
    \/ UaCommand
    \/ fd_progress
    \/ handle_response
    \/ Tick

Spec == Init /\ [][Next]_vars
=============================================================================
