-------------------- MODULE FirmwareDeviceHistoryProofs --------------------
(***************************************************************************)
(* What the device remembers and reports, for every value of the           *)
(* constants: why update mode ended, what is left of a request after a     *)
(* timeout, what GetStatus says, where the chunk under way lies, and which *)
(* component the platform holds open.  Every step is one of few moves of   *)
(* the state machine; each invariant follows from the moves.  Then what a  *)
(* step may never do, and that the steps are those of UpdateFlow: a phase  *)
(* moves on with an earned success only (the safety invariant), so the     *)
(* platform has done the work UpdateFlow asks for.                         *)
(***************************************************************************)
EXTENDS FirmwareDeviceProofs

USE ComponentAssumption, NumberAssumption, CallbackAssumption, NoneAssumption

-----------------------------------------------------------------------------
(* The moves.                                                              *)

\* A command of the UA: it leaves the operation alone, or moves the device.
Stays ==
    /\ UNCHANGED <<fsm, req, mode, max_xfer_size>>
    /\ state = "ReadyXfer" \/ UNCHANGED <<update_comp, stage>>

Enters ==
    /\ state = "Idle"
    /\ UNCHANGED fsm \/ state' = "LearnComponents"
    /\ UNCHANGED <<req, mode, stage>>

Learns == state = "LearnComponents" /\ state' = "ReadyXfer" /\ UNCHANGED <<req, mode, stage>>

Accepts ==
    /\ state = "ReadyXfer" /\ state' = "Download"
    /\ req' = Request("Ready", FALSE, None) /\ mode' = Mode("Download", 0, 0)
    /\ stage' = "Fresh" /\ open' = update_comp' /\ reply' = "Success"

Activates ==
    /\ state = "ReadyXfer" /\ state' = "Idle"
    /\ prev_state' = "Activate" /\ reason' = "ActivateFw"
    /\ UNCHANGED <<req, mode, stage>>

Cancels ==
    /\ state \in InitiatorStates /\ UNCHANGED <<req, mode, stage>>
    /\ \/ state' = "ReadyXfer"
       \/ state' = "Idle" /\ prev_state' = state /\ reason' = "CancelUpdate"

\* Every command is one of these moves, and one that is not answered with a
\* success leaves the device where it is.
LEMMA UaMoves ==
    ASSUME TypeOK, UaCommand
    PROVE  /\ Stays \/ Enters \/ Learns \/ Accepts \/ Activates \/ Cancels
           /\ reply' \notin {None, "Success", "ActivationNotRequired"} =>
                  UNCHANGED <<fsm, req, mode>>
<1> DEFINE Goal ==
      /\ Stays \/ Enters \/ Learns \/ Accepts \/ Activates \/ Cancels
      /\ reply' \notin {None, "Success", "ActivationNotRequired"} =>
             UNCHANGED <<fsm, req, mode>>
<1> SUFFICES Goal
  OBVIOUS
<1>1. ASSUME NEW cc, Refuse(cc)
      PROVE  Goal
  BY <1>1 DEF Refuse, Stays, history
<1>2. CASE RequestUpdate
  <2>1. CASE Refuse("AlreadyInUpdateMode")
    BY <2>1, <1>1
  <2>2. CASE ~Refuse("AlreadyInUpdateMode")
    BY <1>2, <2>2 DEF RequestUpdate, is_update_mode, set_fd_state, Answer, Enters, fsm, history
  <2> QED
    BY <2>1, <2>2
<1>3. ASSUME NEW last \in BOOLEAN, PassComponentTable(last)
      PROVE  Goal
  <2>1. CASE Refuse("InvalidStateForCommand")
    BY <2>1, <1>1
  <2>2. CASE ~Refuse("InvalidStateForCommand")
    BY <1>3, <2>2 DEF PassComponentTable, set_fd_state, Answer, Stays, Learns, fsm, history
  <2> QED
    BY <2>1, <2>2
<1>4. CASE UpdateComponent
  <2>1. CASE Refuse("InvalidStateForCommand")
    BY <2>1, <1>1
  <2>2. CASE ~Refuse("InvalidStateForCommand")
    <3>1. state = "ReadyXfer" /\ UNCHANGED max_xfer_size
      BY <1>4, <2>2 DEF UpdateComponent
    <3>2. CASE ComponentAccepted
      BY <3>1, <3>2 DEF ComponentAccepted, set_fd_state, Answer, Stays, Accepts, fsm
    <3>3. CASE UNCHANGED <<fsm, req, mode>>
      BY <3>1, <3>3 DEF Stays
    <3> QED
      BY <1>4, <2>2, <3>2, <3>3 DEF UpdateComponent, ComponentDeclined
  <2> QED
    BY <2>1, <2>2
<1>5. CASE ActivateFirmware
  <2>1. CASE \E cc : Refuse(cc)
    BY <2>1, <1>1
  <2>2. CASE ~\E cc : Refuse(cc)
    BY <1>5, <2>2 DEF ActivateFirmware, Answer, Activates, history
  <2> QED
    BY <2>1, <2>2
<1>6. CASE CancelUpdateComponent
  <2>1. CASE \E cc : Refuse(cc)
    BY <2>1, <1>1
  <2>2. CASE ~\E cc : Refuse(cc)
    BY <1>6, <2>2
    DEF CancelUpdateComponent, ShouldCancel, set_fd_state, Answer, Stays, Cancels,
        InitiatorStates, fsm
  <2> QED
    BY <2>1, <2>2
<1>7. CASE CancelUpdate
  <2>1. CASE \E cc : Refuse(cc)
    BY <2>1, <1>1
  <2>2. CASE ~\E cc : Refuse(cc)
    <3>1. UNCHANGED fsm => Stays
      BY <1>7, <2>2 DEF CancelUpdate, Stays
    <3>2. CASE UNCHANGED fsm
      BY <1>7, <2>2, <3>1, <3>2 DEF CancelUpdate
    <3>3. CASE ~UNCHANGED fsm
      BY <1>7, <2>2, <3>3
      DEF CancelUpdate, ShouldCancel, set_fd_idle, Answer, Cancels, InitiatorStates, fsm
    <3> QED
      BY <3>2, <3>3
  <2> QED
    BY <2>1, <2>2
<1>8. CASE GetStatus \/ QueryDeviceIdentifiers \/ GetFirmwareParameters
           \/ ActivatePendingComponentImage \/ UpdateSecurityRevision
  BY <1>8, <1>1
  DEF GetStatus, QueryDeviceIdentifiers, GetFirmwareParameters, IdleCommand,
      ActivatePendingComponentImage, UpdateSecurityRevision, ReadOnly
<1> HIDE DEF Goal
<1> QED
  BY <1>2, <1>3, <1>4, <1>5, <1>6, <1>7, <1>8 DEF UaCommand

\* A poll, a response or the passing of time: it keeps the state and, outside
\* of an operation, the request; or a timeout ends update mode; or a phase
\* ends.
TimesOut ==
    /\ state \in InitiatorStates /\ state' = "Idle"
    /\ prev_state' = state /\ reason' = TimeoutReason[state]
    /\ req' = Request("Unused", FALSE, None)

Advances ==
    \/ state = "Download" /\ state' = "Verify"
    \/ state = "Verify" /\ state' = "Apply"
    \/ state = "Apply" /\ state' = "ReadyXfer"

LEMMA DeviceMoves ==
    ASSUME TypeOK, fd_progress \/ handle_response \/ Tick
    PROVE  \/ UNCHANGED fsm /\ (state \in InitiatorStates \/ SameRequest(req', req))
           \/ TimesOut
           \/ Advances
<1>1. CASE fd_progress
  <2>1. CASE ProgressNothing
    BY <2>1, UnchangedSame DEF ProgressNothing
  <2>2. CASE ProgressTimeout
    BY <2>2 DEF ProgressTimeout, set_fd_idle, TimesOut
  <2>3. CASE ProgressRequestData \/ ProgressTransferComplete \/ ProgressVerify
             \/ ProgressApply
    BY <2>3
    DEF ProgressRequestData, ProgressTransferComplete, ProgressVerify, ProgressApply,
        Progress, InitiatorStates
  <2> QED
    BY <1>1, <2>1, <2>2, <2>3 DEF fd_progress
<1>2. CASE handle_response
  <2>1. ASSUME NEW id, NEW cmd, ResponseUnexpected(id, cmd) \/ ResponseOutOfState(id, cmd)
        PROVE  UNCHANGED fsm /\ SameRequest(req', req)
    BY <2>1, UnchangedSame DEF ResponseUnexpected, ResponseOutOfState
  <2>2. ASSUME NEW id, NEW cc, NEW enough, FirmwareData(id, cc, enough)
        PROVE  UNCHANGED fsm /\ state \in InitiatorStates
    BY <2>2 DEF FirmwareData, InitiatorStates
  <2>3. ASSUME NEW id, NEW cmd \in FdCommands, PhaseAcknowledged(id, cmd)
        PROVE  (UNCHANGED fsm /\ state \in InitiatorStates) \/ Advances
    <3>1. state \in InitiatorStates
      BY <2>3 DEF PhaseAcknowledged, ServedIn, InitiatorStates
    <3> QED
      BY <2>3, <3>1 DEF PhaseAcknowledged, set_fd_state, Advances, InitiatorStates
  <2> QED
    BY <1>2, <2>1, <2>2, <2>3 DEF handle_response
<1>3. CASE Tick
  BY <1>3, LaterSame DEF Tick, TypeOK
<1> QED
  BY <1>1, <1>2, <1>3

-----------------------------------------------------------------------------
(* How update mode ended.                                                  *)

HistoryInv == ReasonMatchesHistory /\ TimeoutLeavesNoRequest

LEMMA NextHistoryInv ==
    ASSUME TypeOK, HistoryInv, [Next]_vars
    PROVE  HistoryInv'
<1> USE DEF HistoryInv, ReasonMatchesHistory, TimeoutLeavesNoRequest, InitiatorStates
<1>1. CASE UaCommand
  <2>1. CASE Stays \/ Enters
    BY <2>1 DEF Stays, Enters, fsm
  <2>2. CASE Learns \/ Accepts
    BY <2>2 DEF Learns, Accepts
  <2>3. CASE Activates \/ Cancels
    BY <2>3 DEF Activates, Cancels, Reasons
  <2> QED
    BY <1>1, <2>1, <2>2, <2>3, UaMoves
<1>2. CASE fd_progress \/ handle_response \/ Tick
  <2>1. CASE UNCHANGED fsm /\ (state \in InitiatorStates \/ SameRequest(req', req))
    BY <2>1 DEF fsm, SameRequest
  <2>2. CASE TimesOut
    BY <2>2 DEF TimesOut, TimeoutReason, Request, Reasons
  <2>3. CASE Advances
    BY <2>3 DEF Advances
  <2> QED
    BY <1>2, <2>1, <2>2, <2>3, DeviceMoves
<1>3. CASE UNCHANGED vars
  BY <1>3 DEF vars, fsm
<1> QED
  BY <1>1, <1>2, <1>3 DEF Next

LEMMA SpecHistoryInv == Spec => []HistoryInv
<1>1. Init => HistoryInv
  BY DEF Init, HistoryInv, ReasonMatchesHistory, TimeoutLeavesNoRequest, Request, Reasons
<1>2. TypeOK /\ HistoryInv /\ [Next]_vars => HistoryInv'
  BY NextHistoryInv
<1> QED
  BY <1>1, <1>2, TypeCorrect, PTL DEF Spec

\* The reason and the previous state that GetStatus gives in Idle agree.
THEOREM ReasonAgrees == Spec => []ReasonMatchesHistory
<1>1. HistoryInv => ReasonMatchesHistory
  BY DEF HistoryInv
<1> QED
  BY <1>1, SpecHistoryInv, PTL

\* After a T1 timeout nothing is left that a late response could match.
THEOREM TimeoutRetires == Spec => []TimeoutLeavesNoRequest
<1>1. HistoryInv => TimeoutLeavesNoRequest
  BY DEF HistoryInv
<1> QED
  BY <1>1, SpecHistoryInv, PTL

-----------------------------------------------------------------------------
(* What GetStatus reports of the request.                                  *)

\* GetStatus calls no operation idle and no failure a success.
THEOREM StatusFits == Spec => []StatusFitsState
<1>1. TypeOK /\ Inv => StatusFitsState
  BY DEF TypeOK, FdReq, Inv, RequestMatchesState, StatusFitsState, AuxState, AuxStateStatus
<1> QED
  BY <1>1, SpecInv, PTL
-----------------------------------------------------------------------------
(* The chunk under way.                                                    *)

\* What the steps of the device do to the chunk: a request for data is the only
\* one that is sent before the transfer is complete, and it is for a chunk that
\* was validated.
LEMMA NextChunk ==
    ASSUME OverflowChecks, TypeOK, ChunkInWindow, [Next]_vars
    PROVE  ChunkInWindow'
<1> USE DEF ChunkInWindow
<1>1. ASSUME UNCHANGED <<update_comp, max_xfer_size, mode>>,
             state' = "Download" /\ req'.state = "Sent" /\ ~req'.complete =>
                 state = "Download" /\ req.state = "Sent" /\ ~req.complete
      PROVE  ChunkInWindow'
  BY <1>1 DEF CompImageSize
<1>2. CASE UaCommand
  <2>1. CASE Stays \/ Enters \/ Learns \/ Activates \/ Cancels
    BY <2>1, <1>1 DEF Stays, Enters, Learns, Activates, Cancels, fsm, InitiatorStates
  <2>2. CASE Accepts
    BY <2>2 DEF Accepts, Request
  <2> QED
    BY <1>2, <2>1, <2>2, UaMoves
<1>3. CASE fd_progress
  <2>1. CASE ProgressNothing
    BY <2>1, <1>1 DEF ProgressNothing, fsm
  <2>2. CASE ProgressTimeout
    BY <2>2, <1>1 DEF ProgressTimeout, set_fd_idle, fsm
  <2>3. CASE ProgressRequestData
    <3>1. UNCHANGED <<update_comp, max_xfer_size>> /\ state = "Download" /\ ~req.complete
      BY <2>3 DEF ProgressRequestData
    <3>2. CASE FailAfterAlloc(0) /\ UNCHANGED mode
      BY <3>1, <3>2, <1>1, FailAfterAllocSame DEF SameRequest
    <3>3. ASSUME NEW offset \in Nat, NEW length \in Nat,
                 ~ChunkOverflows(offset, length), ChunkAllowed(offset, length),
                 mode' = [mode EXCEPT !.offset = offset,
                                      !.length = Capped(length, max_xfer_size)]
          PROVE  ChunkInWindow'
      <4>1. /\ mode'.offset = offset
            /\ mode'.length = Capped(length, max_xfer_size)
        BY <3>3 DEF TypeOK, InitiatorMode
      <4>2. CompImageSize \in Nat
        BY DEF CompImageSize, TypeOK
      <4>3. offset + length < U32 /\ CompImageSize + MaxPadding < U32
        BY <3>3, <4>2 DEF ChunkOverflows, ChunkAllowed
      <4>4. offset + length <= CompImageSize + MaxPadding
        BY <3>3, <4>2, <4>3 DEF ChunkAllowed
      <4>5. mode'.length <= max_xfer_size /\ mode'.length <= length
        BY <4>1 DEF Capped, TypeOK
      <4>6. mode'.length \in Nat
        BY <4>1 DEF Capped, TypeOK
      <4>7. CompImageSize' = CompImageSize
        BY <3>1 DEF CompImageSize
      <4> QED
        BY <3>1, <4>1, <4>2, <4>4, <4>5, <4>6, <4>7
    <3>4. ASSUME NEW range \in DownloadRanges
          PROVE  range[1] % U32 \in Nat /\ range[2] % U32 \in Nat
      BY <3>4
    <3> QED
      BY <2>3, <3>2, <3>3, <3>4 DEF ProgressRequestData
  <2>4. CASE ProgressTransferComplete
    <3>1. CASE FailAfterAlloc(0)
      BY <2>4, <3>1, <1>1, FailAfterAllocSame DEF ProgressTransferComplete, SameRequest, fsm
    <3>2. CASE Send("TransferComplete", TRUE, req.result)
      BY <3>2 DEF Send
    <3> QED
      BY <2>4, <3>1, <3>2 DEF ProgressTransferComplete
  <2>5. CASE ProgressVerify \/ ProgressApply
    BY <2>5 DEF ProgressVerify, ProgressApply, Progress, fsm
  <2> QED
    BY <1>3, <2>1, <2>2, <2>3, <2>4, <2>5 DEF fd_progress
<1>4. CASE handle_response
  <2>1. ASSUME NEW id, NEW cmd, ResponseUnexpected(id, cmd) \/ ResponseOutOfState(id, cmd)
        PROVE  ChunkInWindow'
    BY <2>1, <1>1 DEF ResponseUnexpected, ResponseOutOfState, fsm
  <2>2. ASSUME NEW id, NEW cc, NEW enough, FirmwareData(id, cc, enough)
        PROVE  ChunkInWindow'
    <3>1. UNCHANGED req \/ req'.state = "Ready"
      BY <2>2 DEF FirmwareData, Request
    <3> QED
      BY <2>2, <3>1, <1>1 DEF FirmwareData, fsm
  <2>3. ASSUME NEW id, NEW cmd, PhaseAcknowledged(id, cmd)
        PROVE  ChunkInWindow'
    BY <2>3 DEF PhaseAcknowledged, Request
  <2> QED
    BY <1>4, <2>1, <2>2, <2>3 DEF handle_response
<1>5. CASE Tick
  BY <1>5, <1>1, LaterSame DEF Tick, TypeOK, SameRequest, fsm
<1>6. CASE UNCHANGED vars
  BY <1>6, <1>1 DEF vars, fsm
<1> QED
  BY <1>2, <1>3, <1>4, <1>5, <1>6 DEF Next

\* In a build that checks for overflow the chunk under way lies inside the image
\* and its padding; without the checks the sums of get_fd_download_chunk wrap.
THEOREM ChunkStaysInside ==
    ASSUME OverflowChecks
    PROVE  Spec => []ChunkInWindow
<1>1. Init => ChunkInWindow
  BY DEF Init, ChunkInWindow
<1>2. TypeOK /\ ChunkInWindow /\ [Next]_vars => ChunkInWindow'
  BY NextChunk
<1> QED
  BY <1>1, <1>2, TypeCorrect, PTL DEF Spec

-----------------------------------------------------------------------------
(* The component the platform holds open.                                  *)

\* The calls that may fail after the platform was told to cancel.
AfterCancel == {"encode", "get_non_functional_component_info"}

LEMMA NextOpen ==
    ASSUME AfterCancel \cap MayFail = {}, TypeOK, ActiveComponentOpen, [Next]_vars
    PROVE  ActiveComponentOpen'
<1> USE DEF ActiveComponentOpen
<1>1. ASSUME UNCHANGED open,
             state' \in InitiatorStates => state \in InitiatorStates /\ UNCHANGED update_comp
      PROVE  ActiveComponentOpen'
  BY <1>1
<1>2. CASE UaCommand
  <2>1. CASE Accepts
    BY <2>1 DEF Accepts
  <2>2. CASE Enters \/ Learns \/ Activates \/ Cancels
    BY <2>2 DEF Enters, Learns, Activates, Cancels, fsm, InitiatorStates
  <2>3. CASE Stays
    <3>1. CASE state \notin InitiatorStates
      BY <2>3, <3>1 DEF Stays, fsm
    <3>2. CASE state \in InitiatorStates
      <4>1. UNCHANGED update_comp /\ UNCHANGED state
        BY <2>3, <3>2 DEF Stays, InitiatorStates, fsm
      <4>2. UNCHANGED open
        <5>1. ASSUME NEW cc, Refuse(cc)
              PROVE  UNCHANGED open
          BY <5>1 DEF Refuse, history
        <5>2. ~CanFail("encode") /\ ~CanFail("get_non_functional_component_info")
          BY DEF CanFail, AfterCancel
        <5>3. CASE CancelUpdateComponent
          BY <3>2, <4>1, <5>1, <5>2, <5>3
          DEF CancelUpdateComponent, set_fd_state, InitiatorStates
        <5>4. CASE CancelUpdate
          BY <3>2, <4>1, <5>1, <5>2, <5>4
          DEF CancelUpdate, set_fd_idle, InitiatorStates
        <5>5. CASE RequestUpdate \/ (\E last \in BOOLEAN : PassComponentTable(last))
                   \/ UpdateComponent \/ ActivateFirmware
          BY <3>2, <5>1, <5>5
          DEF RequestUpdate, is_update_mode, PassComponentTable, UpdateComponent,
              ActivateFirmware, InitiatorStates
        <5>6. CASE GetStatus \/ QueryDeviceIdentifiers \/ GetFirmwareParameters
                   \/ ActivatePendingComponentImage \/ UpdateSecurityRevision
          BY <5>1, <5>6
          DEF GetStatus, QueryDeviceIdentifiers, GetFirmwareParameters, IdleCommand,
              ActivatePendingComponentImage, UpdateSecurityRevision, ReadOnly
        <5> QED
          BY <1>2, <5>3, <5>4, <5>5, <5>6 DEF UaCommand
      <4> QED
        BY <1>1, <3>2, <4>1, <4>2
    <3> QED
      BY <3>1, <3>2
  <2> QED
    BY <1>2, <2>1, <2>2, <2>3, UaMoves
<1>3. CASE fd_progress
  <2>1. CASE ProgressTimeout
    BY <2>1 DEF ProgressTimeout, set_fd_idle, fsm, InitiatorStates
  <2>2. CASE ProgressNothing \/ ProgressRequestData \/ ProgressTransferComplete
             \/ ProgressVerify \/ ProgressApply
    BY <2>2, <1>1
    DEF ProgressNothing, ProgressRequestData, ProgressTransferComplete, ProgressVerify,
        ProgressApply, Progress, fsm, history
  <2> QED
    BY <1>3, <2>1, <2>2 DEF fd_progress
<1>4. CASE handle_response
  <2>1. ASSUME NEW id, NEW cmd, ResponseUnexpected(id, cmd) \/ ResponseOutOfState(id, cmd)
        PROVE  ActiveComponentOpen'
    BY <2>1, <1>1 DEF ResponseUnexpected, ResponseOutOfState, fsm, history
  <2>2. ASSUME NEW id, NEW cc, NEW enough, FirmwareData(id, cc, enough)
        PROVE  ActiveComponentOpen'
    BY <2>2, <1>1 DEF FirmwareData, fsm
  <2>3. ASSUME NEW id, NEW cmd \in FdCommands, PhaseAcknowledged(id, cmd)
        PROVE  ActiveComponentOpen'
    <3>1. state \in InitiatorStates /\ UNCHANGED update_comp
      BY <2>3 DEF PhaseAcknowledged, ServedIn, InitiatorStates
    <3>2. UNCHANGED open \/ state' = "ReadyXfer"
      BY <2>3 DEF PhaseAcknowledged, set_fd_state
    <3> QED
      BY <1>1, <3>1, <3>2 DEF InitiatorStates
  <2> QED
    BY <1>4, <2>1, <2>2, <2>3 DEF handle_response
<1>5. CASE Tick \/ UNCHANGED vars
  BY <1>5, <1>1 DEF Tick, vars, fsm, history
<1> QED
  BY <1>2, <1>3, <1>4, <1>5 DEF Next

\* If nothing fails once the platform was told to cancel, the device works on
\* the component the platform holds open, whatever else fails.
THEOREM WorksOnTheOpenComponent ==
    ASSUME AfterCancel \cap MayFail = {}
    PROVE  Spec => []ActiveComponentOpen
<1>1. Init => ActiveComponentOpen
  BY DEF Init, ActiveComponentOpen, InitiatorStates
<1>2. TypeOK /\ ActiveComponentOpen /\ [Next]_vars => ActiveComponentOpen'
  BY NextOpen
<1> QED
  BY <1>1, <1>2, TypeCorrect, PTL DEF Spec

-----------------------------------------------------------------------------
(* The ID on the wire.                                                     *)

\* Nothing fails once an ID was allocated: not the query for a range, nor its
\* check, nor the encoder.
SafeAfterAlloc ==
    /\ {"query_download_offset_and_length", "encode"} \cap MayFail = {}
    /\ \A range \in DownloadRanges, comp \in Components :
          /\ range[1] % U32 <= ImageSize[comp]
          /\ (range[1] % U32) + (range[2] % U32) <= ImageSize[comp] + MaxPadding
          /\ ImageSize[comp] + MaxPadding < U32

\* The ID a response has to carry is the one that was sent: not so if the poll
\* may fail in between.
OutstandingIsOnWire == req.state = "Sent" => req.instance_id = wire_id

\* What is sent of a transfer has a result that can be sent again.
WireInv ==
    /\ OutstandingIsOnWire
    /\ state \in InitiatorStates => update_comp \in Components
    /\ req.state = "Sent" /\ req.command = "TransferComplete" =>
          req.result \in TransferResultBytes

\* A step that keeps the record and the ID on the wire.
LEMMA WireKept ==
    ASSUME WireInv, UNCHANGED wire_id,
           state' \in InitiatorStates => state \in InitiatorStates /\ UNCHANGED update_comp,
           req'.state = "Sent" =>
               /\ req.state = "Sent" /\ req'.instance_id = req.instance_id
               /\ req'.command = req.command /\ req'.result = req.result
    PROVE  WireInv'
BY DEF WireInv, OutstandingIsOnWire

\* A request that is sent.
LEMMA WireSend ==
    ASSUME WireInv, UNCHANGED <<state, update_comp>>,
           NEW cmd, NEW complete, NEW result, Send(cmd, complete, result),
           cmd = "TransferComplete" => result \in TransferResultBytes
    PROVE  WireInv'
BY DEF WireInv, OutstandingIsOnWire, Send

\* A request that has not been sent may lose its ID.
LEMMA WireUnsent ==
    ASSUME TypeOK, WireInv, UNCHANGED <<state, update_comp>>,
           NEW d \in Nat, FailAfterAlloc(d), req.state # "Sent"
    PROVE  WireInv'
<1>1. req'.state # "Sent" /\ UNCHANGED wire_id
  BY FailAfterAllocSame DEF SameRequest, FailAfterAlloc
<1> QED
  BY <1>1, WireKept

\* An age changes nothing that is compared.
LEMMA LaterKeepsId ==
    ASSUME NEW r \in FdReq, NEW d \in Nat
    PROVE  /\ Later(r, d).state = r.state /\ Later(r, d).command = r.command
           /\ Later(r, d).result = r.result /\ Later(r, d).instance_id = r.instance_id
BY DEF Later, FdReq

\* The range of a request in an operation is valid.
LEMMA RangeValid ==
    ASSUME SafeAfterAlloc, TypeOK, WireInv, state = "Download", NEW range \in DownloadRanges
    PROVE  /\ ~ChunkOverflows(range[1] % U32, range[2] % U32)
           /\ ChunkAllowed(range[1] % U32, range[2] % U32)
<1>1. update_comp \in Components /\ CompImageSize = ImageSize[update_comp]
  BY DEF WireInv, InitiatorStates, CompImageSize
<1>2. range[1] % U32 \in Nat /\ range[2] % U32 \in Nat /\ CompImageSize \in Nat
  BY <1>1
<1>3. /\ range[1] % U32 <= CompImageSize
      /\ (range[1] % U32) + (range[2] % U32) <= CompImageSize + MaxPadding
      /\ CompImageSize + MaxPadding < U32
  BY <1>1 DEF SafeAfterAlloc
<1> DEFINE offset == range[1] % U32
           length == range[2] % U32
<1> HIDE DEF offset, length
<1>4. offset + length < U32 /\ offset + length \in Nat /\ CompImageSize + MaxPadding \in Nat
  BY <1>2, <1>3 DEF offset, length
<1>5. (offset + length) % U32 = offset + length
  BY <1>4
<1>6. (CompImageSize + MaxPadding) % U32 = CompImageSize + MaxPadding
  BY <1>3, <1>4
<1>7. ~ChunkOverflows(offset, length) /\ ChunkAllowed(offset, length)
  BY <1>2, <1>3, <1>4, <1>5, <1>6 DEF offset, length, ChunkOverflows, ChunkAllowed
<1> QED
  BY <1>7 DEF offset, length

LEMMA NextWire ==
    ASSUME SafeAfterAlloc, TypeOK, Inv, WireInv, [Next]_vars
    PROVE  WireInv'
<1>1. ~CanFail("query_download_offset_and_length") /\ ~CanFail("encode")
  BY DEF SafeAfterAlloc, CanFail
<1>2. CASE UaCommand
  <2>1. UNCHANGED wire_id
    BY <1>2
    DEF UaCommand, RequestUpdate, PassComponentTable, UpdateComponent, ComponentAccepted,
        ComponentDeclined, ActivateFirmware, CancelUpdateComponent, CancelUpdate,
        GetStatus, QueryDeviceIdentifiers, GetFirmwareParameters,
        ActivatePendingComponentImage, UpdateSecurityRevision, IdleCommand, ReadOnly,
        Refuse, history
  <2>2. CASE Stays \/ Enters \/ Learns \/ Activates \/ Cancels
    <3>1. UNCHANGED req /\ (state' \in InitiatorStates =>
                                state \in InitiatorStates /\ UNCHANGED update_comp)
      BY <2>2 DEF Stays, Enters, Learns, Activates, Cancels, InitiatorStates, fsm
    <3> QED
      BY <2>1, <3>1, WireKept
  <2>3. CASE Accepts
    <3>1. state = "ReadyXfer" /\ state' = "Download" /\ req'.state # "Sent"
      BY <2>3 DEF Accepts, Request
    <3>2. CASE UpdateComponent
      <4>1. update_comp' \in Components
        BY <3>1, <3>2 DEF UpdateComponent, Refuse, fsm
      <4> QED
        BY <3>1, <4>1 DEF WireInv, OutstandingIsOnWire
    <3>3. CASE ~UpdateComponent
      <4>1. state' # "Download"
        BY <1>2, <3>1, <3>3
        DEF UaCommand, RequestUpdate, is_update_mode, PassComponentTable, set_fd_state,
            ActivateFirmware, CancelUpdateComponent, CancelUpdate, set_fd_idle, GetStatus,
            QueryDeviceIdentifiers, GetFirmwareParameters, IdleCommand,
            ActivatePendingComponentImage, UpdateSecurityRevision, ReadOnly, Refuse, fsm
      <4> QED
        BY <3>1, <4>1
    <3> QED
      BY <3>2, <3>3
  <2> QED
    BY <1>2, <2>2, <2>3, UaMoves
<1>3. CASE fd_progress
  <2>1. CASE ProgressNothing \/ ProgressTimeout
    <3>1. /\ UNCHANGED <<wire_id, update_comp>> /\ (UNCHANGED req \/ req'.state # "Sent")
          /\ UNCHANGED state \/ state' = "Idle"
      BY <2>1
      DEF ProgressNothing, ProgressTimeout, set_fd_idle, Request, fsm, history
    <3> QED
      BY <3>1, WireKept DEF InitiatorStates
  <2>2. CASE ProgressRequestData
    <3>1. UNCHANGED <<state, update_comp>> /\ state = "Download"
      BY <2>2 DEF ProgressRequestData, fsm
    <3>2. Send("RequestFirmwareData", FALSE, None)
      BY <1>1, <2>2, <3>1, RangeValid DEF ProgressRequestData
    <3> QED
      BY <3>1, <3>2, WireSend
  <2>3. CASE ProgressTransferComplete
    <3>1. UNCHANGED <<state, update_comp>> /\ state = "Download" /\ req.complete
      BY <2>3 DEF ProgressTransferComplete, fsm
    <3>2. CASE req.result \in TransferResultBytes
      <4>1. req.result # None
        BY <3>2 DEF TransferResultBytes
      <4>2. Send("TransferComplete", TRUE, req.result)
        BY <1>1, <2>3, <3>2, <4>1 DEF ProgressTransferComplete
      <4> QED
        BY <3>1, <3>2, <4>2, WireSend
    <3>3. CASE req.result \notin TransferResultBytes
      <4>1. FailAfterAlloc(0)
        BY <2>3, <3>3 DEF ProgressTransferComplete
      <4>2. req.state # "Sent"
        BY <3>1, <3>3
        DEF WireInv, Inv, RequestMatchesState, CompletionOf, InitiatorStates
      <4> QED
        BY <3>1, <4>1, <4>2, WireUnsent
    <3> QED
      BY <3>2, <3>3
  <2>4. ASSUME NEW st, NEW callback, NEW results, NEW cmd, NEW done,
               Progress(st, callback, results, cmd, done), cmd # "TransferComplete"
        PROVE  WireInv'
    <3>1. UNCHANGED <<state, update_comp>>
      BY <2>4 DEF Progress, fsm
    <3>2. ASSUME NEW d \in WorkTimes, req' = Later(req, d), UNCHANGED wire_id
          PROVE  WireInv'
      BY <3>1, <3>2, LaterKeepsId, WireKept DEF TypeOK
    <3>3. ASSUME NEW result, Send(cmd, TRUE, result)
          PROVE  WireInv'
      BY <2>4, <3>1, <3>3, WireSend
    <3> QED
      BY <1>1, <2>4, <3>2, <3>3 DEF Progress
  <2> QED
    BY <1>3, <2>1, <2>2, <2>3, <2>4 DEF fd_progress, ProgressVerify, ProgressApply
<1>4. CASE handle_response
  <2>1. UNCHANGED <<wire_id, update_comp>> /\ (UNCHANGED req \/ req'.state # "Sent")
    BY <1>4
    DEF handle_response, ResponseUnexpected, ResponseOutOfState, FirmwareData,
        PhaseAcknowledged, Request, history
  <2>2. state' \in InitiatorStates => state \in InitiatorStates
    BY <1>4, DeviceMoves DEF TimesOut, Advances, InitiatorStates, fsm
  <2> QED
    BY <2>1, <2>2, WireKept
<1>5. CASE Tick
  BY <1>5, LaterKeepsId, WireKept DEF Tick, TypeOK, fsm, history
<1>6. CASE UNCHANGED vars
  BY <1>6, WireKept DEF vars, fsm, history
<1> QED
  BY <1>2, <1>3, <1>4, <1>5, <1>6 DEF Next

\* A request that is due stays due, however late it gets.
LEMMA LaterKeepsDue ==
    ASSUME NEW r \in FdReq, NEW d \in Nat, r.sent_time # None, r.sent_time >= T2
    PROVE  Later(r, d).sent_time = T2
<1>1. r.sent_time \in 0 .. T2 /\ T2 \in Nat
  BY DEF FdReq
<1>2. Capped(r.sent_time + d, T2) = T2
  BY <1>1 DEF Capped
<1> QED
  BY <1>2 DEF Later, FdReq

\* A step that keeps an outstanding request, its ID and how due it is.
LEMMA ResentKept ==
    ASSUME UnmatchableIsResent, UNCHANGED wire_id,
           req'.state = "Sent" =>
               /\ req.state = "Sent" /\ req'.instance_id = req.instance_id
               /\ req.sent_time >= T2 => req'.sent_time >= T2
    PROVE  UnmatchableIsResent'
BY DEF UnmatchableIsResent, should_send_fd_request

\* Time passes.
LEMMA ResentLater ==
    ASSUME TypeOK, Inv, UnmatchableIsResent, UNCHANGED wire_id,
           NEW d \in Nat, req' = Later(req, d)
    PROVE  UnmatchableIsResent'
<1>1. req'.state = req.state /\ req'.instance_id = req.instance_id
  BY LaterKeepsId DEF TypeOK
<1>2. ASSUME req.state = "Sent", req.sent_time >= T2
      PROVE  req'.sent_time >= T2
  <2>1. req.sent_time # None
    BY <1>2 DEF Inv, RequestMatchesState
  <2>2. req'.sent_time = T2
    BY <1>2, <2>1, LaterKeepsDue DEF TypeOK
  <2> QED
    BY <2>2
<1> QED
  BY <1>1, <1>2, ResentKept

\* A call that fails with a new ID is one for a request that was due.
LEMMA ResentAlloc ==
    ASSUME TypeOK, Inv, should_send_fd_request, NEW d \in Nat, FailAfterAlloc(d)
    PROVE  UnmatchableIsResent'
<1> DEFINE r == [req EXCEPT !.instance_id = NextInstanceId]
<1>1. r \in FdReq /\ r.state = req.state /\ r.sent_time = req.sent_time
  BY LaterType, NextInstanceIdType DEF TypeOK, FdReq
<1>2. req' = Later(r, d)
  BY DEF FailAfterAlloc
<1> HIDE DEF r
<1>3. req'.state = req.state
  BY <1>1, <1>2, LaterKeepsId
<1>4. ASSUME req'.state = "Sent"
      PROVE  req'.sent_time >= T2
  <2>1. req.sent_time >= T2 /\ req.sent_time # None
    BY <1>3, <1>4 DEF should_send_fd_request, Inv, RequestMatchesState
  <2>2. req'.sent_time = T2
    BY <1>1, <1>2, <2>1, LaterKeepsDue
  <2> QED
    BY <2>2
<1> QED
  BY <1>4 DEF UnmatchableIsResent, should_send_fd_request

LEMMA NextResent ==
    ASSUME TypeOK, Inv, UnmatchableIsResent, [Next]_vars
    PROVE  UnmatchableIsResent'
<1>1. CASE UaCommand
  <2>1. UNCHANGED wire_id
    BY <1>1
    DEF UaCommand, RequestUpdate, PassComponentTable, UpdateComponent, ComponentAccepted,
        ComponentDeclined, ActivateFirmware, CancelUpdateComponent, CancelUpdate,
        GetStatus, QueryDeviceIdentifiers, GetFirmwareParameters,
        ActivatePendingComponentImage, UpdateSecurityRevision, IdleCommand, ReadOnly,
        Refuse, history
  <2>2. UNCHANGED req \/ req'.state # "Sent"
    BY <1>1, UaMoves
    DEF Stays, Enters, Learns, Accepts, Activates, Cancels, Request
  <2> QED
    BY <2>1, <2>2, ResentKept
<1>2. CASE fd_progress
  <2>1. CASE ProgressNothing \/ ProgressTimeout
    <3>1. UNCHANGED wire_id /\ (UNCHANGED req \/ req'.state # "Sent")
      BY <2>1 DEF ProgressNothing, ProgressTimeout, Request, history
    <3> QED
      BY <3>1, ResentKept
  <2>2. ASSUME NEW cmd, NEW complete, NEW result, Send(cmd, complete, result)
        PROVE  UnmatchableIsResent'
    BY <2>2 DEF Send, UnmatchableIsResent
  <2>3. CASE ProgressRequestData \/ ProgressTransferComplete
    <3>1. should_send_fd_request
      BY <2>3 DEF ProgressRequestData, ProgressTransferComplete
    <3>2. \/ FailAfterAlloc(0)
          \/ Send("RequestFirmwareData", FALSE, None)
          \/ Send("TransferComplete", TRUE, req.result)
      BY <2>3 DEF ProgressRequestData, ProgressTransferComplete
    <3> QED
      BY <2>2, <3>1, <3>2, ResentAlloc
  <2>4. ASSUME NEW st, NEW callback, NEW results, NEW cmd, NEW done,
               Progress(st, callback, results, cmd, done)
        PROVE  UnmatchableIsResent'
    <3>1. should_send_fd_request
      BY <2>4 DEF Progress
    <3>2. \/ \E d \in WorkTimes \cup {0} : FailAfterAlloc(d)
          \/ \E d \in WorkTimes : req' = Later(req, d) /\ UNCHANGED wire_id
          \/ \E result : Send(cmd, TRUE, result)
      BY <2>4 DEF Progress
    <3> QED
      BY <2>2, <3>1, <3>2, ResentAlloc, ResentLater
  <2> QED
    BY <1>2, <2>1, <2>3, <2>4 DEF fd_progress, ProgressVerify, ProgressApply
<1>3. CASE handle_response
  <2>1. UNCHANGED wire_id /\ (UNCHANGED req \/ req'.state # "Sent")
    BY <1>3
    DEF handle_response, ResponseUnexpected, ResponseOutOfState, FirmwareData,
        PhaseAcknowledged, Request, history
  <2> QED
    BY <2>1, ResentKept
<1>4. CASE Tick
  BY <1>4, ResentLater DEF Tick, history
<1>5. CASE UNCHANGED vars
  BY <1>5, ResentKept DEF vars, history
<1> QED
  BY <1>1, <1>2, <1>3, <1>4, <1>5 DEF Next

\* Whatever fails, and for all numbers: a request whose answer can no longer
\* match, because a poll failed after it had replaced the ID, is due to be sent
\* again.
THEOREM UnmatchableIsDue == Spec => []UnmatchableIsResent
<1>1. Init => UnmatchableIsResent
  BY DEF Init, Request, UnmatchableIsResent
<1>2. TypeOK /\ Inv /\ UnmatchableIsResent /\ [Next]_vars => UnmatchableIsResent'
  BY NextResent
<1> QED
  BY <1>1, <1>2, SpecInv, PTL DEF Spec

-----------------------------------------------------------------------------
(* Steps.                                                                  *)

\* A poll that finds a request that has failed, and a response to one, do
\* nothing.
LEMMA FailedIsQuiet ==
    ASSUME req.state = "Failed", fd_progress \/ handle_response
    PROVE  UNCHANGED req
BY DEF fd_progress, ProgressNothing, ProgressTimeout, ProgressRequestData,
       ProgressTransferComplete, ProgressVerify, ProgressApply, Progress, T1Expired,
       should_send_fd_request, handle_response, ResponseUnexpected, ResponseOutOfState,
       FirmwareData, PhaseAcknowledged, Expected

\* Only a new component takes the device out of a failed request.
THEOREM FailureIsFinal == Spec => FailedStaysFailed
<1>1. ASSUME TypeOK, [Next]_vars, req.state = "Failed", req'.state # "Failed"
      PROVE  state = "ReadyXfer" /\ state' = "Download"
  <2>1. CASE UaCommand
    BY <1>1, <2>1, UaMoves DEF Stays, Enters, Learns, Accepts, Activates, Cancels
  <2>2. CASE fd_progress \/ handle_response
    BY <1>1, <2>2, FailedIsQuiet
  <2>3. CASE Tick
    BY <1>1, <2>3, LaterSame DEF Tick, TypeOK, SameRequest
  <2>4. CASE UNCHANGED vars
    BY <1>1, <2>4 DEF vars
  <2> QED
    BY <1>1, <2>1, <2>2, <2>3, <2>4 DEF Next
<1>2. TypeOK /\ [Next]_vars =>
          [req.state = "Failed" /\ req'.state # "Failed" =>
              state = "ReadyXfer" /\ state' = "Download"]_vars
  BY <1>1
<1> QED
  BY <1>2, TypeCorrect, PTL DEF Spec, FailedStaysFailed

\* What an answer other than a success leaves alone.
THEOREM RefusalIsHarmless == Spec => RefusalChangesNothing
<1> DEFINE Kept ==
      /\ UNCHANGED <<fsm, mode>>
      /\ [req' EXCEPT !.sent_time = None] = [req EXCEPT !.sent_time = None]
<1>1. ASSUME TypeOK, [Next]_vars,
             reply' \notin {None, "Success", "ActivationNotRequired"}
      PROVE  Kept
  <2>1. CASE UaCommand
    BY <1>1, <2>1, UaMoves
  <2>2. CASE fd_progress \/ handle_response
    <3>1. reply' = None
      BY <2>2
      DEF fd_progress, ProgressNothing, ProgressTimeout, ProgressRequestData,
          ProgressTransferComplete, ProgressVerify, ProgressApply, Progress,
          handle_response, ResponseUnexpected, ResponseOutOfState, FirmwareData,
          PhaseAcknowledged
    <3> QED
      BY <1>1, <3>1
  <2>3. CASE Tick
    <3>1. req \in FdReq
      BY <1>1 DEF TypeOK
    <3>2. [Later(req, 1) EXCEPT !.sent_time = None] = [req EXCEPT !.sent_time = None]
      BY <3>1 DEF Later, FdReq
    <3> QED
      BY <2>3, <3>2 DEF Tick
  <2>4. CASE UNCHANGED vars
    BY <2>4 DEF vars
  <2> QED
    BY <1>1, <2>1, <2>2, <2>3, <2>4 DEF Next
<1>2. TypeOK /\ [Next]_vars =>
          [reply' \notin {None, "Success", "ActivationNotRequired"} => Kept]_vars
  BY <1>1
<1> QED
  BY <1>2, TypeCorrect, PTL DEF Spec, RefusalChangesNothing

\* A request sent again is the TransferComplete that was sent before.
LEMMA ResendKeepsResult ==
    ASSUME TypeOK, Inv, fd_progress,
           req.state = "Sent", req.command = "TransferComplete", req'.state = "Sent"
    PROVE  req'.result = req.result
<1>1. state \in InitiatorStates =>
          state = "Download" /\ req.complete
  BY DEF Inv, RequestMatchesState, CompletionOf, InitiatorStates
<1>2. CASE ProgressNothing
  BY <1>2 DEF ProgressNothing
<1>3. CASE ProgressTimeout
  BY <1>3 DEF ProgressTimeout, Request
<1>4. CASE ProgressTransferComplete
  <2>1. CASE FailAfterAlloc(0)
    BY <2>1, FailAfterAllocSame DEF SameRequest
  <2>2. CASE Send("TransferComplete", TRUE, req.result)
    BY <2>2 DEF Send
  <2> QED
    BY <1>4, <2>1, <2>2 DEF ProgressTransferComplete
<1>5. CASE ProgressRequestData \/ ProgressVerify \/ ProgressApply
  BY <1>1, <1>5
  DEF ProgressRequestData, ProgressVerify, ProgressApply, Progress, InitiatorStates
<1> QED
  BY <1>2, <1>3, <1>4, <1>5 DEF fd_progress

\* However often TransferComplete is sent, it reports the same result.
THEOREM TransferResultKept == Spec => TransferResultStable
<1>1. ASSUME TypeOK, Inv, [Next]_vars,
             req.state = "Sent", req.command = "TransferComplete", req'.state = "Sent"
      PROVE  req'.result = req.result
  <2>1. CASE UaCommand
    BY <1>1, <2>1, UaMoves
    DEF Stays, Enters, Learns, Accepts, Activates, Cancels, Request
  <2>2. CASE fd_progress
    BY <1>1, <2>2, ResendKeepsResult
  <2>3. CASE handle_response
    BY <1>1, <2>3
    DEF handle_response, ResponseUnexpected, ResponseOutOfState, FirmwareData,
        PhaseAcknowledged, Request
  <2>4. CASE Tick
    BY <1>1, <2>4, LaterSame DEF Tick, TypeOK, SameRequest
  <2>5. CASE UNCHANGED vars
    BY <2>5 DEF vars
  <2> QED
    BY <1>1, <2>1, <2>2, <2>3, <2>4, <2>5 DEF Next
<1>2. TypeOK /\ Inv /\ [Next]_vars =>
          [req.state = "Sent" /\ req.command = "TransferComplete" /\ req'.state = "Sent"
              => req'.result = req.result]_vars
  BY <1>1
<1> QED
  BY <1>2, SpecInv, PTL DEF Spec, TransferResultStable

-----------------------------------------------------------------------------
(* The flow of an update.                                                  *)

\* What a download has reached.
Downloading == state = "Download" => stage \in {"Fresh", "Downloaded"}

\* A step of the device is a step of UpdateFlow or changes nothing it shows.
LEMMA DeviceFlow ==
    ASSUME TypeOK, Inv, Downloading, fd_progress \/ handle_response \/ Tick
    PROVE  [Flow!Next]_(Flow!vars) /\ Downloading'
<1> USE DEF Downloading, InitiatorStates
<1>1. ASSUME UNCHANGED <<state, stage>>
      PROVE  UNCHANGED Flow!vars /\ Downloading'
  BY <1>1 DEF Flow!vars
<1>2. CASE ProgressTimeout
  <2>1. CASE UNCHANGED fsm
    BY <1>1, <1>2, <2>1 DEF ProgressTimeout, fsm
  <2>2. CASE state \in InitiatorStates /\ state' = "Idle"
    <3>1. Flow!CancelUpdate
      BY <2>2 DEF Flow!CancelUpdate, Flow!Move, Flow!Operations
    <3> QED
      BY <2>2, <3>1 DEF Flow!Next
  <2> QED
    BY <1>2, <2>1, <2>2 DEF ProgressTimeout, set_fd_idle
<1>3. CASE ProgressNothing \/ ProgressRequestData \/ ProgressTransferComplete
  BY <1>1, <1>3
  DEF ProgressNothing, ProgressRequestData, ProgressTransferComplete, fsm, history
<1>4. CASE ProgressVerify
  <2>1. UNCHANGED state /\ state = "Verify" /\ (UNCHANGED stage \/ stage' = "Verified")
    BY <1>4 DEF ProgressVerify, Progress, fsm
  <2>2. stage \in {"Downloaded", "Verified"}
    BY <2>1 DEF Inv, ImageReadyForPhase
  <2>3. UNCHANGED stage \/ Flow!Work("Verify", "Downloaded", "Verified")
    BY <2>1, <2>2 DEF Flow!Work
  <2> QED
    BY <1>1, <2>1, <2>3 DEF Flow!Next
<1>5. CASE ProgressApply
  <2>1. UNCHANGED state /\ state = "Apply" /\ (UNCHANGED stage \/ stage' = "Applied")
    BY <1>5 DEF ProgressApply, Progress, fsm
  <2>2. stage \in {"Verified", "Applied"}
    BY <2>1 DEF Inv, ImageReadyForPhase
  <2>3. UNCHANGED stage \/ Flow!Work("Apply", "Verified", "Applied")
    BY <2>1, <2>2 DEF Flow!Work
  <2> QED
    BY <1>1, <2>1, <2>3 DEF Flow!Next
<1>6. CASE handle_response
  <2>1. ASSUME NEW id, NEW cmd, ResponseUnexpected(id, cmd) \/ ResponseOutOfState(id, cmd)
        PROVE  UNCHANGED <<state, stage>>
    BY <2>1 DEF ResponseUnexpected, ResponseOutOfState, fsm, history
  <2>2. ASSUME NEW id, NEW cc, NEW enough, FirmwareData(id, cc, enough)
        PROVE  /\ UNCHANGED stage \/ Flow!Work("Download", "Fresh", "Downloaded")
               /\ UNCHANGED state /\ Downloading'
    <3>1. UNCHANGED state /\ state = "Download" /\ (UNCHANGED stage \/ stage' = "Downloaded")
      BY <2>2 DEF FirmwareData, fsm
    <3> QED
      BY <3>1 DEF Flow!Work
  <2>3. ASSUME NEW id, NEW cmd \in FdCommands, PhaseAcknowledged(id, cmd)
        PROVE  [Flow!Next]_(Flow!vars) /\ Downloading'
    <3>1. UNCHANGED stage /\ req.state = "Sent" /\ req.complete /\ state \in InitiatorStates
      BY <2>3 DEF PhaseAcknowledged, Expected, ServedIn
    <3>2. CASE req.result # Success
      <4>1. UNCHANGED state
        BY <2>3, <3>2 DEF PhaseAcknowledged, fsm
      <4> QED
        BY <1>1, <3>1, <4>1
    <3>3. CASE req.result = Success
      <4>1. stage = CASE state = "Download" -> "Downloaded"
                      [] state = "Verify"   -> "Verified"
                      [] OTHER              -> "Applied"
        BY <3>1, <3>3 DEF Inv, SuccessIsEarned
      <4>2. CASE state = "Download"
        <5>1. Flow!TransferSucceeds /\ state' = "Verify"
          BY <2>3, <3>1, <3>3, <4>1, <4>2
          DEF PhaseAcknowledged, set_fd_state, Flow!TransferSucceeds, Flow!Move
        <5> QED
          BY <5>1 DEF Flow!Next
      <4>3. CASE state = "Verify"
        <5>1. Flow!VerifySucceeds /\ state' = "Apply"
          BY <2>3, <3>1, <3>3, <4>1, <4>3
          DEF PhaseAcknowledged, set_fd_state, Flow!VerifySucceeds, Flow!Move
        <5> QED
          BY <5>1 DEF Flow!Next
      <4>4. CASE state = "Apply"
        <5>1. Flow!ApplySucceeds /\ state' = "ReadyXfer"
          BY <2>3, <3>1, <3>3, <4>1, <4>4
          DEF PhaseAcknowledged, set_fd_state, Flow!ApplySucceeds, Flow!Move
        <5> QED
          BY <5>1 DEF Flow!Next
      <4> QED
        BY <3>1, <4>2, <4>3, <4>4
    <3> QED
      BY <3>2, <3>3
  <2> QED
    BY <1>1, <1>6, <2>1, <2>2, <2>3 DEF handle_response, Flow!Next
<1>7. CASE Tick
  BY <1>1, <1>7 DEF Tick, fsm, history
<1> QED
  BY <1>2, <1>3, <1>4, <1>5, <1>6, <1>7 DEF fd_progress

\* A command of the UA is a step of UpdateFlow or changes nothing it shows.
LEMMA UaFlow ==
    ASSUME TypeOK, Downloading, UaCommand
    PROVE  [Flow!Next]_(Flow!vars) /\ Downloading'
<1> USE DEF Downloading, InitiatorStates
<1>1. CASE Stays
  BY <1>1 DEF Stays, fsm, Flow!vars
<1>2. CASE Enters
  <2>1. CASE UNCHANGED fsm
    BY <1>2, <2>1 DEF Enters, fsm, Flow!vars
  <2>2. CASE state' = "LearnComponents"
    <3>1. Flow!RequestUpdate
      BY <1>2, <2>2 DEF Enters, Flow!RequestUpdate, Flow!Move
    <3> QED
      BY <2>2, <3>1 DEF Flow!Next
  <2> QED
    BY <1>2, <2>1, <2>2 DEF Enters
<1>3. CASE Learns
  <2>1. Flow!FinalComponent
    BY <1>3 DEF Learns, Flow!FinalComponent, Flow!Move
  <2> QED
    BY <1>3, <2>1 DEF Learns, Flow!Next
<1>4. CASE Accepts
  <2>1. Flow!AcceptComponent
    BY <1>4 DEF Accepts, Flow!AcceptComponent, Flow!Move
  <2> QED
    BY <1>4, <2>1 DEF Accepts, Flow!Next
<1>5. CASE Activates
  <2>1. Flow!Activate
    BY <1>5 DEF Activates, Flow!Activate, Flow!Move
  <2> QED
    BY <1>5, <2>1 DEF Activates, Flow!Next
<1>6. CASE Cancels
  <2>1. Flow!CancelComponent \/ Flow!CancelUpdate
    BY <1>6
    DEF Cancels, Flow!CancelComponent, Flow!CancelUpdate, Flow!Move, Flow!Operations
  <2> QED
    BY <1>6, <2>1 DEF Cancels, Flow!Next
<1> QED
  BY <1>1, <1>2, <1>3, <1>4, <1>5, <1>6, UaMoves

\* The device goes through an update as UpdateFlow promises: in its order, and
\* no phase begins before the platform has finished the one it builds on.
THEOREM FollowsFlow == Spec => ImplementsFlow
<1>1. Init => Downloading /\ Flow!Init
  BY DEF Init, Downloading, Flow!Init, InitiatorStates
<1>2. TypeOK /\ Inv /\ Downloading /\ [Next]_vars
          => Downloading' /\ [Flow!Next]_(Flow!vars)
  <2>1. ASSUME UNCHANGED vars, Downloading
        PROVE  Downloading' /\ UNCHANGED Flow!vars
    BY <2>1 DEF vars, fsm, history, Downloading, Flow!vars
  <2> QED
    BY <2>1, UaFlow, DeviceFlow DEF Next
<1> QED
  BY <1>1, <1>2, SpecInv, PTL DEF Spec, ImplementsFlow, Flow!Spec
=============================================================================
