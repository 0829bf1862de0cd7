------------------------ MODULE FirmwareDeviceProofs ------------------------
(***************************************************************************)
(* Proofs about FirmwareDevice for every value of its constants: type      *)
(* correctness, then the safety of an update: an image is never verified,  *)
(* applied or reported as done before the platform has finished the work.  *)
(* The inductive invariant Inv ties the request to the state               *)
(* (RequestMatchesState) and the announced success to the history of the   *)
(* platform's work (SuccessIsEarned).                                      *)
(***************************************************************************)
EXTENDS FirmwareDeviceProperties, TLAPS

USE ComponentAssumption, NumberAssumption, CallbackAssumption, NoneAssumption

-----------------------------------------------------------------------------
(* The values the model computes.                                          *)

\* An age that has passed its cap stays at it.
LEMMA CappedType ==
    ASSUME NEW n \in Nat, NEW cap \in Nat
    PROVE  Capped(n, cap) \in 0 .. cap
BY DEF Capped

\* A request record that waits for nothing has no ID, command or time.
LEMMA RequestType ==
    ASSUME NEW s \in {"Unused", "Ready", "Sent", "Failed"},
           NEW complete \in BOOLEAN,
           NEW result \in (0 .. 255) \cup {None}
    PROVE  Request(s, complete, result) \in FdReq
BY DEF Request, FdReq

\* Time leaves a request a request.
LEMMA LaterType ==
    ASSUME NEW r \in FdReq, NEW d \in Nat
    PROVE  Later(r, d) \in FdReq
<1>1. CASE r.sent_time = None
  BY <1>1 DEF Later
<1>2. CASE r.sent_time # None
  <2>1. r.sent_time \in 0 .. T2
    BY <1>2 DEF FdReq
  <2>2. r.sent_time + d \in Nat
    BY <2>1
  <2>3. Capped(r.sent_time + d, T2) \in 0 .. T2
    BY <2>2, CappedType
  <2> QED
    BY <1>2, <2>3 DEF Later, FdReq
<1> QED
  BY <1>1, <1>2

\* The next instance ID is an instance ID.
LEMMA NextInstanceIdType ==
    ASSUME req \in FdReq
    PROVE  NextInstanceId \in 0 .. InstanceIdCount - 1
<1>1. CASE req.instance_id = None
  BY <1>1 DEF NextInstanceId
<1>2. CASE req.instance_id # None
  <2>1. req.instance_id \in 0 .. InstanceIdCount - 1
    BY <1>2 DEF FdReq
  <2> QED
    BY <1>2, <2>1 DEF NextInstanceId
<1> QED
  BY <1>1, <1>2

\* The setters keep the three state fields in their types.
LEMMA SetStateType ==
    ASSUME TypeOK, NEW s \in States, set_fd_state(s)
    PROVE  state' \in States /\ prev_state' \in States /\ reason' \in Reasons \cup {None}
BY DEF TypeOK, set_fd_state

\* A request that goes out is a request.
LEMMA SendType ==
    ASSUME TypeOK, NEW cmd \in FdCommands, NEW complete \in BOOLEAN,
           NEW result \in (0 .. 255) \cup {None}, Send(cmd, complete, result)
    PROVE  req' \in FdReq /\ wire_id' \in (0 .. InstanceIdCount - 1) \cup {None}
<1>1. NextInstanceId \in 0 .. InstanceIdCount - 1
  BY NextInstanceIdType DEF TypeOK
<1> QED
  BY <1>1 DEF Send, FdReq

\* A call that fails after the allocation leaves a request.
LEMMA FailAfterAllocType ==
    ASSUME TypeOK, NEW d \in Nat, FailAfterAlloc(d)
    PROVE  req' \in FdReq /\ wire_id' \in (0 .. InstanceIdCount - 1) \cup {None}
<1>1. NextInstanceId \in 0 .. InstanceIdCount - 1
  BY NextInstanceIdType DEF TypeOK
<1>2. [req EXCEPT !.instance_id = NextInstanceId] \in FdReq
  BY <1>1 DEF FdReq, TypeOK
<1> QED
  BY <1>2, LaterType DEF FailAfterAlloc, TypeOK

\* T1's age stays an age.
LEMMA LaterT1Type ==
    ASSUME TypeOK, NEW d \in Nat
    PROVE  LaterT1(d) \in 0 .. T1 + 1
<1>1. t1_age + d \in Nat /\ T1 + 1 \in Nat
  BY DEF TypeOK
<1> QED
  BY <1>1, CappedType DEF LaterT1

-----------------------------------------------------------------------------
(* Type correctness.                                                       *)

\* A command that is refused changes the answer and nothing else.
LEMMA RefuseType ==
    ASSUME TypeOK, NEW cc \in Replies, Refuse(cc)
    PROVE  TypeOK'
BY DEF TypeOK, Refuse, Answer, fsm, history

\* No command of the UA takes a variable out of its type.
LEMMA UaCommandType ==
    ASSUME TypeOK, UaCommand
    PROVE  TypeOK'
<1> USE DEF Replies, CompletionCodes, NoResponse, Malformed
<1>1. CASE RequestUpdate
  <2>1. CASE Refuse("AlreadyInUpdateMode")
    BY <2>1, RefuseType
  <2>2. CASE ~Refuse("AlreadyInUpdateMode")
    <3>1. max_xfer_size' \in 0 .. U32 - 1
      BY <1>1, <2>2 DEF RequestUpdate, TypeOK
    <3> QED
      BY <1>1, <2>2, <3>1
      DEF RequestUpdate, TypeOK, Answer, set_fd_state, States, fsm, history
  <2> QED
    BY <2>1, <2>2
<1>2. ASSUME NEW last \in BOOLEAN, PassComponentTable(last)
      PROVE  TypeOK'
  <2>1. CASE Refuse("InvalidStateForCommand")
    BY <2>1, RefuseType
  <2>2. CASE ~Refuse("InvalidStateForCommand")
    BY <1>2, <2>2
    DEF PassComponentTable, TypeOK, Answer, set_fd_state, States, fsm, history
  <2> QED
    BY <2>1, <2>2
<1>3. CASE UpdateComponent
  <2>1. CASE Refuse("InvalidStateForCommand")
    BY <2>1, RefuseType
  <2>2. ASSUME t1_age' = 0, UNCHANGED max_xfer_size,
               UNCHANGED <<fsm, update_comp, req, mode, panicked, history>>,
               NEW cc \in Malformed, Answer(cc)
        PROVE  TypeOK'
    BY <2>2 DEF TypeOK, Answer, fsm, history
  <2>3. ASSUME t1_age' = 0, UNCHANGED max_xfer_size, update_comp' \in Components,
               UNCHANGED <<fsm, req, mode, panicked, history>>, Answer(NoResponse)
        PROVE  TypeOK'
    BY <2>3 DEF TypeOK, Answer, fsm, history
  <2>4. ASSUME t1_age' = 0, UNCHANGED max_xfer_size, update_comp' \in Components,
               ComponentDeclined
        PROVE  TypeOK'
    <3>1. panicked' \in BOOLEAN /\ reply' \in Replies
      BY <2>4 DEF ComponentDeclined, Answer, TypeOK
    <3> QED
      BY <2>4, <3>1 DEF ComponentDeclined, TypeOK, fsm, history
  <2>5. ASSUME t1_age' = 0, UNCHANGED max_xfer_size, update_comp' \in Components,
               ComponentAccepted
        PROVE  TypeOK'
    <3>1. Request("Ready", FALSE, None) \in FdReq
      BY RequestType
    <3>2. Mode("Download", 0, 0) \in InitiatorMode
      BY DEF Mode, InitiatorMode, InitiatorStates
    <3>3. req' \in FdReq /\ mode' \in InitiatorMode
      BY <2>5, <3>1, <3>2 DEF ComponentAccepted, TypeOK
    <3>4. /\ state' \in States /\ prev_state' \in States
          /\ reason' \in Reasons \cup {None}
      BY <2>5, SetStateType DEF ComponentAccepted, TypeOK, fsm, States
    <3>5. reply' \in Replies
      BY <2>5 DEF ComponentAccepted, Answer
    <3> QED
      BY <2>5, <3>3, <3>4, <3>5 DEF ComponentAccepted, TypeOK, Stages
  <2> QED
    BY <1>3, <2>1, <2>2, <2>3, <2>4, <2>5 DEF UpdateComponent
<1>4. CASE ActivateFirmware
  BY <1>4, RefuseType
  DEF ActivateFirmware, TypeOK, Answer, States, Reasons, fsm, history
<1>5. CASE CancelUpdateComponent
  BY <1>5, RefuseType
  DEF CancelUpdateComponent, TypeOK, Answer, set_fd_state, States, fsm, history
<1>6. CASE CancelUpdate
  BY <1>6, RefuseType
  DEF CancelUpdate, TypeOK, Answer, set_fd_idle, States, Reasons, fsm, history
<1>7. CASE GetStatus \/ QueryDeviceIdentifiers \/ GetFirmwareParameters
           \/ ActivatePendingComponentImage \/ UpdateSecurityRevision
  BY <1>7, RefuseType
  DEF GetStatus, QueryDeviceIdentifiers, GetFirmwareParameters, IdleCommand,
      ActivatePendingComponentImage, UpdateSecurityRevision, ReadOnly
<1> QED
  BY <1>1, <1>2, <1>3, <1>4, <1>5, <1>6, <1>7 DEF UaCommand

\* The types of mode's new values: a chunk within u32 and a reported progress.
LEMMA ModeType ==
    ASSUME TypeOK
    PROVE  /\ \A n \in Nat, length \in 0 .. U32 - 1 :
                 [mode EXCEPT !.offset = n % U32,
                              !.length = Capped(length, max_xfer_size)] \in InitiatorMode
           /\ \A p \in Percents : [mode EXCEPT !.progress = p] \in InitiatorMode
<1>1. ASSUME NEW n \in Nat, NEW length \in 0 .. U32 - 1
      PROVE  [mode EXCEPT !.offset = n % U32,
                          !.length = Capped(length, max_xfer_size)] \in InitiatorMode
  <2>1. n % U32 \in 0 .. U32 - 1
    OBVIOUS
  <2>2. Capped(length, max_xfer_size) \in 0 .. U32 - 1
    BY DEF Capped, TypeOK
  <2> QED
    BY <2>1, <2>2 DEF TypeOK, InitiatorMode
<1>2. ASSUME NEW p \in Percents
      PROVE  [mode EXCEPT !.progress = p] \in InitiatorMode
  BY <1>2 DEF TypeOK, InitiatorMode
<1> QED
  BY <1>1, <1>2

\* The two phases that run a callback of the platform.
LEMMA ProgressType ==
    ASSUME TypeOK, NEW st \in InitiatorStates, NEW callback, NEW results,
           results \subseteq 0 .. 11, NEW cmd \in FdCommands, NEW done \in Stages,
           Progress(st, callback, results, cmd, done)
    PROVE  TypeOK'
<1>1. /\ UNCHANGED <<state, prev_state, reason, update_comp, max_xfer_size, panicked, open>>
      /\ reply' = None
  BY DEF Progress, fsm
<1> DEFINE Typed == /\ req' \in FdReq
                    /\ mode' \in InitiatorMode
                    /\ t1_age' \in 0 .. T1 + 1
                    /\ stage' \in Stages
                    /\ verdict' \in (0 .. 11) \cup {None}
                    /\ wire_id' \in (0 .. InstanceIdCount - 1) \cup {None}
<1>2. SUFFICES Typed
  BY <1>1 DEF TypeOK
<1>3. ASSUME NEW d \in WorkTimes, t1_age' = LaterT1(d), req' = Later(req, d),
             UNCHANGED <<mode, stage, verdict, wire_id>>
      PROVE  Typed
  <2>1. LaterT1(d) \in 0 .. T1 + 1 /\ Later(req, d) \in FdReq
    BY LaterT1Type, LaterType DEF TypeOK
  <2> QED
    BY <1>3, <2>1 DEF TypeOK
<1>4. ASSUME NEW r \in results, NEW p \in Percents, NEW d \in WorkTimes,
             mode' = IF mode.kind = st THEN [mode EXCEPT !.progress = p] ELSE mode,
             verdict' = r,
             IF r = Success /\ p < 100
             THEN /\ t1_age' = IF req.state = "Sent" THEN LaterT1(d) ELSE 0
                  /\ req' = Later(req, d)
                  /\ UNCHANGED <<stage, wire_id>>
             ELSE /\ t1_age' = LaterT1(d)
                  /\ stage' = IF r = Success THEN done ELSE stage
                  /\ \/ Send(cmd, TRUE, r)
                     \/ CanFail("encode") /\ FailAfterAlloc(d)
      PROVE  Typed
  <2>1. LaterT1(d) \in 0 .. T1 + 1 /\ Later(req, d) \in FdReq
    BY LaterT1Type, LaterType DEF TypeOK
  <2>2. t1_age' \in 0 .. T1 + 1 /\ stage' \in Stages
    <3>1. 0 \in 0 .. T1 + 1 /\ stage \in Stages
      BY DEF TypeOK
    <3> QED
      BY <1>4, <2>1, <3>1, Zenon
  <2>3. r \in 0 .. 11 /\ r \in (0 .. 255) \cup {None}
    BY SMT
  <2>4. mode' \in InitiatorMode
    BY <1>4, ModeType DEF TypeOK
  <2>5. CASE r = Success /\ p < 100
    <3>1. req' \in FdReq /\ UNCHANGED wire_id
      BY <1>4, <2>1, <2>5
    <3> QED
      BY <1>4, <2>2, <2>3, <2>4, <3>1 DEF TypeOK
  <2>6. CASE ~(r = Success /\ p < 100)
    <3>1. Send(cmd, TRUE, r) \/ FailAfterAlloc(d)
      BY <1>4, <2>6
    <3>2. d \in Nat
      OBVIOUS
    <3>3. req' \in FdReq /\ wire_id' \in (0 .. InstanceIdCount - 1) \cup {None}
      BY <2>3, <3>1, <3>2, SendType, FailAfterAllocType
    <3> QED
      BY <1>4, <2>2, <2>3, <2>4, <3>3
  <2> QED
    BY <2>5, <2>6
<1>5. ASSUME Send(cmd, TRUE, GenericError) \/ FailAfterAlloc(0),
             UNCHANGED <<mode, t1_age, stage, verdict>>
      PROVE  Typed
  <2>1. GenericError \in (0 .. 255) \cup {None}
    BY DEF GenericError
  <2>2. req' \in FdReq /\ wire_id' \in (0 .. InstanceIdCount - 1) \cup {None}
    BY <1>5, <2>1, SendType, FailAfterAllocType
  <2> QED
    BY <1>5, <2>2 DEF TypeOK
<1> QED
  BY <1>3, <1>4, <1>5 DEF Progress

\* No poll of fd_progress takes a variable out of its type.
LEMMA FdProgressType ==
    ASSUME TypeOK, fd_progress
    PROVE  TypeOK'
<1>1. CASE ProgressNothing
  BY <1>1 DEF ProgressNothing, TypeOK, fsm, history
<1>2. CASE ProgressTimeout
  <2>1. Request("Unused", FALSE, None) \in FdReq
    BY RequestType
  <2>2. req' \in FdReq
    BY <1>2, <2>1 DEF ProgressTimeout, TypeOK
  <2>3. state' \in States /\ prev_state' \in States /\ reason' \in Reasons \cup {None}
    BY <1>2
    DEF ProgressTimeout, TypeOK, fsm, set_fd_idle, TimeoutReason, States, Reasons,
        InitiatorStates
  <2> QED
    BY <1>2, <2>2, <2>3 DEF ProgressTimeout, TypeOK
<1>3. CASE ProgressRequestData
  <2>1. /\ UNCHANGED <<state, prev_state, reason, update_comp, max_xfer_size, t1_age,
                       stage, verdict, open>>
        /\ reply' = None
    BY <1>3 DEF ProgressRequestData, fsm
  <2>2. CASE FailAfterAlloc(0) /\ UNCHANGED <<mode, panicked>>
    BY <2>1, <2>2, FailAfterAllocType DEF TypeOK
  <2>3. CASE FailAfterAlloc(0) /\ panicked' = TRUE /\ UNCHANGED mode
    BY <2>1, <2>3, FailAfterAllocType DEF TypeOK
  <2>4. ASSUME NEW range \in DownloadRanges,
               mode' = [mode EXCEPT !.offset = range[1] % U32,
                                    !.length = Capped(range[2] % U32, max_xfer_size)],
               Send("RequestFirmwareData", FALSE, None), UNCHANGED panicked
        PROVE  TypeOK'
    <3>1. range[1] \in Nat /\ range[2] % U32 \in 0 .. U32 - 1
      <4>1. range \in Nat \X Nat
        OBVIOUS
      <4> QED
        BY <4>1
    <3>2. mode' \in InitiatorMode
      BY <2>4, <3>1, ModeType
    <3>3. req' \in FdReq /\ wire_id' \in (0 .. InstanceIdCount - 1) \cup {None}
      BY <2>4, SendType DEF FdCommands
    <3> QED
      BY <2>1, <2>4, <3>2, <3>3 DEF TypeOK
  <2> QED
    BY <1>3, <2>2, <2>3, <2>4 DEF ProgressRequestData
<1>4. CASE ProgressTransferComplete
  <2>1. /\ UNCHANGED <<state, prev_state, reason, update_comp, max_xfer_size, mode,
                       t1_age, stage, verdict, open>>
        /\ reply' = None
        /\ panicked' \in BOOLEAN
        /\ FailAfterAlloc(0) \/ Send("TransferComplete", TRUE, req.result)
    BY <1>4 DEF ProgressTransferComplete, TypeOK, fsm
  <2>2. req.result \in (0 .. 255) \cup {None}
    BY DEF TypeOK, FdReq
  <2>3. req' \in FdReq /\ wire_id' \in (0 .. InstanceIdCount - 1) \cup {None}
    BY <2>1, <2>2, SendType, FailAfterAllocType DEF FdCommands
  <2> QED
    BY <2>1, <2>3 DEF TypeOK
<1>5. CASE ProgressVerify
  BY <1>5, ProgressType DEF ProgressVerify, InitiatorStates, FdCommands, Stages
<1>6. CASE ProgressApply
  BY <1>6, ProgressType DEF ProgressApply, InitiatorStates, FdCommands, Stages
<1> QED
  BY <1>1, <1>2, <1>3, <1>4, <1>5, <1>6 DEF fd_progress

\* No response takes a variable out of its type.
LEMMA HandleResponseType ==
    ASSUME TypeOK, handle_response
    PROVE  TypeOK'
<1>1. ASSUME NEW id, NEW cmd, ResponseUnexpected(id, cmd)
      PROVE  TypeOK'
  BY <1>1 DEF ResponseUnexpected, TypeOK, fsm, history
<1>2. ASSUME NEW id, NEW cmd, ResponseOutOfState(id, cmd)
      PROVE  TypeOK'
  BY <1>2 DEF ResponseOutOfState, TypeOK, fsm, history
<1>3. ASSUME NEW id, NEW cc, NEW enough, FirmwareData(id, cc, enough)
      PROVE  TypeOK'
  <2>1. /\ UNCHANGED <<state, prev_state, reason, update_comp, max_xfer_size, mode,
                       panicked, verdict, open, wire_id>>
        /\ reply' = None
        /\ t1_age' = 0
    BY <1>3 DEF FirmwareData, fsm
  <2>2. /\ Request("Ready", TRUE, FdAbortedTransfer) \in FdReq
        /\ Request("Ready", FALSE, None) \in FdReq
        /\ \A res \in TransferResults : Request("Ready", TRUE, res) \in FdReq
    <3>1. Request("Ready", TRUE, FdAbortedTransfer) \in FdReq
      <4>1. FdAbortedTransfer \in (0 .. 255) \cup {None}
        BY DEF FdAbortedTransfer
      <4> QED
        BY <4>1, RequestType
    <3>2. Request("Ready", FALSE, None) \in FdReq
      BY RequestType
    <3>3. ASSUME NEW res \in TransferResults
          PROVE  Request("Ready", TRUE, res) \in FdReq
      <4>1. res \in (0 .. 255) \cup {None}
        OBVIOUS
      <4> QED
        BY <4>1, RequestType
    <3> QED
      BY <3>1, <3>2, <3>3
  <2>3. req' \in FdReq
    BY <1>3, <2>2 DEF FirmwareData, TypeOK
  <2>4. stage' \in Stages
    BY <1>3 DEF FirmwareData, TypeOK, Stages
  <2> QED
    BY <2>1, <2>3, <2>4 DEF TypeOK
<1>4. ASSUME NEW id, NEW cmd, PhaseAcknowledged(id, cmd)
      PROVE  TypeOK'
  <2>1. /\ UNCHANGED <<update_comp, max_xfer_size, panicked, stage, verdict, wire_id>>
        /\ reply' = None
        /\ t1_age' = 0
    BY <1>4 DEF PhaseAcknowledged
  <2>2. /\ Request("Failed", TRUE, req.result) \in FdReq
        /\ Request("Ready", FALSE, None) \in FdReq
        /\ Request("Unused", FALSE, None) \in FdReq
    <3>1. req.result \in (0 .. 255) \cup {None}
      BY DEF TypeOK, FdReq
    <3>2. Request("Failed", TRUE, req.result) \in FdReq
      BY <3>1, RequestType
    <3>3. Request("Ready", FALSE, None) \in FdReq
      BY RequestType
    <3>4. Request("Unused", FALSE, None) \in FdReq
      BY RequestType
    <3> QED
      BY <3>2, <3>3, <3>4
  <2>3. req' \in FdReq /\ open' \in Components \cup {None}
    BY <1>4, <2>2 DEF PhaseAcknowledged, TypeOK
  <2>4. mode' \in InitiatorMode
    <3>1. \A next \in {"Verify", "Apply"} : Mode(next, 0, 0) \in InitiatorMode
      BY DEF Mode, InitiatorMode, InitiatorStates
    <3> QED
      BY <1>4, <3>1 DEF PhaseAcknowledged, TypeOK
  <2>5. \/ UNCHANGED fsm
        \/ \E s \in {"Verify", "Apply", "ReadyXfer"} : set_fd_state(s)
    BY <1>4 DEF PhaseAcknowledged
  <2>6. state' \in States /\ prev_state' \in States /\ reason' \in Reasons \cup {None}
    BY <2>5, SetStateType DEF TypeOK, States, fsm
  <2> QED
    BY <2>1, <2>3, <2>4, <2>6 DEF TypeOK
<1> QED
  BY <1>1, <1>2, <1>3, <1>4 DEF handle_response

\* The device starts in its types.
LEMMA InitType == Init => TypeOK
<1> SUFFICES ASSUME Init
             PROVE  TypeOK
  OBVIOUS
<1>1. Request("Unused", FALSE, None) \in FdReq
  BY RequestType
<1>2. Mode("Download", 0, 0) \in InitiatorMode
  BY DEF Mode, InitiatorMode, InitiatorStates
<1> QED
  BY <1>1, <1>2 DEF Init, TypeOK, States, Stages

\* Every step keeps the types.
LEMMA NextType ==
    ASSUME TypeOK, [Next]_vars
    PROVE  TypeOK'
<1>1. CASE Tick
  <2>1. req' \in FdReq /\ t1_age' \in 0 .. T1 + 1
    BY <1>1, LaterType, LaterT1Type DEF Tick, TypeOK
  <2> QED
    BY <1>1, <2>1 DEF Tick, TypeOK, fsm, history
<1>2. CASE UNCHANGED vars
  BY <1>2 DEF vars, TypeOK, fsm, history
<1> QED
  BY <1>1, <1>2, UaCommandType, FdProgressType, HandleResponseType DEF Next

\* Every variable keeps to the type of its field in every behaviour: the byte
\* sizes and modulo the code relies on, for all timeouts, ID counts and images.
THEOREM TypeCorrect == Spec => []TypeOK
<1>1. TypeOK /\ [Next]_vars => TypeOK'
  BY NextType
<1> QED
  BY <1>1, InitType, PTL DEF Spec

-----------------------------------------------------------------------------
(* The safety of an update.                                                *)

Inv == RequestMatchesState /\ SuccessIsEarned /\ ImageReadyForPhase

-----------------------------------------------------------------------------
(* Steps that leave the request as it was, but for its age and its ID.     *)

SameRequest(r, s) ==
    /\ r.state = s.state
    /\ r.complete = s.complete
    /\ r.result = s.result
    /\ r.command = s.command
    /\ s.instance_id # None => r.instance_id # None
    /\ s.sent_time # None => r.sent_time # None

\* Time changes nothing in a request but the age it has.
LEMMA LaterSame ==
    ASSUME NEW r \in FdReq, NEW d \in Nat
    PROVE  SameRequest(Later(r, d), r)
<1>1. CASE r.sent_time = None
  BY <1>1 DEF Later, SameRequest
<1>2. CASE r.sent_time # None
  <2>1. r.sent_time \in 0 .. T2 /\ r.sent_time + d \in Nat
    BY <1>2 DEF FdReq
  <2>2. Capped(r.sent_time + d, T2) \in 0 .. T2
    BY <2>1, CappedType
  <2>3. Capped(r.sent_time + d, T2) # None
    BY <2>2
  <2> QED
    BY <1>2, <2>3 DEF Later, SameRequest, FdReq
<1> QED
  BY <1>1, <1>2

\* A call that fails after the allocation of an ID keeps the rest of req.
LEMMA FailAfterAllocSame ==
    ASSUME TypeOK, NEW d \in Nat, FailAfterAlloc(d)
    PROVE  SameRequest(req', req)
<1> DEFINE r == [req EXCEPT !.instance_id = NextInstanceId]
<1>1. NextInstanceId \in 0 .. InstanceIdCount - 1
  BY NextInstanceIdType DEF TypeOK
<1>2. r \in FdReq
  BY <1>1 DEF FdReq, TypeOK
<1>3. SameRequest(r, req)
  <2>1. NextInstanceId # None
    BY <1>1
  <2> QED
    BY <2>1 DEF SameRequest, TypeOK, FdReq
<1>4. SameRequest(Later(r, d), r)
  BY <1>2, LaterSame
<1> HIDE DEF r
<1>5. req' = Later(r, d)
  BY DEF FailAfterAlloc, r
<1> QED
  BY <1>3, <1>4, <1>5 DEF SameRequest

\* The invariant survives a step that keeps the state, the kind of work and the
\* request; the platform's work may advance before it is announced.
LEMMA SameRequestInv ==
    ASSUME Inv, SameRequest(req', req), UNCHANGED state, mode'.kind = mode.kind,
           stage' = stage \/ (~req.complete /\ ImageReadyForPhase')
    PROVE  Inv'
BY DEF Inv, SameRequest, RequestMatchesState, SuccessIsEarned, ImageReadyForPhase,
       CompletionOf, InitiatorStates

\* The same for a step that leaves the operations: what is said of them is void.
LEMMA OutsideInv ==
    ASSUME Inv, SameRequest(req', req), state' \notin InitiatorStates
    PROVE  Inv'
BY DEF Inv, SameRequest, RequestMatchesState, SuccessIsEarned, ImageReadyForPhase,
       InitiatorStates

\* The same where the request is replaced outside the operations.
LEMMA RetiredInv ==
    ASSUME Inv, req' = Request("Unused", FALSE, None), state' \notin InitiatorStates
    PROVE  Inv'
BY DEF Inv, Request, RequestMatchesState, SuccessIsEarned, ImageReadyForPhase,
       InitiatorStates

\* A new phase begins with a request to be prepared.
LEMMA BeginPhaseInv ==
    ASSUME Inv, req' = Request("Ready", FALSE, None),
           \/ state' = "Download" /\ mode'.kind = "Download"
           \/ state' = "Verify" /\ stage' = "Downloaded"
           \/ state' = "Apply" /\ stage' = "Verified"
    PROVE  Inv'
BY DEF Inv, Request, RequestMatchesState, SuccessIsEarned, ImageReadyForPhase,
       InitiatorStates

\* A request is as it was if nothing touches it.
LEMMA UnchangedSame ==
    ASSUME UNCHANGED req
    PROVE  SameRequest(req', req)
BY DEF SameRequest

-----------------------------------------------------------------------------
(* Every step preserves the invariant.                                     *)

\* An answer that leaves everything alone.
LEMMA RefuseInv ==
    ASSUME Inv, NEW cc, Refuse(cc)
    PROVE  Inv'
BY UnchangedSame, SameRequestInv DEF Refuse, fsm, history

\* A command of the UA replaces the request only to begin a download.
LEMMA UaCommandInv ==
    ASSUME TypeOK, Inv, UaCommand
    PROVE  Inv'
<1>1. CASE RequestUpdate
  <2>1. CASE Refuse("AlreadyInUpdateMode")
    BY <2>1, RefuseInv
  <2>2. CASE ~Refuse("AlreadyInUpdateMode")
    <3>1. UNCHANGED req /\ state' \notin InitiatorStates
      BY <1>1, <2>2
      DEF RequestUpdate, set_fd_state, is_update_mode, fsm, InitiatorStates
    <3> QED
      BY <3>1, UnchangedSame, OutsideInv
  <2> QED
    BY <2>1, <2>2
<1>2. ASSUME NEW last \in BOOLEAN, PassComponentTable(last)
      PROVE  Inv'
  <2>1. CASE Refuse("InvalidStateForCommand")
    BY <2>1, RefuseInv
  <2>2. CASE ~Refuse("InvalidStateForCommand")
    <3>1. UNCHANGED req /\ state' \notin InitiatorStates
      BY <1>2, <2>2 DEF PassComponentTable, set_fd_state, fsm, InitiatorStates
    <3> QED
      BY <3>1, UnchangedSame, OutsideInv
  <2> QED
    BY <2>1, <2>2
<1>3. CASE UpdateComponent
  <2>1. CASE Refuse("InvalidStateForCommand")
    BY <2>1, RefuseInv
  <2>2. CASE UNCHANGED <<fsm, req>> /\ state = "ReadyXfer"
    BY <2>2, UnchangedSame, OutsideInv DEF fsm, InitiatorStates
  <2>3. CASE req' = Request("Ready", FALSE, None) /\ mode' = Mode("Download", 0, 0)
             /\ set_fd_state("Download")
    BY <2>3, BeginPhaseInv DEF set_fd_state, Mode
  <2> QED
    BY <1>3, <2>1, <2>2, <2>3
    DEF UpdateComponent, ComponentDeclined, ComponentAccepted
<1>4. CASE ActivateFirmware
  <2>1. ASSUME NEW cc, Refuse(cc)
        PROVE  Inv'
    BY <2>1, RefuseInv
  <2>2. CASE UNCHANGED req /\ state' = "Idle"
    BY <2>2, UnchangedSame, OutsideInv DEF InitiatorStates
  <2> QED
    BY <1>4, <2>1, <2>2 DEF ActivateFirmware
<1>5. CASE CancelUpdateComponent
  <2>1. ASSUME NEW cc, Refuse(cc)
        PROVE  Inv'
    BY <2>1, RefuseInv
  <2>2. CASE UNCHANGED <<req, mode, stage, fsm>>
    BY <2>2, UnchangedSame, SameRequestInv DEF fsm
  <2>3. CASE UNCHANGED req /\ set_fd_state("ReadyXfer")
    BY <2>3, UnchangedSame, OutsideInv DEF set_fd_state, InitiatorStates
  <2> QED
    BY <1>5, <2>1, <2>2, <2>3 DEF CancelUpdateComponent
<1>6. CASE CancelUpdate
  <2>1. CASE Refuse("NotInUpdateMode")
    BY <2>1, RefuseInv
  <2>2. CASE UNCHANGED <<req, mode, stage, fsm>>
    BY <2>2, UnchangedSame, SameRequestInv DEF fsm
  <2>3. CASE UNCHANGED req /\ set_fd_idle("CancelUpdate")
    BY <2>3, UnchangedSame, OutsideInv DEF set_fd_idle, InitiatorStates
  <2> QED
    BY <1>6, <2>1, <2>2, <2>3 DEF CancelUpdate
<1>7. CASE GetStatus \/ QueryDeviceIdentifiers \/ GetFirmwareParameters
           \/ ActivatePendingComponentImage \/ UpdateSecurityRevision
  BY <1>7, RefuseInv
  DEF GetStatus, QueryDeviceIdentifiers, GetFirmwareParameters, IdleCommand,
      ActivatePendingComponentImage, UpdateSecurityRevision, ReadOnly
<1> QED
  BY <1>1, <1>2, <1>3, <1>4, <1>5, <1>6, <1>7 DEF UaCommand

\* A request that is sent from the phase it belongs to, with an earned result.
LEMMA SendInv ==
    ASSUME TypeOK, Inv, state \in InitiatorStates, UNCHANGED state,
           NEW cmd, NEW complete \in BOOLEAN, NEW result, Send(cmd, complete, result),
           cmd # None, mode'.kind = mode.kind, ImageReadyForPhase',
           IF complete THEN cmd = CompletionOf(state) /\ result # None
                       ELSE cmd = "RequestFirmwareData" /\ state = "Download",
           complete /\ result = Success =>
               stage' = CASE state = "Download" -> "Downloaded"
                          [] state = "Verify"   -> "Verified"
                          [] OTHER              -> "Applied"
    PROVE  Inv'
<1>1. NextInstanceId # None
  <2>1. NextInstanceId \in 0 .. InstanceIdCount - 1
    BY NextInstanceIdType DEF TypeOK
  <2> QED
    BY <2>1
<1>2. /\ req'.state = "Sent" /\ req'.complete = complete /\ req'.result = result
      /\ req'.command = cmd
      /\ None \notin {req'.instance_id, req'.command, req'.sent_time}
  BY <1>1 DEF Send
<1>3. RequestMatchesState'
  BY <1>2 DEF Inv, RequestMatchesState, CompletionOf
<1>4. SuccessIsEarned'
  BY <1>2 DEF SuccessIsEarned
<1> QED
  BY <1>3, <1>4 DEF Inv

\* The phases that run a callback announce what it returned.
LEMMA ProgressInv ==
    ASSUME TypeOK, Inv, NEW st, NEW callback, NEW results, results \subseteq 0 .. 11,
           NEW cmd, NEW done, Progress(st, callback, results, cmd, done),
           \/ st = "Verify" /\ cmd = "VerifyComplete" /\ done = "Verified"
           \/ st = "Apply" /\ cmd = "ApplyComplete" /\ done = "Applied"
    PROVE  Inv'
<1>1. /\ UNCHANGED state /\ state = st /\ st # "Download"
      /\ state \in InitiatorStates
      /\ cmd = CompletionOf(state) /\ cmd # None
  <2>1. UNCHANGED state /\ state = st
    BY DEF Progress, fsm
  <2>2. None \notin FdCommands
    BY DEF FdCommands
  <2> QED
    BY <2>1, <2>2 DEF CompletionOf, InitiatorStates, FdCommands
<1>2. ASSUME NEW d \in WorkTimes, req' = Later(req, d), mode'.kind = mode.kind,
             UNCHANGED stage
      PROVE  Inv'
  <2>1. SameRequest(req', req)
    BY <1>2, LaterSame DEF TypeOK
  <2> QED
    BY <1>1, <1>2, <2>1, SameRequestInv
<1>3. ASSUME NEW r, r # None, Send(cmd, TRUE, r), mode'.kind = mode.kind,
             stage' = IF r = Success THEN done ELSE stage
      PROVE  Inv'
  <2>1. ImageReadyForPhase'
    BY <1>1, <1>3 DEF Inv, ImageReadyForPhase
  <2>2. r = Success => stage' = CASE state = "Download" -> "Downloaded"
                                  [] state = "Verify"   -> "Verified"
                                  [] OTHER              -> "Applied"
    BY <1>1, <1>3
  <2> QED
    BY <1>1, <1>3, <2>1, <2>2, SendInv
<1>4. ASSUME NEW d \in WorkTimes \cup {0}, FailAfterAlloc(d), mode'.kind = mode.kind,
             stage' = stage \/ (~req.complete /\ stage' = done)
      PROVE  Inv'
  <2>1. SameRequest(req', req)
    BY <1>4, FailAfterAllocSame
  <2>2. stage' = done => ImageReadyForPhase'
    BY <1>1 DEF ImageReadyForPhase
  <2> QED
    BY <1>1, <1>4, <2>1, <2>2, SameRequestInv
<1>5. mode'.kind = mode.kind
  <2>1. \A p : [mode EXCEPT !.progress = p].kind = mode.kind
    BY DEF TypeOK, InitiatorMode
  <2> QED
    BY <2>1 DEF Progress
<1>6. CASE req.complete
  <2>1. GenericError # None /\ GenericError # Success
    BY DEF GenericError, Success
  <2>2. Send(cmd, TRUE, GenericError) \/ FailAfterAlloc(0)
    BY <1>6 DEF Progress
  <2>3. UNCHANGED stage
    BY <1>6 DEF Progress
  <2> QED
    BY <1>3, <1>4, <1>5, <2>1, <2>2, <2>3
<1>7. CASE ~req.complete
  <2>1. \/ \E d \in WorkTimes : req' = Later(req, d) /\ UNCHANGED stage
        \/ \E r \in results, d \in WorkTimes :
              /\ stage' = IF r = Success THEN done ELSE stage
              /\ Send(cmd, TRUE, r) \/ FailAfterAlloc(d)
    BY <1>7 DEF Progress
  <2>2. \A r \in results : r # None
    OBVIOUS
  <2> QED
    BY <1>2, <1>3, <1>4, <1>5, <1>7, <2>1, <2>2
<1> QED
  BY <1>6, <1>7

\* A poll of fd_progress.
LEMMA FdProgressInv ==
    ASSUME TypeOK, Inv, fd_progress
    PROVE  Inv'
<1>1. CASE ProgressNothing
  BY <1>1, UnchangedSame, SameRequestInv DEF ProgressNothing, fsm, history
<1>2. CASE ProgressTimeout
  <2>1. CASE UNCHANGED <<fsm, req>>
    BY <1>2, <2>1, UnchangedSame, SameRequestInv DEF ProgressTimeout, fsm
  <2>2. CASE state' = "Idle" /\ req' = Request("Unused", FALSE, None)
    BY <2>2, RetiredInv DEF InitiatorStates
  <2> QED
    BY <1>2, <2>1, <2>2 DEF ProgressTimeout, set_fd_idle
<1>3. CASE ProgressRequestData
  <2>1. UNCHANGED <<state, stage>> /\ state = "Download"
    BY <1>3 DEF ProgressRequestData, fsm
  <2>2. mode'.kind = mode.kind
    BY <1>3 DEF ProgressRequestData, TypeOK, InitiatorMode
  <2>3. CASE FailAfterAlloc(0)
    BY <2>1, <2>2, <2>3, FailAfterAllocSame, SameRequestInv
  <2>4. CASE Send("RequestFirmwareData", FALSE, None)
    <3>1. ImageReadyForPhase'
      BY <2>1 DEF ImageReadyForPhase
    <3>2. "RequestFirmwareData" # None
      BY DEF FdCommands
    <3> QED
      BY <2>1, <2>2, <2>4, <3>1, <3>2, SendInv DEF InitiatorStates
  <2> QED
    BY <1>3, <2>3, <2>4 DEF ProgressRequestData
<1>4. CASE ProgressTransferComplete
  <2>1. UNCHANGED <<state, stage, mode>> /\ state = "Download"
    BY <1>4 DEF ProgressTransferComplete, fsm
  <2>2. CASE FailAfterAlloc(0)
    BY <2>1, <2>2, FailAfterAllocSame, SameRequestInv
  <2>3. CASE Send("TransferComplete", TRUE, req.result) /\ req.result # None
    <3>1. ImageReadyForPhase'
      BY <2>1 DEF ImageReadyForPhase
    <3>2. "TransferComplete" # None
      BY DEF FdCommands
    <3>3. req.result = Success => stage' = "Downloaded"
      BY <1>4, <2>1
      DEF ProgressTransferComplete, Inv, SuccessIsEarned, should_send_fd_request,
          InitiatorStates
    <3> QED
      BY <2>1, <2>3, <3>1, <3>2, <3>3, SendInv DEF InitiatorStates, CompletionOf
  <2> QED
    BY <1>4, <2>2, <2>3 DEF ProgressTransferComplete
<1>5. CASE ProgressVerify
  BY <1>5, ProgressInv DEF ProgressVerify
<1>6. CASE ProgressApply
  BY <1>6, ProgressInv DEF ProgressApply
<1> QED
  BY <1>1, <1>2, <1>3, <1>4, <1>5, <1>6 DEF fd_progress

\* A response: it never matches a request of another phase, and it ends a phase
\* only with the result the device announced.
LEMMA HandleResponseInv ==
    ASSUME TypeOK, Inv, handle_response
    PROVE  Inv'
<1>1. ASSUME NEW id, NEW cmd, ResponseUnexpected(id, cmd) \/ ResponseOutOfState(id, cmd)
      PROVE  Inv'
  BY <1>1, UnchangedSame, SameRequestInv
  DEF ResponseUnexpected, ResponseOutOfState, fsm, history
<1>2. ASSUME NEW id, NEW cc, NEW enough, FirmwareData(id, cc, enough)
      PROVE  Inv'
  <2>1. state = "Download" /\ UNCHANGED <<state, mode>>
    BY <1>2 DEF FirmwareData, fsm
  <2>2. CASE UNCHANGED <<req, stage>>
    BY <2>1, <2>2, UnchangedSame, SameRequestInv
  <2>3. ASSUME NEW complete \in BOOLEAN, NEW result,
               req' = Request("Ready", complete, result),
               complete => result # None,
               complete /\ result = Success => stage' = "Downloaded"
        PROVE  Inv'
    BY <2>1, <2>3
    DEF Inv, RequestMatchesState, SuccessIsEarned, ImageReadyForPhase, Request
  <2>4. /\ FdAbortedTransfer # None /\ FdAbortedTransfer # Success
        /\ \A res \in TransferResults : res # None
    BY DEF FdAbortedTransfer, Success
  <2> QED
    BY <1>2, <2>2, <2>3, <2>4 DEF FirmwareData
<1>3. ASSUME NEW id, NEW cmd \in FdCommands, PhaseAcknowledged(id, cmd)
      PROVE  Inv'
  <2>1. /\ UNCHANGED stage
        /\ req.state = "Sent" /\ req.complete /\ req.result # None
        /\ state = "Download" \/ state = "Verify" \/ state = "Apply"
    <3>1. state \in InitiatorStates
      <4>1. ServedIn[cmd] \in InitiatorStates
        BY DEF ServedIn, InitiatorStates
      <4> QED
        BY <1>3, <4>1 DEF PhaseAcknowledged
    <3> QED
      BY <1>3, <3>1
      DEF PhaseAcknowledged, Expected, Inv, RequestMatchesState, InitiatorStates
  <2>2. CASE req' = Request("Failed", TRUE, req.result) /\ req.result # Success
             /\ UNCHANGED <<fsm, mode>>
    BY <2>1, <2>2
    DEF Inv, RequestMatchesState, SuccessIsEarned, ImageReadyForPhase, Request, fsm
  <2>3. CASE req.result = Success /\ state = "Download" /\ set_fd_state("Verify")
             /\ req' = Request("Ready", FALSE, None)
    <3>1. stage' = "Downloaded" /\ state' = "Verify"
      BY <2>1, <2>3 DEF Inv, SuccessIsEarned, InitiatorStates, set_fd_state
    <3> QED
      BY <2>3, <3>1, BeginPhaseInv
  <2>4. CASE req.result = Success /\ state = "Verify" /\ set_fd_state("Apply")
             /\ req' = Request("Ready", FALSE, None)
    <3>1. stage' = "Verified" /\ state' = "Apply"
      BY <2>1, <2>4 DEF Inv, SuccessIsEarned, InitiatorStates, set_fd_state
    <3> QED
      BY <2>4, <3>1, BeginPhaseInv
  <2>5. CASE req' = Request("Unused", FALSE, None) /\ set_fd_state("ReadyXfer")
    BY <2>5, RetiredInv DEF set_fd_state, InitiatorStates
  <2> QED
    BY <1>3, <2>1, <2>2, <2>3, <2>4, <2>5 DEF PhaseAcknowledged
<1> QED
  BY <1>1, <1>2, <1>3 DEF handle_response

\* Every step preserves it, and so does none.
LEMMA NextInv ==
    ASSUME TypeOK, Inv, [Next]_vars
    PROVE  Inv'
<1>1. CASE Tick
  <2>1. SameRequest(req', req)
    BY <1>1, LaterSame DEF Tick, TypeOK
  <2> QED
    BY <1>1, <2>1, SameRequestInv DEF Tick, fsm, history
<1>2. CASE UNCHANGED vars
  BY <1>2, UnchangedSame, SameRequestInv DEF vars, fsm, history
<1> QED
  BY <1>1, <1>2, UaCommandInv, FdProgressInv, HandleResponseInv DEF Next

-----------------------------------------------------------------------------
(* The theorems.                                                           *)

\* The inductive invariant holds in every behaviour.
LEMMA SpecInv == Spec => [](TypeOK /\ Inv)
<1>1. Init => Inv
  BY DEF Init, Inv, RequestMatchesState, SuccessIsEarned, ImageReadyForPhase, Request,
         InitiatorStates
<1>2. TypeOK /\ Inv /\ [Next]_vars => Inv'
  BY NextInv
<1> QED
  BY <1>1, <1>2, TypeCorrect, PTL DEF Spec

\* The request record agrees with the state: no handler finds an Option empty
\* that it unwraps or reports as a missing value.
THEOREM RequestAgrees == Spec => []RequestMatchesState
<1>1. Inv => RequestMatchesState
  BY DEF Inv
<1> QED
  BY <1>1, SpecInv, PTL

\* Nothing is verified before it is whole, nor applied before it is verified.
THEOREM PhasesInOrder == Spec => []ImageReadyForPhase
<1>1. Inv => ImageReadyForPhase
  BY DEF Inv
<1> QED
  BY <1>1, SpecInv, PTL

\* A success the device announces, first or again, was earned.
THEOREM NoFalseSuccess == Spec => []SuccessIsEarned
<1>1. Inv => SuccessIsEarned
  BY DEF Inv
<1> QED
  BY <1>1, SpecInv, PTL

\* The device retires the request of an apply only when the platform reported
\* the apply as done: a cancelled one keeps its request.
THEOREM FinishIsEarned == Spec => FinishedOnlyIfApplied
<1>1. TypeOK /\ Inv /\ [Next]_vars
      => [state = "Apply" /\ state' = "ReadyXfer" /\ req'.state = "Unused" =>
             stage = "Applied"]_vars
  <2> SUFFICES ASSUME TypeOK, Inv, Next,
                      state = "Apply", state' = "ReadyXfer", req'.state = "Unused"
               PROVE  stage = "Applied"
    OBVIOUS
  <2>1. req.state # "Unused"
    BY DEF Inv, RequestMatchesState, InitiatorStates
  <2>2. CASE UaCommand
    <3>1. UNCHANGED req
      BY <2>2
      DEF UaCommand, RequestUpdate, is_update_mode, PassComponentTable, UpdateComponent,
          ActivateFirmware, CancelUpdateComponent, CancelUpdate, GetStatus,
          QueryDeviceIdentifiers, GetFirmwareParameters, ActivatePendingComponentImage,
          UpdateSecurityRevision, IdleCommand, ReadOnly, Refuse
    <3> QED
      BY <2>1, <3>1
  <2>3. CASE fd_progress
    <3>1. UNCHANGED state \/ state' = "Idle"
      BY <2>3
      DEF fd_progress, ProgressNothing, ProgressTimeout, ProgressRequestData,
          ProgressTransferComplete, ProgressVerify, ProgressApply, Progress,
          set_fd_idle, fsm
    <3> QED
      BY <3>1
  <2>4. ASSUME NEW id, NEW cmd \in FdCommands, PhaseAcknowledged(id, cmd)
        PROVE  stage = "Applied"
    <3>1. req.state = "Sent" /\ req.complete
      BY <2>4 DEF PhaseAcknowledged, Expected
    <3>2. req.result = Success
      BY <2>4 DEF PhaseAcknowledged, fsm
    <3> QED
      BY <3>1, <3>2 DEF Inv, SuccessIsEarned, InitiatorStates
  <2>5. CASE UNCHANGED state
    BY <2>5
  <2>6. handle_response =>
            \/ UNCHANGED state
            \/ \E id \in 0 .. InstanceIdCount - 1, cmd \in FdCommands :
                   PhaseAcknowledged(id, cmd)
    BY DEF handle_response, ResponseUnexpected, ResponseOutOfState, FirmwareData, fsm
  <2> QED
    BY <2>2, <2>3, <2>4, <2>5, <2>6 DEF Next, Tick, fsm
<1> QED
  BY <1>1, SpecInv, PTL DEF Spec, FinishedOnlyIfApplied
=============================================================================
