------------------------- MODULE CmdInterfaceProofs -------------------------
(* What holds of the front door for every capability table, every set of    *)
(* requests and every length of the buffer.                                 *)
EXTENDS CmdInterface, TLAPS

USE MessageAssumption, LengthAssumption, TableAssumption, CodeAssumption,
    PanicAssumption, NoneAssumption

-----------------------------------------------------------------------------
(* The helpers.                                                             *)

\* A request that is refused gets one of three codes, and is unsupported if
\* it is told so.
LEMMA RefusalCodes ==
    ASSUME NEW m, NEW len, PreprocessError(m, len) # None
    PROVE  \/ PreprocessError(m, len) \in {InvalidData, InvalidPldmType}
           \/ /\ PreprocessError(m, len) = UnsupportedPldmCmd
              /\ ~is_supported_command(m.pldm_type, m.cmd_code)
BY DEF PreprocessError

\* An answer is a reply with the header and the code it was made with, or an
\* error.
LEMMA EncodedShape ==
    ASSUME NEW m, NEW len, NEW hdr, NEW code, NEW size
    PROVE  \/ Encoded(m, len, hdr, code, size)
                 = [kind |-> "reply", message |-> m, hdr |-> hdr, code |-> code]
           \/ Encoded(m, len, hdr, code, size) = [kind |-> "Codec"]
BY DEF Encoded, Err

\* The two headers of an answer: both fit the request.
LEMMA AnswerHeaders ==
    ASSUME NEW h \in Headers
    PROVE  /\ NewHeader(h.instance_id, Response) \in Headers
           /\ NewHeader(h.instance_id, Response).instance_id = h.instance_id
           /\ NewHeader(h.instance_id, Response).rq = 0
           /\ MsgType(NewHeader(h.instance_id, Response)) = Response
           /\ into_response(h) \in Headers
           /\ into_response(h).instance_id = h.instance_id
           /\ into_response(h).rq = 0
           /\ MsgType(h) = Request => MsgType(into_response(h)) = Response
<1>1. h.instance_id \in 0 .. 31 /\ h.datagram \in 0 .. 1 /\ h.rq \in 0 .. 1
  BY DEF Headers
<1>2. h.instance_id % 32 = h.instance_id /\ Response % 2 = 0 /\ Response \div 2 = 0
  <2>1. \A i \in 0 .. 31 : i % 32 = i
    OBVIOUS
  <2>2. 0 % 2 = 0 /\ 0 \div 2 = 0
    OBVIOUS
  <2> QED
    BY <1>1, <2>1, <2>2 DEF Response
<1>3. /\ NewHeader(h.instance_id, Response) \in Headers
      /\ NewHeader(h.instance_id, Response).instance_id = h.instance_id
      /\ NewHeader(h.instance_id, Response).rq = 0
      /\ MsgType(NewHeader(h.instance_id, Response)) = Response
  BY <1>1, <1>2 DEF NewHeader, Headers, MsgType, Response
<1>4. into_response(h) \in Headers
  <2>1. 0 \in 0 .. 1
    OBVIOUS
  <2> QED
    BY <2>1 DEF into_response, Headers
<1>5. /\ into_response(h).instance_id = h.instance_id
      /\ into_response(h).datagram = h.datagram
      /\ into_response(h).rq = 0
  BY DEF into_response, Headers
<1>6. MsgType(h) = Request => MsgType(into_response(h)) = Response
  BY <1>1, <1>5 DEF MsgType, Request, Response
<1> QED
  BY <1>3, <1>4, <1>5, <1>6

\* The first capability of a type is also the first of its type and version:
\* GetPldmVersion and GetPldmCommands look at the same entry.
LEMMA FirstOfItsVersion ==
    ASSUME NEW type, NEW i, NEW j, IsFirst(i, type),
           IsFirstVersion(j, type, Capabilities[i].version)
    PROVE  i = j
<1>1. i \in DOMAIN Capabilities /\ j \in DOMAIN Capabilities
  BY DEF IsFirst, IsFirstVersion
<1>2. i <= j
  BY <1>1 DEF IsFirst, IsFirstVersion
<1>3. j <= i
  BY <1>1 DEF IsFirst, IsFirstVersion
<1> QED
  BY <1>1, <1>2, <1>3

-----------------------------------------------------------------------------
(* The steps.                                                               *)

\* The steps that answer nothing: those outside of a request, its first, and
\* what becomes of an empty buffer.
Silent ==
    \/ Busy \/ Received \/ generate_initiator_request \/ process_initiator_response
    \/ call # None /\ call.step = "received" /\ call.buf_len = 0 /\ EmptyBuffer

\* The steps that look at a request.
Looks(m, len) ==
    /\ call # None /\ call.step = "received" /\ call.buf_len # 0 /\ m = call.message
    /\ Refused(m, len) \/ Dispatched(m, len)

\* A handler that returns, of either context.
Answered(m, len) ==
    /\ \/ m.pldm_type = "Base" /\ process_control_cmd(m, len)
       \/ /\ m.pldm_type = "FwUpdate"
          /\ \/ m.cmd_code \in UaCmds /\ FdReturns(m, len)
             \/ m.cmd_code \notin UaCmds /\ Unhandled(m, len)
    /\ Handled

\* A handler that does not.
Panicked(m) ==
    /\ \/ m.pldm_type \notin {"Base", "FwUpdate"}
       \/ m.pldm_type = "FwUpdate" /\ m.cmd_code \in FdPanics
    /\ Unwind /\ UNCHANGED <<tid, history>>

LEMMA DispatchCases ==
    ASSUME NEW m, NEW len, Dispatched(m, len)
    PROVE  /\ PreprocessError(m, len) = None
           /\ Answered(m, len) \/ Panicked(m)
BY DEF Dispatched, Answered, Panicked, Unreachable, process_control_cmd, process_fw_update_cmd

LEMMA StepCases ==
    ASSUME [Next]_vars
    PROVE  \/ UNCHANGED vars
           \/ Silent
           \/ \E m, len : Looks(m, len)
           \/ call # None /\ Returned
BY DEF Next, process_request, Silent, Looks

LEMMA SilentStep ==
    ASSUME Silent
    PROVE  /\ UNCHANGED <<tid, history>>
           /\ result'.kind \in ReturnKinds /\ result'.kind # "reply"
<1>1. CASE generate_initiator_request
  BY <1>1 DEF generate_initiator_request, history, Err, Panic, Generated, ReturnKinds
<1>2. CASE process_initiator_response
  BY <1>2 DEF process_initiator_response, history, Err, ReturnKinds
<1>3. CASE Busy \/ Received \/ EmptyBuffer
  BY <1>3 DEF Busy, Received, EmptyBuffer, Unwind, history, Err, Panic, ReturnKinds
<1> QED
  BY <1>1, <1>2, <1>3 DEF Silent

-----------------------------------------------------------------------------
(* The terminal ID.                                                         *)

\* SetTid needs as many bytes as its answer, so a TID that was stored was also
\* acknowledged.
THEOREM TidAcknowledged == Spec => []TidIsAcknowledged
<1>1. Init => TidIsAcknowledged
  BY DEF Init, TidIsAcknowledged
<1>2. ASSUME TidIsAcknowledged, [Next]_vars
      PROVE  TidIsAcknowledged'
  <2>1. CASE UNCHANGED <<tid, acked>>
    BY <1>2, <2>1 DEF TidIsAcknowledged
  <2>2. ASSUME NEW m, NEW len, set_tid_rsp(m, len)
        PROVE  TidIsAcknowledged'
    <3>1. len >= 4 /\ ResponseLen["SetTid"] = 4
      BY <2>2 DEF set_tid_rsp, Decodable, RequestLen, ResponseLen
    <3> QED
      BY <2>2, <3>1 DEF set_tid_rsp, TidIsAcknowledged, Answer, Encoded, IsReply
  <2>3. UNCHANGED <<tid, acked>> \/ \E m, len : set_tid_rsp(m, len)
    <3>1. CASE UNCHANGED vars \/ Silent \/ Returned
      BY <3>1, SilentStep DEF vars, history, Returned
    <3>2. ASSUME NEW m, NEW len, Looks(m, len)
          PROVE  UNCHANGED <<tid, acked>> \/ set_tid_rsp(m, len)
      BY <3>2, DispatchCases
         DEF Looks, history, Refused, Answered, Panicked, process_control_cmd, FdReturns,
             Undecodable, Unhandled, get_tid_rsp, get_pldm_types_rsp,
             get_pldm_commands_rsp, get_pldm_version_rsp
    <3> QED
      BY <1>2, <3>1, <3>2, StepCases
  <2> QED
    BY <2>1, <2>2, <2>3
<1> QED
  BY <1>1, <1>2, PTL DEF Spec

-----------------------------------------------------------------------------
(* Types.                                                                   *)

\* An answer to a request of the model with a completion code is well formed.
WellFormed(r) ==
    /\ r.kind \in ReturnKinds
    /\ r.kind = "reply" => r.message \in Messages /\ r.code # None /\ r.hdr \in Headers

LEMMA EncodedWellFormed ==
    ASSUME NEW m \in Messages, NEW len, NEW hdr \in Headers, NEW code \in Int, NEW size
    PROVE  WellFormed(Encoded(m, len, hdr, code, size))
BY EncodedShape DEF WellFormed, ReturnKinds

\* Every call keeps the TID a byte, answers with a code, and reports only what
\* the table holds.
THEOREM TypeCorrect == Spec => []TypeOK
<1>1. ASSUME Init
      PROVE  TypeOK
  <2>1. result.kind = "none"
    BY <1>1 DEF Init, Err
  <2>2. busy \in BOOLEAN /\ versions = {} /\ commands = {}
    BY <1>1 DEF Init
  <2>3. tid \in 0 .. 255 /\ acked \in 0 .. 255
    BY <1>1 DEF Init, UNASSIGNED_TID
  <2>4. call = None /\ unwound = None
    BY <1>1 DEF Init
  <2> QED
    BY <2>1, <2>2, <2>3, <2>4 DEF TypeOK, ReturnKinds
<1>2. ASSUME TypeOK, [Next]_vars
      PROVE  TypeOK'
  <2>1. CASE UNCHANGED vars
    BY <1>2, <2>1 DEF vars, TypeOK, is_supported_version, is_supported_type
  <2>2. CASE Silent
    <3>1. CASE Received
      <4>1. call' \in Calls /\ busy' \in BOOLEAN /\ unwound' = unwound
        BY <3>1 DEF Received, Calls
      <4> QED
        BY <1>2, <2>2, <4>1, SilentStep
           DEF TypeOK, history, is_supported_version, is_supported_type
    <3>2. CASE Busy \/ generate_initiator_request \/ process_initiator_response
      <4>1. UNCHANGED <<busy, call, unwound>>
        BY <3>2 DEF Busy, generate_initiator_request, process_initiator_response
      <4> QED
        BY <1>2, <2>2, <4>1, SilentStep
           DEF TypeOK, history, is_supported_version, is_supported_type
    <3>3. CASE EmptyBuffer
      <4>1. call' = None /\ unwound' = call /\ busy' = busy
        BY <3>3 DEF EmptyBuffer, Unwind
      <4> QED
        BY <1>2, <2>2, <4>1, SilentStep
           DEF TypeOK, history, is_supported_version, is_supported_type
    <3> QED
      BY <2>2, <3>1, <3>2, <3>3 DEF Silent
  <2>3. CASE Returned
    BY <1>2, <2>3 DEF Returned, history, TypeOK, is_supported_version, is_supported_type
  <2>4. ASSUME NEW m, NEW len, Looks(m, len)
        PROVE  TypeOK'
    <3>1. m \in Messages /\ call \in Calls
      BY <1>2, <2>4 DEF TypeOK, Looks, Calls
    <3>2. CASE Refused(m, len)
      <4>1. PreprocessError(m, len) \in Int
        BY <3>2 DEF Refused, PreprocessError, InvalidData, InvalidPldmType, UnsupportedPldmCmd
      <4>2. WellFormed(result')
        <5>1. into_response(m.hdr) \in Headers
          BY <3>1, AnswerHeaders
        <5> QED
          BY <3>1, <3>2, <4>1, <5>1, EncodedWellFormed DEF Refused, generate_failure_response
      <4> QED
        BY <1>2, <3>2, <4>2
           DEF Refused, history, TypeOK, WellFormed, is_supported_version, is_supported_type
    <3>3. CASE Panicked(m)
      BY <1>2, <3>1, <3>3 DEF Panicked, Unwind, history, TypeOK, Panic, Err, ReturnKinds,
         is_supported_version, is_supported_type
    <3>4. CASE Answered(m, len)
      <4>1. WellFormed(result')
        <5>1. /\ NewHeader(m.hdr.instance_id, Response) \in Headers
              /\ into_response(m.hdr) \in Headers
          BY <3>1, AnswerHeaders
        <5> QED
        BY <3>1, <3>4, <5>1, EncodedWellFormed
           DEF Answered, process_control_cmd, FdReturns, Undecodable, Unhandled,
               get_tid_rsp, set_tid_rsp, get_pldm_types_rsp, get_pldm_commands_rsp,
               get_pldm_version_rsp, EncodedOrFailure, generate_failure_response, Answer,
               Success, InvalidLength, UnsupportedPldmCmd, InvalidTransferOperationFlag,
               InvalidPldmTypeInRequestData, InvalidPldmVersionInRequestData,
               WellFormed, Err, ReturnKinds
      <4>2. tid' \in 0 .. 255 /\ acked' \in 0 .. 255
        <5>1. UNCHANGED <<tid, acked>> \/ set_tid_rsp(m, len)
          BY <3>4
             DEF Answered, process_control_cmd, FdReturns, Undecodable, Unhandled,
                 history, get_tid_rsp, get_pldm_types_rsp, get_pldm_commands_rsp,
                 get_pldm_version_rsp
        <5>2. set_tid_rsp(m, len) => tid' \in 0 .. 255 /\ acked' \in {acked, tid'}
          <6>1. m.cmd_code = "SetTid" => m.arg[1] \in 0 .. 255
            BY <3>1
          <6>2. set_tid_rsp(m, len) => /\ m.cmd_code = "SetTid" /\ tid' = m.arg[1]
                                       /\ acked' = m.arg[1] \/ acked' = acked
            BY DEF set_tid_rsp, Decodable
          <6> QED
            BY <6>1, <6>2
        <5> QED
          BY <1>2, <5>1, <5>2 DEF TypeOK
      <4>3. \A v \in versions' : is_supported_version(v[1], v[2])
        BY <1>2, <3>1, <3>4
           DEF TypeOK, Answered, process_control_cmd, FdReturns, Undecodable, Unhandled,
               history, get_tid_rsp, set_tid_rsp, get_pldm_types_rsp,
               get_pldm_commands_rsp, get_pldm_version_rsp, IsFirst, is_supported_version
      <4>4. \A c \in commands' : is_supported_type(c[1])
        BY <1>2, <3>1, <3>4
           DEF TypeOK, Answered, process_control_cmd, FdReturns, Undecodable, Unhandled,
               history, get_tid_rsp, set_tid_rsp, get_pldm_types_rsp,
               get_pldm_commands_rsp, get_pldm_version_rsp, IsFirstVersion, is_supported_type
      <4>5. call' \in Calls /\ UNCHANGED <<busy, unwound>>
        BY <3>1, <3>4
           DEF Answered, Handled, Calls
      <4> QED
        BY <1>2, <4>1, <4>2, <4>3, <4>4, <4>5
           DEF TypeOK, WellFormed, is_supported_version, is_supported_type
    <3> QED
      BY <2>4, <3>2, <3>3, <3>4, DispatchCases DEF Looks
  <2> QED
    BY <1>2, <2>1, <2>2, <2>3, <2>4, StepCases
<1> QED
  BY <1>1, <1>2, PTL DEF Spec

-----------------------------------------------------------------------------
(* Answers.                                                                 *)

\* A reply with one of the two headers fits its request.
Fitting(r) ==
    r.kind = "reply" =>
        /\ r.message \in Messages
        /\ r.hdr \in {NewHeader(r.message.hdr.instance_id, Response),
                      into_response(r.message.hdr)}

LEMMA EncodedFitting ==
    ASSUME NEW m \in Messages, NEW len, NEW code, NEW size,
           NEW hdr \in {NewHeader(m.hdr.instance_id, Response), into_response(m.hdr)}
    PROVE  Fitting(Encoded(m, len, hdr, code, size))
BY EncodedShape DEF Fitting

\* Whatever is answered, success or failure and from whichever context, the
\* requester can match it: instance ID of the request, no request bit, and a
\* response to what was a request.
THEOREM AnswerFits == Spec => []AnswerFitsRequest
<1>1. Init => Fitting(result)
  BY DEF Init, Err, Fitting
<1>2. ASSUME TypeOK, Fitting(result), [Next]_vars
      PROVE  Fitting(result)'
  <2>1. CASE UNCHANGED vars \/ Returned
    BY <1>2, <2>1 DEF vars, Returned, Fitting
  <2>2. CASE Silent
    BY <2>2, SilentStep DEF Fitting
  <2>3. ASSUME NEW m, NEW len, Looks(m, len)
        PROVE  Fitting(result')
    <3>1. m \in Messages
      BY <1>2, <2>3 DEF TypeOK, Looks, Calls
    <3>2. CASE Refused(m, len)
      BY <3>1, <3>2, EncodedFitting DEF Refused, generate_failure_response
    <3>3. CASE Panicked(m)
      BY <3>3 DEF Panicked, Unwind, Panic, Err, Fitting
    <3>4. CASE process_control_cmd(m, len)
      <4>1. \E hdr, code, size :
                /\ hdr \in {NewHeader(m.hdr.instance_id, Response), into_response(m.hdr)}
                /\ result' = Encoded(m, len, hdr, code, size)
        BY <3>4
           DEF process_control_cmd, Undecodable, Unhandled, get_tid_rsp, set_tid_rsp,
               get_pldm_types_rsp, get_pldm_commands_rsp, get_pldm_version_rsp,
               EncodedOrFailure, generate_failure_response, Answer
      <4> QED
        BY <3>1, <4>1, EncodedFitting
    <3>5. CASE FdReturns(m, len) \/ Unhandled(m, len)
      BY <3>1, <3>5, EncodedFitting, SMTT(30)
         DEF FdReturns, Unhandled, generate_failure_response, Err, Fitting
    <3> QED
      BY <2>3, <3>2, <3>3, <3>4, <3>5, DispatchCases DEF Looks, Answered
  <2> QED
    BY <1>2, <2>1, <2>2, <2>3, StepCases
<1>3. Fitting(result) => AnswerFitsRequest
  <2> SUFFICES ASSUME Fitting(result), result.kind = "reply"
               PROVE  LET h == result.message.hdr
                      IN  /\ result.hdr.instance_id = h.instance_id
                          /\ result.hdr.rq = 0
                          /\ MsgType(h) = Request => MsgType(result.hdr) = Response
    BY DEF AnswerFitsRequest
  <2>1. result.message.hdr \in Headers
    BY DEF Fitting
  <2>2. CASE result.hdr = NewHeader(result.message.hdr.instance_id, Response)
    BY <2>1, <2>2, AnswerHeaders
  <2>3. CASE result.hdr = into_response(result.message.hdr)
    BY <2>1, <2>3, AnswerHeaders
  <2> QED
    BY <2>2, <2>3 DEF Fitting
<1> QED
  BY <1>1, <1>2, <1>3, TypeCorrect, PTL DEF Spec

-----------------------------------------------------------------------------
(* Availability.                                                            *)

\* The flag is held by the call under way, and without one only by the panic
\* that ended the last, whose message says why it could panic.
FlagInv ==
    /\ call # None => busy /\ unwound = None
    /\ call = None /\ busy => unwound # None
    /\ unwound # None => busy /\ MayPanic(unwound)
    /\ result.kind = "NotReady" => unwound # None

\* A panic in a handler is one of the two that MayPanic names.
LEMMA PanicHasReason ==
    ASSUME NEW m, NEW len, Dispatched(m, len), Panicked(m), m = call.message
    PROVE  MayPanic(call)
<1>1. CASE m.pldm_type \notin {"Base", "FwUpdate"}
  <2>1. is_supported_type(m.pldm_type)
    BY DispatchCases DEF PreprocessError, InvalidData, InvalidPldmType
  <2> QED
    BY <1>1, <2>1 DEF MayPanic
<1> QED
  BY <1>1 DEF Panicked, MayPanic

\* For every table, buffer and platform: the interface is ready for a request
\* unless an earlier one panicked, on an empty buffer, on a type of the table
\* without a handler, or in the firmware device.
THEOREM ReadyAgain == Spec => []ReadyUnlessPanicked
<1>1. Init => FlagInv
  BY DEF Init, Err, FlagInv
<1>2. ASSUME TypeOK, FlagInv, [Next]_vars
      PROVE  FlagInv'
  <2>1. CASE UNCHANGED vars
    BY <1>2, <2>1 DEF vars, FlagInv, MayPanic, is_supported_type
  <2>2. CASE Silent
    <3>1. CASE Busy \/ generate_initiator_request \/ process_initiator_response
      <4>1. /\ UNCHANGED <<busy, call, unwound>>
            /\ result'.kind = "NotReady" => call = None /\ busy
        BY <3>1 DEF Busy, generate_initiator_request, process_initiator_response,
           Err, Panic, Generated
      <4> QED
        BY <1>2, <4>1 DEF FlagInv, MayPanic, is_supported_type
    <3>2. CASE Received
      <4>1. call' \in Calls /\ call = None /\ ~busy /\ busy' /\ unwound' = unwound
        BY <3>2 DEF Received, Calls
      <4>2. result'.kind # "NotReady" /\ call' # None
        BY <3>2, <4>1 DEF Received, Err
      <4> QED
        BY <1>2, <4>1, <4>2 DEF FlagInv, MayPanic, is_supported_type
    <3>3. CASE call # None /\ call.buf_len = 0 /\ EmptyBuffer
      <4>1. call' = None /\ unwound' = call /\ busy' = busy /\ MayPanic(call)
        BY <3>3 DEF EmptyBuffer, Unwind, MayPanic
      <4> QED
        BY <1>2, <3>3, <4>1 DEF FlagInv, MayPanic, is_supported_type
    <3> QED
      BY <2>2, <3>1, <3>2, <3>3 DEF Silent
  <2>3. CASE call # None /\ Returned
    <3>1. call' = None /\ ~busy' /\ UNCHANGED <<unwound, result>>
      BY <2>3 DEF Returned
    <3> QED
      BY <1>2, <2>3, <3>1 DEF FlagInv
  <2>4. ASSUME NEW m, NEW len, Looks(m, len)
        PROVE  FlagInv'
    <3>1. m \in Messages /\ call \in Calls /\ call # None
      BY <1>2, <2>4 DEF TypeOK, Looks, Calls
    <3>2. CASE Refused(m, len)
      <4>1. call' = None /\ ~busy' /\ unwound' = unwound
        BY <3>2 DEF Refused
      <4>2. result'.kind # "NotReady"
        BY <3>2, EncodedShape DEF Refused, generate_failure_response
      <4> QED
        BY <1>2, <3>1, <4>1, <4>2 DEF FlagInv
    <3>3. CASE Dispatched(m, len) /\ Panicked(m)
      <4>1. call' = None /\ unwound' = call /\ busy' = busy
        BY <3>3 DEF Panicked, Unwind
      <4>2. MayPanic(call)
        BY <2>4, <3>3, PanicHasReason DEF Looks
      <4> QED
        BY <1>2, <3>1, <4>1, <4>2 DEF FlagInv, MayPanic, is_supported_type
    <3>4. CASE Answered(m, len)
      <4>1. call' \in Calls /\ UNCHANGED <<busy, unwound>>
        BY <3>1, <3>4 DEF Answered, Handled, Calls
      <4>2. result'.kind # "NotReady"
        BY <3>4, EncodedShape
           DEF Answered, process_control_cmd, FdReturns, Undecodable, Unhandled,
               get_tid_rsp, set_tid_rsp, get_pldm_types_rsp, get_pldm_commands_rsp,
               get_pldm_version_rsp, EncodedOrFailure, generate_failure_response,
               Answer, Err
      <4> QED
        BY <1>2, <3>1, <4>1, <4>2 DEF FlagInv, MayPanic, is_supported_type
    <3> QED
      BY <2>4, <3>2, <3>3, <3>4, DispatchCases DEF Looks
  <2> QED
    BY <1>2, <2>1, <2>2, <2>3, <2>4, StepCases
<1>3. FlagInv => ReadyUnlessPanicked
  BY DEF FlagInv, ReadyUnlessPanicked
<1> QED
  BY <1>1, <1>2, <1>3, TypeCorrect, PTL DEF Spec

-----------------------------------------------------------------------------
(* Discovery.                                                               *)

\* What discovery has reported is what the first capability of a type holds:
\* the entry is_supported_command looks at.
Reported ==
    /\ \A v \in versions : \E i : IsFirst(i, v[1]) /\ Capabilities[i].version = v[2]
    /\ \A c \in commands : is_supported_command(c[1], c[2])

Inv == Reported /\ DiscoveryServed

\* An answer with a code that discovery does not depend on.
Harmless(r) ==
    r.kind = "reply" => r.code \notin {UnsupportedPldmCmd, InvalidPldmVersionInRequestData}

\* Calls that report nothing and answer with such a code keep the invariant.
LEMMA HarmlessStep ==
    ASSUME Inv, UNCHANGED <<versions, commands>>, Harmless(result')
    PROVE  Inv'
BY DEF Inv, Reported, DiscoveryServed, Harmless

\* Failures and answers are harmless when their code is.
LEMMA HarmlessAnswer ==
    ASSUME NEW m, NEW len, NEW hdr, NEW code, NEW size,
           code \notin {UnsupportedPldmCmd, InvalidPldmVersionInRequestData}
    PROVE  Harmless(Encoded(m, len, hdr, code, size))
BY EncodedShape DEF Harmless

\* A refusal as unsupported is about a command discovery has not reported.
LEMMA RefusedKeeps ==
    ASSUME Inv, NEW m, NEW len, Refused(m, len)
    PROVE  Inv'
<1>1. result' = Encoded(m, len, into_response(m.hdr), PreprocessError(m, len),
                        PLDM_FAILURE_RESP_LEN)
  BY DEF Refused, generate_failure_response
<1>2. PreprocessError(m, len) # None /\ UNCHANGED <<versions, commands>>
  BY DEF Refused, history
<1>3. CASE PreprocessError(m, len) \in {InvalidData, InvalidPldmType}
  <2>1. Harmless(result')
    BY <1>1, <1>3, HarmlessAnswer
       DEF InvalidData, InvalidPldmType, UnsupportedPldmCmd, InvalidPldmVersionInRequestData
  <2> QED
    BY <1>2, <2>1, HarmlessStep
<1>4. CASE /\ PreprocessError(m, len) = UnsupportedPldmCmd
           /\ ~is_supported_command(m.pldm_type, m.cmd_code)
  <2>1. <<m.pldm_type, m.cmd_code>> \notin commands
    BY <1>4 DEF Inv, Reported
  <2>2. \/ result' = [kind |-> "reply", message |-> m, hdr |-> into_response(m.hdr),
                      code |-> UnsupportedPldmCmd]
        \/ result' = [kind |-> "Codec"]
    BY <1>1, <1>4, EncodedShape
  <2> QED
    BY <1>2, <2>1, <2>2
       DEF Inv, Reported, DiscoveryServed, UnsupportedPldmCmd, InvalidPldmVersionInRequestData
<1> QED
  BY <1>2, <1>3, <1>4, RefusalCodes

\* What GetPldmVersion reports is the version of the first capability.
LEMMA VersionKeeps ==
    ASSUME Inv, NEW m, NEW len, get_pldm_version_rsp(m, len)
    PROVE  Inv'
<1>1. UNCHANGED commands
  BY DEF get_pldm_version_rsp
<1>2. Harmless(result')
  BY HarmlessAnswer
     DEF get_pldm_version_rsp, EncodedOrFailure, generate_failure_response, Success,
         InvalidLength, InvalidPldmTypeInRequestData, InvalidTransferOperationFlag,
         UnsupportedPldmCmd, InvalidPldmVersionInRequestData
<1>3. CASE UNCHANGED versions
  BY <1>1, <1>2, <1>3, HarmlessStep
<1>4. CASE \E i \in DOMAIN Capabilities :
              /\ IsFirst(i, m.arg[1])
              /\ versions' = versions \cup {<<m.arg[1], Capabilities[i].version>>}
  <2>1. Reported'
    BY <1>1, <1>4 DEF Inv, Reported, is_supported_command
  <2> QED
    BY <2>1, <1>2 DEF Inv, DiscoveryServed, Harmless
<1> QED
  BY <1>3, <1>4 DEF get_pldm_version_rsp

\* GetPldmCommands accepts a version that was reported, and reports for it the
\* commands of the first capability.
LEMMA CommandsKeeps ==
    ASSUME Inv, NEW m, NEW len, get_pldm_commands_rsp(m, len)
    PROVE  Inv'
<1>1. UNCHANGED versions /\ m.cmd_code = "GetPldmCommands"
  BY DEF get_pldm_commands_rsp, Decodable
<1>2. CASE /\ ~is_supported_version(m.arg[1], m.arg[2])
           /\ UNCHANGED commands
           /\ result' = generate_failure_response(m, len, InvalidPldmVersionInRequestData)
  <2>1. m.arg \notin versions
    BY <1>2 DEF Inv, Reported, IsFirst, is_supported_version
  <2>2. \/ result' = [kind |-> "reply", message |-> m, hdr |-> into_response(m.hdr),
                      code |-> InvalidPldmVersionInRequestData]
        \/ result' = [kind |-> "Codec"]
    BY <1>2, EncodedShape DEF generate_failure_response
  <2> QED
    BY <1>1, <1>2, <2>1, <2>2
       DEF Inv, Reported, DiscoveryServed, UnsupportedPldmCmd, InvalidPldmVersionInRequestData
<1>3. CASE /\ UNCHANGED commands
           /\ result' = generate_failure_response(m, len, InvalidPldmTypeInRequestData)
  <2>1. Harmless(result')
    BY <1>3, HarmlessAnswer
       DEF generate_failure_response, InvalidPldmTypeInRequestData,
           UnsupportedPldmCmd, InvalidPldmVersionInRequestData
  <2> QED
    BY <1>1, <1>3, <2>1, HarmlessStep
<1>4. ASSUME NEW i \in DOMAIN Capabilities,
             IsFirstVersion(i, m.arg[1], m.arg[2]),
             result' = EncodedOrFailure(m, len, NewHeader(m.hdr.instance_id, Response),
                                        ResponseLen["GetPldmCommands"]),
             commands' = IF IsReply(result', Success) /\ m.arg \in versions
                         THEN commands \cup {<<m.arg[1], c>> : c \in Capabilities[i].commands}
                         ELSE commands
      PROVE  Inv'
  <2>1. Harmless(result')
    BY <1>4, HarmlessAnswer
       DEF EncodedOrFailure, generate_failure_response, Success, InvalidLength,
           UnsupportedPldmCmd, InvalidPldmVersionInRequestData
  <2>2. CASE UNCHANGED commands
    BY <1>1, <2>1, <2>2, HarmlessStep
  <2>3. CASE /\ m.arg \in versions
             /\ commands' = commands \cup {<<m.arg[1], c>> : c \in Capabilities[i].commands}
    <3>1. PICK k : IsFirst(k, m.arg[1]) /\ Capabilities[k].version = m.arg[2]
      BY <2>3 DEF Inv, Reported
    <3>2. k = i
      BY <1>4, <3>1, FirstOfItsVersion
    <3>3. \A c \in Capabilities[i].commands : is_supported_command(m.arg[1], c)
      BY <1>4, <3>1, <3>2 DEF is_supported_command
    <3>4. Reported'
      BY <1>1, <2>3, <3>3 DEF Inv, Reported, is_supported_command
    <3> QED
      BY <2>1, <3>4 DEF Inv, DiscoveryServed, Harmless
  <2> QED
    BY <1>4, <2>2, <2>3
<1> QED
  BY <1>2, <1>3, <1>4 DEF get_pldm_commands_rsp

\* The other control commands report nothing.
LEMMA ControlKeeps ==
    ASSUME Inv, NEW m, NEW len, m.pldm_type = "Base", process_control_cmd(m, len)
    PROVE  Inv'
<1>1. CASE \/ Undecodable(m, len)
           \/ get_tid_rsp(m, len)
           \/ set_tid_rsp(m, len)
           \/ get_pldm_types_rsp(m, len)
  <2>1. UNCHANGED <<versions, commands>>
    BY <1>1 DEF Undecodable, get_tid_rsp, set_tid_rsp, get_pldm_types_rsp, history
  <2>2. Harmless(result')
    BY <1>1, HarmlessAnswer
       DEF Undecodable, get_tid_rsp, set_tid_rsp, get_pldm_types_rsp,
           generate_failure_response, Answer, Success, InvalidLength, UnsupportedPldmCmd,
           InvalidPldmVersionInRequestData
  <2> QED
    BY <2>1, <2>2, HarmlessStep
<1>2. CASE m.cmd_code \notin ControlCmds /\ Unhandled(m, len)
  BY <1>2, EncodedShape
     DEF Unhandled, history, generate_failure_response, Inv, Reported, DiscoveryServed,
         UnsupportedPldmCmd, InvalidPldmVersionInRequestData
<1> QED
  BY <1>1, <1>2, VersionKeeps, CommandsKeeps DEF process_control_cmd

\* The firmware device knows every command it has a handler for.
LEMMA FirmwareKeeps ==
    ASSUME Inv, NEW m, NEW len, m.pldm_type = "FwUpdate",
           \/ m.cmd_code \in UaCmds /\ FdReturns(m, len)
           \/ m.cmd_code \notin UaCmds /\ Unhandled(m, len)
    PROVE  Inv'
<1>1. UNCHANGED <<versions, commands>>
  BY DEF FdReturns, Unhandled, history
<1>2. CASE m.cmd_code \notin UaCmds /\ Unhandled(m, len)
  BY <1>1, <1>2, EncodedShape
     DEF Unhandled, generate_failure_response, Inv, Reported, DiscoveryServed,
         UnsupportedPldmCmd, InvalidPldmVersionInRequestData
<1>3. CASE result' = Err("fd_ctx")
  BY <1>1, <1>3, HarmlessStep DEF Err, Harmless
<1>4. ASSUME NEW code \in FdCodes, NEW hdr,
             result' = Encoded(m, len, hdr, code, PLDM_FAILURE_RESP_LEN)
      PROVE  Inv'
  BY <1>1, <1>4, EncodedShape DEF Inv, Reported, DiscoveryServed, UnsupportedPldmCmd
<1> QED
  BY <1>2, <1>3, <1>4 DEF FdReturns

\* Discovery tells the truth, for any table: GetPldmCommands accepts the version
\* GetPldmVersion reported, and a command reported for it is not refused as
\* unsupported, whatever other versions of the type the table holds.
THEOREM DiscoveryHolds == Spec => []DiscoveryServed
<1>1. Init => Inv
  BY DEF Init, Err, Inv, Reported, DiscoveryServed
<1>2. ASSUME Inv, [Next]_vars
      PROVE  Inv'
  <2>1. CASE UNCHANGED vars
    BY <1>2, <2>1 DEF vars, Inv, Reported, DiscoveryServed
  <2>2. CASE Silent
    BY <1>2, <2>2, SilentStep, HarmlessStep DEF Harmless, history
  <2>3. CASE Returned
    BY <1>2, <2>3 DEF Returned, history, Inv, Reported, DiscoveryServed
  <2>4. ASSUME NEW m, NEW len, Looks(m, len)
        PROVE  Inv'
    <3>1. CASE Panicked(m)
      BY <1>2, <3>1, HarmlessStep DEF Panicked, Unwind, history, Panic, Err, Harmless
    <3> QED
      BY <1>2, <2>4, <3>1, DispatchCases, RefusedKeeps, ControlKeeps, FirmwareKeeps
         DEF Looks, Answered
  <2> QED
    BY <1>2, <2>1, <2>2, <2>3, <2>4, StepCases
<1>3. Inv => DiscoveryServed
  BY DEF Inv
<1> QED
  BY <1>1, <1>2, <1>3, PTL DEF Spec
=============================================================================
