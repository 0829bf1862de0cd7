---------------------------- MODULE CmdInterface ----------------------------
(* The front door of the library: CmdInterface takes a message buffer,      *)
(* checks the PLDM header against the capability table, and hands the       *)
(* request to ControlContext (discovery and the terminal ID) or to the      *)
(* firmware device; it also wraps what the firmware device sends and        *)
(* receives as initiator.  What the firmware device does with a request is  *)
(* the subject of FirmwareDevice: here it is one of its answers, an error   *)
(* or a panic.                                                              *)
(*                                                                          *)
(* The busy flag is set and reset by steps of process_request that lie      *)
(* apart, so a request is a call of several steps: received, handled,       *)
(* returned.  &mut self keeps any other call out meanwhile.  A panic        *)
(* unwinds out of the call that raised it, as in a hosted build.            *)
EXTENDS Integers, Sequences

CONSTANTS
    Capabilities,  \* the table: a sequence of [pldm_type, version, commands]
    Messages,      \* what may stand in the buffer: see MessageAssumption
    BufferLens,    \* lengths of msg_buf
    FdCodes,       \* completion codes of the firmware device's answers
    FdPanics,      \* commands whose handler panics on what its platform gave it
    None

ControlCmds == {"SetTid", "GetTid", "GetPldmVersion", "GetPldmTypes", "GetPldmCommands"}

\* The commands process_fw_update_cmd has an arm for.
UaCmds ==
    {"QueryDeviceIdentifiers", "GetFirmwareParameters", "RequestUpdate",
     "PassComponentTable", "UpdateComponent", "ActivateFirmware",
     "CancelUpdateComponent", "CancelUpdate", "UpdateSecurityRevision",
     "GetStatus", "ActivatePendingComponentImage"}

UNASSIGNED_TID == 0

Success                         == 0
InvalidData                     == 2
InvalidLength                   == 3
UnsupportedPldmCmd              == 5
InvalidPldmType                 == 32
InvalidTransferOperationFlag    == 129
InvalidPldmTypeInRequestData    == 131
InvalidPldmVersionInRequestData == 132

\* Sizes in bytes, PLDM header included and MCTP header not.
PLDM_MSG_OFFSET       == 1
PLDM_MSG_HEADER_LEN   == 3
PLDM_FAILURE_RESP_LEN == 4

RequestLen ==
    [SetTid |-> 4, GetTid |-> 3, GetPldmVersion |-> 9, GetPldmTypes |-> 3,
     GetPldmCommands |-> 8]
ResponseLen ==
    [SetTid |-> 4, GetTid |-> 5, GetPldmVersion |-> 13, GetPldmTypes |-> 12,
     GetPldmCommands |-> 36]

\* RequestFirmwareData; TransferComplete and VerifyComplete; ApplyComplete.
FdRequestLens == {11, 4, 6}

\* The fields of PldmMsgHeader, but for the type and the command: these are of
\* the message.
Headers ==
    [instance_id : 0 .. 31, reserved : 0 .. 1, datagram : 0 .. 1, rq : 0 .. 1,
     hdr_ver : 0 .. 3]

\* The argument of a message is <<TID>> of SetTid, <<type, version>> of
\* GetPldmCommands, <<type, transfer operation flag, transfer handle>> of
\* GetPldmVersion, whose handle is not looked at.
ASSUME MessageAssumption ==
    \A m \in Messages :
        /\ m.hdr \in Headers
        /\ m.cmd_code = "SetTid" => m.arg[1] \in 0 .. 255
ASSUME LengthAssumption == BufferLens \subseteq Nat
ASSUME TableAssumption ==
    Len(Capabilities) \in Nat /\ DOMAIN Capabilities = 1 .. Len(Capabilities)

\* The handlers themselves never answer that a command is unsupported.  But
\* ActivateFirmware is answered with the code activate returns, whichever it is:
\* of a platform it has to be assumed that this is not the code in question.
ASSUME CodeAssumption == FdCodes \subseteq Nat \ {UnsupportedPldmCmd}

\* update_component_rsp converts a vendor-defined response code to a byte and
\* back and unwraps; get_firmware_parameters_rsp encodes comp_count entries of a
\* table of eight.  What a handler does with its platform is not decided here.
ASSUME PanicAssumption == FdPanics \subseteq UaCmds

\* A process_request: its buffer holds a message, behind one byte for MCTP.
Calls == [message : Messages, buf_len : BufferLens, step : {"received", "handled"}]

ASSUME NoneAssumption == None \notin Int /\ None \notin Calls

VARIABLES
    tid,       \* ControlContext.tid
    busy,      \* CmdInterface.busy
    call,      \* the process_request under way and how far it is, or None
    result,    \* resp_len: what the call returns, with the message it is about
    unwound,   \* history: the process_request a panic has unwound, or None
    acked,     \* history: the TID of the last SetTid that was answered Success
    versions,  \* history: <<type, version>> that GetPldmVersion has reported
    commands   \* history: <<type, command>> reported for one of these versions

history == <<acked, versions, commands>>
vars    == <<tid, busy, call, result, unwound, acked, versions, commands>>

-----------------------------------------------------------------------------
(* The capability table.                                                    *)

\* Iterator::find: the first capability of a type, and of a type and version.
IsFirst(i, type) ==
    /\ i \in DOMAIN Capabilities /\ Capabilities[i].pldm_type = type
    /\ \A j \in DOMAIN Capabilities : Capabilities[j].pldm_type = type => i <= j

IsFirstVersion(i, type, version) ==
    LET Match(k) == Capabilities[k].pldm_type = type /\ Capabilities[k].version = version
    IN  /\ i \in DOMAIN Capabilities /\ Match(i)
        /\ \A j \in DOMAIN Capabilities : Match(j) => i <= j

\* A byte that is no PLDM type is no type of the table either.
is_supported_type(type) ==
    \E i \in DOMAIN Capabilities : Capabilities[i].pldm_type = type

is_supported_version(type, version) ==
    \E i \in DOMAIN Capabilities :
        Capabilities[i].pldm_type = type /\ Capabilities[i].version = version

\* Mutant: the capability found is the last of its type.
is_supported_command_Last(type, cmd) ==
    \E i \in DOMAIN Capabilities :
        /\ Capabilities[i].pldm_type = type /\ cmd \in Capabilities[i].commands
        /\ \A j \in DOMAIN Capabilities : Capabilities[j].pldm_type = type => j <= i

is_supported_command(type, cmd) ==
    \E i \in DOMAIN Capabilities : IsFirst(i, type) /\ cmd \in Capabilities[i].commands

-----------------------------------------------------------------------------
(* The header.                                                              *)

\* PldmMsgType is two bits: the request bit and, below it, the datagram bit.
Response           == 0
Request            == 2
AsyncRequestNotify == 3

MsgType(h) == 2 * h.rq + h.datagram

\* PldmMsgHeader::new; the setters keep the bits of their field.
NewHeader(instance_id, message_type) ==
    [instance_id |-> instance_id % 32, reserved |-> 0, datagram |-> message_type % 2,
     rq |-> message_type \div 2, hdr_ver |-> 0]

is_request(h)       == h.rq = 1
is_hdr_ver_valid(h) == h.hdr_ver = 0

\* Mutant: the bit of the datagram is cleared for that of the request.
into_response_Datagram(h) == [h EXCEPT !.datagram = 0]

\* The datagram bit stays.
into_response(h) == [h EXCEPT !.rq = 0]

-----------------------------------------------------------------------------
(* What a call returns: "none" is Ok with nothing to send, "fd_ctx" an      *)
(* error of the firmware device.                                            *)

Err(kind) == [kind |-> kind]
Panic     == Err("panic")

\* A response written over the request m, if the buffer holds it.
Encoded(m, len, hdr, code, size) ==
    IF size <= len THEN [kind |-> "reply", message |-> m, hdr |-> hdr, code |-> code]
    ELSE Err("Codec")

\* A failure is answered under the header of the request, a success under a new
\* one with the instance ID of the request.
generate_failure_response(m, len, code) ==
    Encoded(m, len, into_response(m.hdr), code, PLDM_FAILURE_RESP_LEN)

Answer(m, len, size) ==
    Encoded(m, len, NewHeader(m.hdr.instance_id, Response), Success, size)

IsReply(r, code) == r.kind = "reply" /\ r.code = code

-----------------------------------------------------------------------------
(* Requests of the UA.                                                      *)

Init ==
    /\ tid = UNASSIGNED_TID /\ acked = UNASSIGNED_TID
    /\ busy = FALSE
    /\ call = None /\ unwound = None
    /\ result = Err("none")
    /\ versions = {} /\ commands = {}

\* The codes preprocess_request refuses a request with, in its order.
PreprocessError(m, len) ==
    IF len < PLDM_MSG_HEADER_LEN \/ ~is_request(m.hdr) \/ ~is_hdr_ver_valid(m.hdr) THEN InvalidData
    ELSE IF ~is_supported_type(m.pldm_type) THEN InvalidPldmType
    ELSE IF ~is_supported_command(m.pldm_type, m.cmd_code) THEN UnsupportedPldmCmd
    ELSE None

\* The flag is still set, and no call is under way.
Busy ==
    /\ call = None
    /\ busy
    /\ result' = Err("NotReady")
    /\ UNCHANGED <<tid, busy, call, unwound, history>>

\* The flag is taken before anything is looked at.
Received ==
    /\ call = None
    /\ ~busy
    /\ busy' = TRUE
    /\ \E m \in Messages, buf_len \in BufferLens :
          call' = [message |-> m, buf_len |-> buf_len, step |-> "received"]
    /\ result' = Err("none")
    /\ UNCHANGED <<tid, unwound, history>>

\* A panic leaves the call, and the flag as it is.
Unwind ==
    /\ result' = Panic
    /\ call' = None /\ unwound' = call
    /\ UNCHANGED busy

\* A handler is done; the rest of the call is Returned.
Handled ==
    /\ call' = [call EXCEPT !.step = "handled"]
    /\ UNCHANGED <<busy, unwound>>

\* msg_buf[PLDM_MSG_OFFSET..] of an empty buffer.
EmptyBuffer ==
    /\ Unwind
    /\ UNCHANGED <<tid, history>>

\* Mutant: the failure is written before looking for an error.
Refused_Unchecked(m, len) ==
    /\ busy' = FALSE /\ call' = None
    /\ result' = generate_failure_response(m, len, PreprocessError(m, len))
    /\ UNCHANGED <<tid, unwound, history>>

\* Mutant: the flag is reset behind the question mark, so that a buffer without
\* room for the failure returns early and leaves it set.
Refused_ResetsLate(m, len) ==
    /\ PreprocessError(m, len) # None
    /\ result' = generate_failure_response(m, len, PreprocessError(m, len))
    /\ busy' = (result'.kind # "reply") /\ call' = None
    /\ UNCHANGED <<tid, unwound, history>>

\* The early return resets the flag before it writes the failure.
Refused(m, len) ==
    /\ PreprocessError(m, len) # None
    /\ busy' = FALSE /\ call' = None
    /\ result' = generate_failure_response(m, len, PreprocessError(m, len))
    /\ UNCHANGED <<tid, unwound, history>>

\* A type that is in the table and has no arm in process_request.
Unreachable(m) ==
    /\ m.pldm_type \notin {"Base", "FwUpdate"}
    /\ Unwind
    /\ UNCHANGED <<tid, history>>

\* The request of a control command does not fit the buffer.
Undecodable(m, len) ==
    /\ len < RequestLen[m.cmd_code]
    /\ result' = generate_failure_response(m, len, InvalidLength)
    /\ UNCHANGED <<tid, history>>

Decodable(m, len, cmd) == m.cmd_code = cmd /\ len >= RequestLen[cmd]

get_tid_rsp(m, len) ==
    /\ Decodable(m, len, "GetTid")
    /\ result' = Answer(m, len, ResponseLen["GetTid"])
    /\ UNCHANGED <<tid, history>>

\* Mutant: the response needs a byte more than the request.
set_tid_rsp_LongAnswer(m, len) ==
    /\ Decodable(m, len, "SetTid")
    /\ tid' = m.arg[1]
    /\ result' = Answer(m, len, ResponseLen["SetTid"] + 1)
    /\ acked' = IF IsReply(result', Success) THEN m.arg[1] ELSE acked
    /\ UNCHANGED <<versions, commands>>

set_tid_rsp(m, len) ==
    /\ Decodable(m, len, "SetTid")
    /\ tid' = m.arg[1]
    /\ result' = Answer(m, len, ResponseLen["SetTid"])
    /\ acked' = IF IsReply(result', Success) THEN m.arg[1] ELSE acked
    /\ UNCHANGED <<versions, commands>>

\* Six slots for types, and there are no more than six types.
get_pldm_types_rsp(m, len) ==
    /\ Decodable(m, len, "GetPldmTypes")
    /\ result' = Answer(m, len, ResponseLen["GetPldmTypes"])
    /\ UNCHANGED <<tid, history>>

\* An answer that does not fit is replaced by a failure that may.
EncodedOrFailure(m, len, hdr, size) ==
    IF size <= len THEN Encoded(m, len, hdr, Success, size)
    ELSE generate_failure_response(m, len, InvalidLength)

get_pldm_commands_rsp(m, len) ==
    /\ Decodable(m, len, "GetPldmCommands")
    /\ LET type == m.arg[1]
           version == m.arg[2]
       IN  \/ /\ ~is_supported_type(type)
              /\ result' = generate_failure_response(m, len, InvalidPldmTypeInRequestData)
              /\ UNCHANGED commands
           \/ /\ is_supported_type(type) /\ ~is_supported_version(type, version)
              /\ result' = generate_failure_response(m, len, InvalidPldmVersionInRequestData)
              /\ UNCHANGED commands
           \/ \E i \in DOMAIN Capabilities :
              /\ IsFirstVersion(i, type, version)
              /\ result' = EncodedOrFailure(m, len, NewHeader(m.hdr.instance_id, Response),
                                            ResponseLen["GetPldmCommands"])
              /\ commands' =
                    IF IsReply(result', Success) /\ m.arg \in versions
                    THEN commands \cup {<<type, c>> : c \in Capabilities[i].commands}
                    ELSE commands
    /\ UNCHANGED <<tid, acked, versions>>

\* versions[0] is the version of the first capability; the type is supported,
\* so get_protocol_versions finds one and its Error answer is never given.
get_pldm_version_rsp(m, len) ==
    /\ Decodable(m, len, "GetPldmVersion")
    /\ LET type == m.arg[1]
       IN  \/ /\ ~is_supported_type(type)
              /\ result' = generate_failure_response(m, len, InvalidPldmTypeInRequestData)
              /\ UNCHANGED versions
           \/ /\ is_supported_type(type) /\ m.arg[2] # "GetFirstPart"
              /\ result' = generate_failure_response(m, len, InvalidTransferOperationFlag)
              /\ UNCHANGED versions
           \/ \E i \in DOMAIN Capabilities :
              /\ IsFirst(i, type) /\ m.arg[2] = "GetFirstPart"
              /\ result' = EncodedOrFailure(m, len, into_response(m.hdr),
                                            ResponseLen["GetPldmVersion"])
              /\ versions' =
                    IF IsReply(result', Success)
                    THEN versions \cup {<<type, Capabilities[i].version>>}
                    ELSE versions
    /\ UNCHANGED <<tid, acked, commands>>

\* In the table without an arm of its own: the requests only an FD sends, and
\* codes outside of the command enumeration.
Unhandled(m, len) ==
    /\ result' = generate_failure_response(m, len, UnsupportedPldmCmd)
    /\ UNCHANGED <<tid, history>>

process_control_cmd(m, len) ==
    /\ \/ m.cmd_code \in ControlCmds /\ Undecodable(m, len)
       \/ get_tid_rsp(m, len)
       \/ set_tid_rsp(m, len)
       \/ get_pldm_types_rsp(m, len)
       \/ get_pldm_commands_rsp(m, len)
       \/ get_pldm_version_rsp(m, len)
       \/ m.cmd_code \notin ControlCmds /\ Unhandled(m, len)
    /\ Handled

\* The firmware device answers, under either header, or returns an error and
\* no answer.
FdReturns(m, len) ==
    /\ \/ \E code \in FdCodes,
             hdr \in {NewHeader(m.hdr.instance_id, Response), into_response(m.hdr)} :
                 result' = Encoded(m, len, hdr, code, PLDM_FAILURE_RESP_LEN)
       \/ result' = Err("fd_ctx")
    /\ UNCHANGED <<tid, history>>

process_fw_update_cmd(m, len) ==
    \/ /\ \/ m.cmd_code \in UaCmds /\ FdReturns(m, len)
          \/ m.cmd_code \notin UaCmds /\ Unhandled(m, len)
       /\ Handled
    \/ /\ m.cmd_code \in FdPanics
       /\ Unwind
       /\ UNCHANGED <<tid, history>>

Dispatched(m, len) ==
    /\ PreprocessError(m, len) = None
    /\ \/ m.pldm_type = "Base" /\ process_control_cmd(m, len)
       \/ m.pldm_type = "FwUpdate" /\ process_fw_update_cmd(m, len)
       \/ Unreachable(m)

\* What a handler has returned is passed on, an error like an answer.
Returned ==
    /\ call.step = "handled"
    /\ busy' = FALSE /\ call' = None
    /\ UNCHANGED <<tid, result, unwound, history>>

\* The steps of process_request behind the one that took the flag.
process_request ==
    /\ call # None
    /\ \/ /\ call.step = "received"
          /\ IF call.buf_len = 0 THEN EmptyBuffer
             ELSE LET len == call.buf_len - PLDM_MSG_OFFSET
                  IN  Refused(call.message, len) \/ Dispatched(call.message, len)
       \/ Returned

-----------------------------------------------------------------------------
(* The firmware device as initiator; busy is not looked at.                 *)

TooShortForMctp == {l \in BufferLens : l < 1 + PLDM_MSG_HEADER_LEN}

\* The bytes a request takes in msg_buf, and the number the caller is told.
Generated(pldm_len) ==
    [kind |-> "request", written |-> PLDM_MSG_OFFSET + pldm_len, returned |-> pldm_len]

\* fd_progress may panic, as FirmwareDevice has it; the flag does not notice.
generate_initiator_request ==
    /\ call = None
    /\ \/ TooShortForMctp # {} /\ result' = Err("Util")
       \/ \E buf_len \in BufferLens \ TooShortForMctp :
          \/ result' \in {Err("none"), Err("fd_ctx"), Panic}
          \/ \E pldm_len \in FdRequestLens :
             /\ PLDM_MSG_OFFSET + pldm_len <= buf_len
             /\ result' = Generated(pldm_len)
    /\ UNCHANGED <<tid, busy, call, unwound, history>>

\* A buffer that is too short or holds another MCTP message, or what
\* handle_response returns.
process_initiator_response ==
    /\ call = None
    /\ result' \in {Err("Util"), Err("fd_ctx"), Err("none")}
    /\ UNCHANGED <<tid, busy, call, unwound, history>>

-----------------------------------------------------------------------------
Next ==
    \/ Busy
    \/ Received
    \/ process_request
    \/ generate_initiator_request
    \/ process_initiator_response

Spec == Init /\ [][Next]_vars

-----------------------------------------------------------------------------
(* Properties.                                                              *)

ReturnKinds == {"none", "Codec", "Util", "NotReady", "fd_ctx", "panic", "reply", "request"}

\* The TID is a byte, a reply carries a completion code and not the absence of
\* one, and what discovery has reported stands in the table.
TypeOK ==
    /\ tid \in 0 .. 255 /\ acked \in 0 .. 255
    /\ busy \in BOOLEAN
    /\ call \in Calls \cup {None} /\ unwound \in Calls \cup {None}
    /\ result.kind \in ReturnKinds
    /\ result.kind = "reply" =>
            result.message \in Messages /\ result.code # None /\ result.hdr \in Headers
    /\ \A v \in versions : is_supported_version(v[1], v[2])
    /\ \A c \in commands : is_supported_type(c[1])

\* The three ways to panic within process_request.
MayPanic(c) ==
    \/ c.buf_len = 0
    \/ is_supported_type(c.message.pldm_type) /\ c.message.pldm_type \notin {"Base", "FwUpdate"}
    \/ c.message.pldm_type = "FwUpdate" /\ c.message.cmd_code \in FdPanics

\* process_request is ready for a request unless an earlier one panicked, and for
\* one of three reasons: no other way out of it, by an early return, by an error
\* or by an answer that does not fit, leaves the flag set, and only such a panic
\* has requests turned away as NotReady.
ReadyUnlessPanicked ==
    (call = None /\ busy) \/ result.kind = "NotReady" => unwound # None /\ MayPanic(unwound)

\* The terminal ID is the last one whose SetTid was answered with Success: a
\* SetTid whose answer does not fit the buffer has no effect.
TidIsAcknowledged == tid = acked

\* Discovery tells the truth, for any table: GetPldmCommands accepts the
\* version GetPldmVersion reported for a type, and no command reported for
\* that version is refused as unsupported, except for those the UA does not send.
DiscoveryServed ==
    result.kind = "reply" =>
        LET m == result.message
        IN  /\ m.pldm_type = "Base" /\ m.cmd_code = "GetPldmCommands"
                 /\ result.code = InvalidPldmVersionInRequestData
               => m.arg \notin versions
            /\ result.code = UnsupportedPldmCmd
                 /\ \/ m.pldm_type = "Base" /\ m.cmd_code \in ControlCmds
                    \/ m.pldm_type = "FwUpdate" /\ m.cmd_code \in UaCmds
               => <<m.pldm_type, m.cmd_code>> \notin commands

\* The requester recognises the answer: whichever of the two headers it was
\* given, it carries the instance ID of the request, is no request itself, and
\* is a response if the request was none of AsyncRequestNotify.
AnswerFitsRequest ==
    result.kind = "reply" =>
        LET h == result.message.hdr
        IN  /\ result.hdr.instance_id = h.instance_id
            /\ result.hdr.rq = 0
            /\ MsgType(h) = Request => MsgType(result.hdr) = Response
=============================================================================
