----------------------------- MODULE FdUaSystem -----------------------------
(***************************************************************************)
(* The firmware device, an Update Agent and the link between them, around  *)
(* one platform: components are offered and judged, their images travel in *)
(* chunks, are applied and activated.  The device is FirmwareDevice, every *)
(* step of it a step here; a response reaches it only over the link.       *)
(*                                                                         *)
(* The link loses messages.  An ordered one delivers what it keeps in the  *)
(* order of sending and once; another one delivers late, in any order and  *)
(* more than once.                                                         *)
(***************************************************************************)
EXTENDS FirmwareDevice, Sequences, SequencesExt

CONSTANTS
    Ordered,             \* the link keeps the order and delivers once
    MaxRequests,         \* how many messages each direction of it holds
    MaxResponses,
    Offer,               \* key, stamp and version of each component
    FirstTable,          \* the entries of the platform's components at first
    MaxComponentCount, ZeroKey, Unspecified   \* of ComponentEligibility

VARIABLES
    requests,    \* what the device has sent and the UA has not seen yet
    responses,   \* what the UA has sent and the device has not seen yet
    image,       \* the platform: the byte it holds at each offset
    active,      \* the platform: the entries of its components
    pending,     \* the platform: what is applied for each of them, if anything
    told         \* history: the commands of this component the UA has answered

link     == <<requests, responses>>
platform == <<image, active, pending>>
sysvars  == <<vars, link, platform, told>>

ASSUME LinkAssumption ==
    /\ Ordered \in BOOLEAN
    /\ MaxRequests \in Nat /\ MaxResponses \in Nat
    /\ T2 > 0

ASSUME OfferAssumption ==
    /\ MaxComponentCount \in Nat
    /\ \A comp \in Components : Offer[comp].stamp \in Nat
    /\ FirstTable \in Seq(Range(FirstTable))
    /\ \A entry \in Range(FirstTable) : entry.stamp \in Nat

Eligibility == INSTANCE ComponentEligibility

-----------------------------------------------------------------------------
(* The platform behind FdOps.                                              *)

Byte(comp, offset) == [image |-> comp, offset |-> offset]

Offsets(comp) == 0 .. ImageSize[comp] - 1

Blank(comp) == [ i \in Offsets(comp) |-> None ]

\* handle_component, with the parameters get_firmware_parms has just returned.
Eligible(comp) ==
    Eligibility!evaluate_update_eligibility(Offer[comp], Eligibility!ParamTable(active))
        = Eligibility!CanBeUpdated

Slot(comp) == Eligibility!FirstEntry(Offer[comp].key, active)

\* download_fw_data: `length' bytes of data at the offset of the chunk under
\* way; bytes of the padding are dropped.
Write(data) ==
    image' = [ i \in DOMAIN image |->
                  IF i \in mode.offset .. mode.offset + mode.length - 1
                  THEN data[i - mode.offset + 1] ELSE image[i] ]

Whole == \A i \in DOMAIN image : image'[i] # None

SysInit ==
    /\ Init
    /\ requests = <<>> /\ responses = <<>>
    /\ image = <<>>
    /\ active = FirstTable
    /\ pending = [ i \in DOMAIN FirstTable |-> None ]
    /\ told = {}

-----------------------------------------------------------------------------
(* The device polls: what it sends goes to the link, or is lost.           *)

\* The poll sends a request: when one is due only Send leaves sent_time at 0.
Sends == should_send_fd_request /\ req'.state = "Sent" /\ req'.sent_time = 0

\* What the request says: a chunk, or nothing but its command.
Sent ==
    [ id |-> wire_id', command |-> req'.command, comp |-> update_comp,
      offset |-> IF req'.command = "RequestFirmwareData" THEN mode'.offset ELSE 0,
      length |-> IF req'.command = "RequestFirmwareData" THEN mode'.length ELSE 0 ]

Poll ==
    /\ fd_progress
    /\ IF Sends /\ Len(requests) < MaxRequests
       THEN requests' = Append(requests, Sent)
       ELSE UNCHANGED requests
    \* query_download_offset_and_length asks for a range that is missing
    /\ Sends /\ req'.command = "RequestFirmwareData"
          => mode'.offset \in DOMAIN image /\ image[mode'.offset] = None
    /\ pending' = IF stage # "Applied" /\ stage' = "Applied"
                  THEN [pending EXCEPT ![Slot(update_comp)] = update_comp]
                  ELSE pending
    /\ UNCHANGED <<responses, image, active, told>>

-----------------------------------------------------------------------------
(* The UA.                                                                 *)

\* The messages a receiver may take next, and what stays in the link.
Arrivals(channel) == IF Ordered THEN 1 .. (IF channel = <<>> THEN 0 ELSE 1)
                                ELSE DOMAIN channel

Rest(channel, i) ==
    IF Ordered THEN {Tail(channel)} ELSE {channel, RemoveAt(channel, i)}

Response(m, cc, data) == [id |-> m.id, command |-> m.command, cc |-> cc, data |-> data]

\* What the UA may answer: a request for data with the data of the component it
\* is updating from the offset asked for, with too little of it, with a plea for
\* time or with an error; a request that ends a phase it acknowledges.
Answers(m) ==
    IF m.command # "RequestFirmwareData" THEN {Response(m, "Success", <<>>)}
    ELSE { Response(m, cc, <<>>) : cc \in {"RetryRequestFwData", "Error"} } \cup
         { Response(m, "Success", [ k \in 1 .. n |-> Byte(m.comp, m.offset + k - 1) ]) :
               n \in {m.length, m.length - 1} }

UaAnswers ==
    /\ Len(responses) < MaxResponses
    /\ \E i \in Arrivals(requests) :
          /\ requests' \in Rest(requests, i)
          /\ \E r \in Answers(requests[i]) : responses' = Append(responses, r)
          /\ told' = IF requests[i].comp = update_comp
                     THEN told \cup {requests[i].command} ELSE told
    /\ UNCHANGED <<vars, platform>>

\* A command the device serves; on an ordered link it arrives behind the
\* responses sent before it.  Commands that are refused or only read are left
\* out: they change nothing here but the age of T1 (RefusalChangesNothing).
Served ==
    /\ Ordered => responses = <<>>
    /\ reply' \in {"Success", "ActivationNotRequired"}

Accepted == state = "ReadyXfer" /\ state' = "Download"

\* UpdateComponent.  A UA on an ordered link that begins a transfer knows the
\* requests of an earlier one, and lets them be.
OfferComponent ==
    /\ UpdateComponent /\ Served
    /\ Accepted <=> Eligible(update_comp')
    /\ IF Accepted
       THEN /\ image' = Blank(update_comp')
            /\ told' = {}
            /\ requests' = IF Ordered THEN <<>> ELSE requests
       ELSE UNCHANGED <<image, told, requests>>
    /\ UNCHANGED <<responses, active, pending>>

\* ActivateFirmware: what has been applied is what runs from now on.
Activate ==
    /\ ActivateFirmware /\ Served
    /\ active' = [ i \in DOMAIN active |->
                      IF pending[i] = None THEN active[i]
                      ELSE Eligibility!EntryOf(Offer[pending[i]]) ]
    /\ pending' = [ i \in DOMAIN pending |-> None ]
    /\ UNCHANGED <<link, image, told>>

\* The commands that move the device but not the platform.
OtherCommand ==
    /\ \/ RequestUpdate
       \/ \E last \in BOOLEAN : PassComponentTable(last)
       \/ CancelUpdateComponent
       \/ CancelUpdate
    /\ Served
    /\ UNCHANGED <<link, platform, told>>

-----------------------------------------------------------------------------
(* The link delivers a response, or loses a message.                       *)

\* A response of firmware data whose data is written tells the device
\* (is_download_complete) whether it was the last.
Data(r) ==
    /\ FirmwareData(r.id, r.cc, Len(r.data) >= mode.length)
    /\ IF r.cc = "Success" /\ Len(r.data) >= mode.length
       THEN /\ Write(r.data)
            /\ req'.result \in {None, Success} => (req'.complete <=> Whole)
       ELSE UNCHANGED image

\* Mutant: a response is taken for the answer to whatever is outstanding.
Deliver_Unmatched ==
    /\ \E i \in Arrivals(responses) :
          LET r == IF req.state = "Sent"
                   THEN [responses[i] EXCEPT !.id = req.instance_id,
                                             !.command = req.command]
                   ELSE responses[i]
          IN  /\ responses' \in Rest(responses, i)
              /\ \/ /\ \/ ResponseUnexpected(r.id, r.command)
                       \/ ResponseOutOfState(r.id, r.command)
                       \/ PhaseAcknowledged(r.id, r.command)
                    /\ UNCHANGED image
                 \/ r.command = "RequestFirmwareData" /\ Data(r)
    /\ UNCHANGED <<requests, active, pending, told>>

Deliver ==
    /\ \E i \in Arrivals(responses) :
          LET r == responses[i]
          IN  /\ responses' \in Rest(responses, i)
              /\ \/ /\ \/ ResponseUnexpected(r.id, r.command)
                       \/ ResponseOutOfState(r.id, r.command)
                       \/ PhaseAcknowledged(r.id, r.command)
                    /\ UNCHANGED image
                 \/ r.command = "RequestFirmwareData" /\ Data(r)
    /\ UNCHANGED <<requests, active, pending, told>>

Lose ==
    /\ \/ /\ \E i \in DOMAIN requests : requests' = RemoveAt(requests, i)
          /\ UNCHANGED responses
       \/ /\ \E i \in DOMAIN responses : responses' = RemoveAt(responses, i)
          /\ UNCHANGED requests
    /\ UNCHANGED <<vars, platform, told>>

TimePasses == Tick /\ UNCHANGED <<link, platform, told>>

SysNext ==
    \/ Poll
    \/ UaAnswers \/ OfferComponent \/ Activate \/ OtherCommand
    \/ Deliver \/ Lose
    \/ TimePasses

SysSpec == SysInit /\ [][SysNext]_sysvars

-----------------------------------------------------------------------------
(* What has to be true of the whole.                                       *)

\* Every byte the platform holds while it downloads, verifies or applies is of
\* the component under way and lies at its own offset: the data of a response
\* is data for the chunk it is written to (process_request_fw_data_rsp writes at
\* the offset of the chunk under way, the response names none).
BytesInPlace ==
    state \in InitiatorStates =>
        \A i \in DOMAIN image : image[i] \in {None, Byte(update_comp, i)}

\* A phase is left only when the UA has been told of its end: an acknowledgement
\* is of this phase of this component, although IDs restart with every phase.
UaKnowsThePhase ==
    /\ state \in {"Verify", "Apply"} => "TransferComplete" \in told
    /\ state = "Apply" => "VerifyComplete" \in told

\* What runs is replaced only by something newer: by a greater stamp, and by a
\* version that is not below, however many components were applied in between.
OnlyNewerRuns ==
    [][\A i \in DOMAIN active : active'[i] # active[i] =>
          /\ active'[i].stamp > active[i].stamp
          /\ active'[i].version # active[i].version
          /\ ~Eligibility!Below(active'[i].version, active[i].version)]_sysvars

\* Bytes arrive at their offsets, and nothing but a whole image is verified.
Transfer == INSTANCE ImageTransfer WITH
                Images <- Components, SizeOf <- ImageSize, Nothing <- None,
                target   <- IF state \in InitiatorStates THEN update_comp ELSE None,
                stored   <- IF state \in InitiatorStates THEN image ELSE <<>>,
                accepted <- state \in {"Verify", "Apply"}

ImplementsTransfer == Transfer!Spec

\* The application polls when there is something to do, and the clock moves.
SysFairness ==
    /\ WF_sysvars(TimePasses)
    /\ WF_sysvars(Poll /\ (Sends \/ state' = "Idle"))

SysLiveSpec == SysSpec /\ SysFairness

\* The UA puts the device off: it asks for time, or sends too little data.
PutsOff ==
    /\ UaAnswers
    /\ LET r == Last(responses')
       IN  r.command = "RequestFirmwareData" /\ r.data = <<>>

\* Whatever the link loses, a download comes to an end unless the UA puts it off
\* for ever: every chunk is fetched in the end, or the silence is noticed.
DownloadEnds ==
    <>[][~PutsOff]_sysvars =>
        []<>(state # "Download" \/ req.state = "Failed")
=============================================================================
