-------------------------- MODULE FdUaSystemProofs --------------------------
(***************************************************************************)
(* The device inside the system, for every value of the constants.  What   *)
(* the link carries has IDs and commands the device can be asked about, so *)
(* every behaviour of the system is one of FirmwareDevice and every        *)
(* theorem about the device holds in it.  What a platform runs is replaced *)
(* only by something newer.  Over a link that keeps the order, the bytes   *)
(* of a component lie at their offsets, and a phase ends only when the UA  *)
(* has been told.                                                          *)
(***************************************************************************)
EXTENDS FdUaSystem, FirmwareDeviceHistoryProofs, SequenceTheorems,
        WellFoundedInduction

USE ComponentAssumption, NumberAssumption, CallbackAssumption, NoneAssumption,
    LinkAssumption, OfferAssumption

-----------------------------------------------------------------------------
(* What the link carries.                                                  *)

Ids == 0 .. InstanceIdCount - 1

RequestMessage ==
    [ id : Ids, command : FdCommands, comp : Components \cup {None},
      offset : 0 .. U32 - 1, length : 0 .. U32 - 1 ]

Bytes == [image : Components \cup {None}, offset : Int]

ResponseMessage ==
    [ id : Ids, command : FdCommands,
      cc : {"Success", "RetryRequestFwData", "Error"}, data : Seq(Bytes) ]

LinkInv ==
    /\ requests \in Seq(RequestMessage)
    /\ responses \in Seq(ResponseMessage)
    /\ req.state = "Sent" => wire_id \in Ids

\* A message taken out of a channel leaves a channel.
LEMMA RemoveType ==
    ASSUME NEW S, NEW s \in Seq(S), NEW i \in DOMAIN s
    PROVE  RemoveAt(s, i) \in Seq(S)
<1>1. i \in 1 .. Len(s) /\ Len(s) \in Nat
  BY LenProperties
<1>2. \A j \in 1 .. Len(s) : s[j] \in S
  BY ElementOfSeq
<1>3. SubSeq(s, 1, i - 1) \in Seq(S)
  <2>1. \A j \in 1 .. i - 1 : s[j] \in S
    BY <1>1, <1>2
  <2> QED
    BY <1>1, <2>1, SubSeqProperties
<1>4. SubSeq(s, i + 1, Len(s)) \in Seq(S)
  <2>1. \A j \in i + 1 .. Len(s) : s[j] \in S
    BY <1>1, <1>2
  <2> QED
    BY <1>1, <2>1, SubSeqProperties
<1> QED
  BY <1>3, <1>4, ConcatProperties DEF RemoveAt

\* What arrives was in the channel, and the rest of it is a channel.
LEMMA ArrivalType ==
    ASSUME NEW S, NEW s \in Seq(S), NEW i \in Arrivals(s)
    PROVE  s[i] \in S /\ Rest(s, i) \subseteq Seq(S)
<1>1. DOMAIN s = 1 .. Len(s) /\ Len(s) \in Nat
  BY LenProperties
<1>2. i \in DOMAIN s /\ (Ordered => s # <<>>)
  <2>1. CASE Ordered
    <3>1. s # <<>> /\ i = 1
      BY <2>1 DEF Arrivals
    <3>2. Len(s) \in Nat \ {0}
      BY <3>1, EmptySeq
    <3> QED
      BY <1>1, <3>1, <3>2
  <2>2. CASE ~Ordered
    BY <2>2 DEF Arrivals
  <2> QED
    BY <2>1, <2>2
<1>3. s[i] \in S
  BY <1>1, <1>2, ElementOfSeq
<1>4. Ordered => Tail(s) \in Seq(S)
  BY <1>2, HeadTailProperties
<1>5. RemoveAt(s, i) \in Seq(S)
  BY <1>2, RemoveType
<1> QED
  BY <1>3, <1>4, <1>5 DEF Rest

-----------------------------------------------------------------------------
(* The system runs the device.                                             *)

\* A response is one the device can be asked about.
LEMMA DeliverStep ==
    ASSUME LinkInv, Deliver
    PROVE  handle_response
<1>1. PICK i \in Arrivals(responses) :
          LET r == responses[i]
          IN  \/ ResponseUnexpected(r.id, r.command)
              \/ ResponseOutOfState(r.id, r.command)
              \/ PhaseAcknowledged(r.id, r.command)
              \/ r.command = "RequestFirmwareData"
                 /\ FirmwareData(r.id, r.cc, Len(r.data) >= mode.length)
  BY DEF Deliver, Data
<1>2. responses[i] \in ResponseMessage
  BY ArrivalType DEF LinkInv
<1> DEFINE enough == Len(responses[i].data) >= mode.length
<1>3. enough \in BOOLEAN
  OBVIOUS
<1>4. PICK id \in 0 .. InstanceIdCount - 1, cmd \in FdCommands,
           cc \in {"Success", "RetryRequestFwData", "Error"} :
          id = responses[i].id /\ cmd = responses[i].command /\ cc = responses[i].cc
  BY <1>2 DEF ResponseMessage, Ids
<1>5. \/ ResponseUnexpected(id, cmd)
      \/ ResponseOutOfState(id, cmd)
      \/ PhaseAcknowledged(id, cmd)
      \/ cmd = "RequestFirmwareData" /\ FirmwareData(id, cc, enough)
  BY <1>1, <1>4
<1> HIDE DEF enough
<1> QED
  BY <1>3, <1>5 DEF handle_response

LEMMA SystemStep ==
    ASSUME LinkInv, [SysNext]_sysvars
    PROVE  [Next]_vars
BY DeliverStep
DEF SysNext, sysvars, Poll, UaAnswers, OfferComponent, Activate, OtherCommand, Lose,
    TimePasses, Next, UaCommand

\* A request that is sent has an ID of the wire.
LEMMA WireStep ==
    ASSUME TypeOK, LinkInv, [Next]_vars
    PROVE  req'.state = "Sent" => wire_id' \in Ids
<1>1. ASSUME SameRequest(req', req), UNCHANGED wire_id
      PROVE  req'.state = "Sent" => wire_id' \in Ids
  BY <1>1 DEF SameRequest, LinkInv
<1>2. ASSUME NEW cmd, NEW complete, NEW result, Send(cmd, complete, result)
      PROVE  wire_id' \in Ids
  BY <1>2, NextInstanceIdType DEF Send, Ids, TypeOK
<1>3. CASE UaCommand
  <2>1. UNCHANGED wire_id /\ (UNCHANGED req \/ req'.state # "Sent")
    BY <1>3
    DEF UaCommand, RequestUpdate, is_update_mode, PassComponentTable, UpdateComponent,
        ComponentAccepted, ComponentDeclined, ActivateFirmware, CancelUpdateComponent,
        CancelUpdate, GetStatus, QueryDeviceIdentifiers, GetFirmwareParameters,
        ActivatePendingComponentImage, UpdateSecurityRevision, IdleCommand, ReadOnly,
        Refuse, Request, history
  <2> QED
    BY <1>1, <2>1, UnchangedSame
<1>4. CASE fd_progress
  <2>1. CASE ProgressNothing \/ ProgressTimeout
    BY <1>1, <2>1, UnchangedSame DEF ProgressNothing, ProgressTimeout, Request, history
  <2>2. CASE ProgressRequestData
    BY <1>1, <1>2, <2>2, FailAfterAllocSame DEF ProgressRequestData, FailAfterAlloc
  <2>3. CASE ProgressTransferComplete
    BY <1>1, <1>2, <2>3, FailAfterAllocSame DEF ProgressTransferComplete, FailAfterAlloc
  <2>4. ASSUME NEW st, NEW callback, NEW results, NEW cmd, NEW done,
               Progress(st, callback, results, cmd, done)
        PROVE  req'.state = "Sent" => wire_id' \in Ids
    <3>1. ASSUME NEW d \in WorkTimes, req' = Later(req, d), UNCHANGED wire_id
          PROVE  req'.state = "Sent" => wire_id' \in Ids
      BY <1>1, <3>1, LaterSame DEF TypeOK
    <3>2. ASSUME NEW d \in WorkTimes \cup {0}, FailAfterAlloc(d)
          PROVE  req'.state = "Sent" => wire_id' \in Ids
      BY <1>1, <3>2, FailAfterAllocSame DEF FailAfterAlloc
    <3> QED
      BY <2>4, <1>2, <3>1, <3>2 DEF Progress
  <2> QED
    BY <1>4, <2>1, <2>2, <2>3, <2>4 DEF fd_progress, ProgressVerify, ProgressApply
<1>5. CASE handle_response
  <2>1. UNCHANGED wire_id /\ (UNCHANGED req \/ req'.state # "Sent")
    BY <1>5
    DEF handle_response, ResponseUnexpected, ResponseOutOfState, FirmwareData,
        PhaseAcknowledged, Request, history
  <2> QED
    BY <1>1, <2>1, UnchangedSame
<1>6. CASE Tick \/ UNCHANGED vars
  <2>1. UNCHANGED wire_id /\ (UNCHANGED req \/ req' = Later(req, 1))
    BY <1>6 DEF Tick, vars, history
  <2> QED
    BY <1>1, <2>1, UnchangedSame, LaterSame DEF TypeOK
<1> QED
  BY <1>3, <1>4, <1>5, <1>6 DEF Next

\* What the device sends is a message.
LEMMA SentType ==
    ASSUME TypeOK, TypeOK', Inv', req'.state = "Sent" => wire_id' \in Ids, Poll, Sends
    PROVE  Sent \in RequestMessage
<1>1. req'.command \in FdCommands
  BY DEF Sends, Inv, RequestMatchesState, TypeOK, FdReq
<1>2. mode'.offset \in 0 .. U32 - 1 /\ mode'.length \in 0 .. U32 - 1
  BY DEF TypeOK, InitiatorMode
<1>3. update_comp \in Components \cup {None} /\ wire_id' \in Ids
  BY DEF TypeOK, Sends
<1>4. 0 \in 0 .. U32 - 1
  OBVIOUS
<1> QED
  BY <1>1, <1>2, <1>3, <1>4 DEF Sent, RequestMessage

\* What the UA answers to a message is one.
LEMMA AnswerType ==
    ASSUME NEW m \in RequestMessage
    PROVE  Answers(m) \subseteq ResponseMessage
<1>1. m.id \in Ids /\ m.command \in FdCommands
  BY DEF RequestMessage
<1>2. <<>> \in Seq(Bytes)
  BY EmptySeq
<1>3. ASSUME NEW n \in {m.length, m.length - 1}
      PROVE  [ k \in 1 .. n |-> Byte(m.comp, m.offset + k - 1) ] \in Seq(Bytes)
  <2> DEFINE data == [ k \in 1 .. n |-> Byte(m.comp, m.offset + k - 1) ]
  <2>1. n \in Int /\ m.offset \in Int /\ m.comp \in Components \cup {None}
    BY DEF RequestMessage
  <2>2. \A k \in 1 .. n : Byte(m.comp, m.offset + k - 1) \in Bytes
    BY <2>1 DEF Byte, Bytes
  <2>3. data \in [1 .. n -> Bytes]
    BY <2>2
  <2>4. \A length \in Nat : [1 .. length -> Bytes] \subseteq Seq(Bytes)
    BY SeqDef
  <2>5. n \notin Nat => 1 .. n = 1 .. 0
    BY <2>1
  <2> HIDE DEF data
  <2>6. data \in Seq(Bytes)
    BY <2>3, <2>4, <2>5
  <2> QED
    BY <2>6 DEF data
<1>4. ASSUME NEW cc \in {"Success", "RetryRequestFwData", "Error"}, NEW data \in Seq(Bytes)
      PROVE  Response(m, cc, data) \in ResponseMessage
  BY <1>1, <1>4 DEF Response, ResponseMessage
<1>5. { Response(m, cc, <<>>) : cc \in {"RetryRequestFwData", "Error"} }
          \subseteq ResponseMessage
  BY <1>2, <1>4
<1>6. { Response(m, "Success", [ k \in 1 .. n |-> Byte(m.comp, m.offset + k - 1) ]) :
            n \in {m.length, m.length - 1} } \subseteq ResponseMessage
  BY <1>3, <1>4
<1>7. {Response(m, "Success", <<>>)} \subseteq ResponseMessage
  BY <1>2, <1>4
<1> QED
  BY <1>5, <1>6, <1>7 DEF Answers

\* The link carries messages only, whatever it loses.
LEMMA LinkStep ==
    ASSUME TypeOK, TypeOK', Inv', LinkInv, [SysNext]_sysvars
    PROVE  LinkInv'
<1>1. req'.state = "Sent" => wire_id' \in Ids
  BY SystemStep, WireStep
<1>2. requests' \in Seq(RequestMessage) /\ responses' \in Seq(ResponseMessage)
  <2> USE DEF LinkInv
  <2>1. CASE Poll
    <3>1. Sends => Append(requests, Sent) \in Seq(RequestMessage)
      BY <1>1, <2>1, SentType, AppendProperties
    <3> QED
      BY <2>1, <3>1 DEF Poll
  <2>2. CASE UaAnswers
    <3>1. PICK i \in Arrivals(requests) :
              /\ requests' \in Rest(requests, i)
              /\ \E r \in Answers(requests[i]) : responses' = Append(responses, r)
      BY <2>2 DEF UaAnswers
    <3>2. requests[i] \in RequestMessage /\ requests' \in Seq(RequestMessage)
      BY <3>1, ArrivalType
    <3>3. \A r \in Answers(requests[i]) : Append(responses, r) \in Seq(ResponseMessage)
      BY <3>2, AnswerType, AppendProperties
    <3> QED
      BY <3>1, <3>2, <3>3
  <2>3. CASE OfferComponent
    BY <2>3, EmptySeq DEF OfferComponent
  <2>4. CASE Deliver
    <3>1. PICK i \in Arrivals(responses) : responses' \in Rest(responses, i)
      BY <2>4 DEF Deliver
    <3> QED
      BY <2>4, <3>1, ArrivalType DEF Deliver
  <2>5. CASE Lose
    BY <2>5, RemoveType DEF Lose
  <2>6. CASE Activate \/ OtherCommand \/ TimePasses \/ UNCHANGED sysvars
    BY <2>6 DEF Activate, OtherCommand, TimePasses, sysvars, link
  <2> QED
    BY <2>1, <2>2, <2>3, <2>4, <2>5, <2>6 DEF SysNext
<1> QED
  BY <1>1, <1>2 DEF LinkInv

LEMMA SystemInv == SysSpec => [](TypeOK /\ Inv /\ LinkInv)
<1>1. SysInit => TypeOK /\ Inv /\ LinkInv
  BY InitType, EmptySeq
  DEF SysInit, Init, LinkInv, Inv, RequestMatchesState, SuccessIsEarned,
      ImageReadyForPhase, Request, InitiatorStates
<1>2. TypeOK /\ Inv /\ LinkInv /\ [SysNext]_sysvars => (TypeOK /\ Inv /\ LinkInv)'
  BY SystemStep, NextType, NextInv, LinkStep
<1> QED
  BY <1>1, <1>2, PTL DEF SysSpec

\* The system is the device with a world around it: whatever FirmwareDevice
\* never does, it never does in the system.
THEOREM SystemRunsDevice == SysSpec => Spec
<1>1. SysInit => Init
  BY DEF SysInit
<1>2. LinkInv /\ [SysNext]_sysvars => [Next]_vars
  BY SystemStep
<1> QED
  BY <1>1, <1>2, SystemInv, PTL DEF SysSpec, Spec

-----------------------------------------------------------------------------
(* What the platform runs.                                                 *)

\* A set of natural numbers that is not empty has a least element.
LEMMA LeastNumber ==
    ASSUME NEW T \in SUBSET Nat, T # {}
    PROVE  \E m \in T : \A k \in T : m <= k
<1>1. \E m \in T : \A k \in T : ~(<<k, m>> \in OpToRel(<, Nat))
  BY NatLessThanWellFounded, WFMin
<1>2. OpToRel(<, Nat) = { pair \in Nat \X Nat : pair[1] < pair[2] }
  BY DEF OpToRel
<1>3. ASSUME NEW k \in Nat, NEW m \in Nat, ~(<<k, m>> \in OpToRel(<, Nat))
      PROVE  m <= k
  <2>1. ~(<<k, m>> \in { pair \in Nat \X Nat : pair[1] < pair[2] })
    BY <1>2, <1>3
  <2> QED
    BY <2>1
<1> QED
  BY <1>1, <1>3

\* The place of a component in a table is the first of those that name it.
LEMMA FirstEntryIs ==
    ASSUME NEW key, NEW table, DOMAIN table \subseteq Nat,
           NEW m \in Eligibility!Entries(key, table),
           \A k \in Eligibility!Entries(key, table) : m <= k
    PROVE  Eligibility!FirstEntry(key, table) = m
<1>1. Eligibility!Entries(key, table) \subseteq Nat
  BY DEF Eligibility!Entries
<1>2. \A k \in Eligibility!Entries(key, table) :
          (\A j \in Eligibility!Entries(key, table) : k <= j) => k = m
  BY <1>1
<1> QED
  BY <1>2 DEF Eligibility!FirstEntry

Known == Range(FirstTable) \cup { Eligibility!EntryOf(Offer[comp]) : comp \in Components }

\* A component may replace what an entry runs.
Newer(comp, entry) ==
    /\ Offer[comp].key = entry.key
    /\ Offer[comp].stamp > entry.stamp
    /\ Offer[comp].version # entry.version
    /\ ~Eligibility!Below(Offer[comp].version, entry.version)

\* The verdict that lets a component be updated.
LEMMA JudgedNewer ==
    ASSUME NEW comp \in Components, NEW entry, entry.stamp \in Nat,
           Offer[comp].key = entry.key,
           Eligibility!Judge(Offer[comp], entry) = Eligibility!CanBeUpdated
    PROVE  Newer(comp, entry)
BY DEF Newer, Eligibility!Judge, Eligibility!CanBeUpdated,
       Eligibility!ComparisonStampEqual, Eligibility!ComparisonStampLower,
       Eligibility!VerStrIdentical, Eligibility!VerStrLower

\* A component that is eligible names an entry of the platform and is newer:
\* the default entries behind the platform's own have the key of no component.
LEMMA EligibleIsNewer ==
    ASSUME NEW comp \in Components, Offer[comp].key # ZeroKey,
           active \in Seq(Known), Eligible(comp)
    PROVE  Slot(comp) \in DOMAIN active /\ Newer(comp, active[Slot(comp)])
<1> DEFINE key   == Offer[comp].key
           table == Eligibility!ParamTable(active)
           m     == Eligibility!FirstEntry(key, table)
<1> HIDE DEF table
<1>1. Len(active) \in Nat /\ DOMAIN active = 1 .. Len(active)
  BY LenProperties
<1>2. DOMAIN table = 1 .. MaxComponentCount
  BY DEF table, Eligibility!ParamTable
<1>3. Eligibility!Entries(key, table) # {}
      /\ Eligibility!Judge(Offer[comp], table[m]) = Eligibility!CanBeUpdated
  BY DEF table, Eligible, Eligibility!evaluate_update_eligibility,
         Eligibility!NotSupported, Eligibility!CanBeUpdated
<1>4. PICK n \in Eligibility!Entries(key, table) :
          \A k \in Eligibility!Entries(key, table) : n <= k
  <2>1. Eligibility!Entries(key, table) \in SUBSET Nat
    BY <1>2 DEF Eligibility!Entries
  <2> QED
    BY <1>3, <2>1, LeastNumber
<1>5. m = n
  BY <1>2, <1>4, FirstEntryIs
<1>6. n \in 1 .. MaxComponentCount /\ table[n].key = key
  BY <1>2, <1>4 DEF Eligibility!Entries
<1>7. n <= Len(active) /\ table[n] = active[n]
  <2>1. CASE n <= Len(active)
    BY <2>1, <1>6 DEF table, Eligibility!ParamTable
  <2>2. CASE ~(n <= Len(active))
    BY <2>2, <1>6 DEF table, Eligibility!ParamTable, Eligibility!DefaultEntry
  <2> QED
    BY <2>1, <2>2
<1>8. n \in DOMAIN active /\ active[n].key = key
  BY <1>1, <1>6, <1>7
<1>9. Slot(comp) = n
  <2>1. n \in Eligibility!Entries(key, active)
    BY <1>8 DEF Eligibility!Entries
  <2>2. ASSUME NEW k \in Eligibility!Entries(key, active)
        PROVE  n <= k
    <3>1. k \in 1 .. Len(active) /\ active[k].key = key
      BY <1>1 DEF Eligibility!Entries
    <3>2. CASE k \in 1 .. MaxComponentCount
      <4>1. k \in Eligibility!Entries(key, table)
        BY <3>1, <3>2 DEF table, Eligibility!Entries, Eligibility!ParamTable
      <4> QED
        BY <4>1, <1>4
    <3>3. CASE k \notin 1 .. MaxComponentCount
      BY <1>6, <3>1, <3>3
    <3> QED
      BY <3>2, <3>3
  <2> QED
    BY <1>1, <2>1, <2>2, FirstEntryIs DEF Slot
<1>10. active[n].stamp \in Nat
  <2>1. active[n] \in Known
    BY <1>1, <1>8, ElementOfSeq
  <2> QED
    BY <2>1 DEF Known, Eligibility!EntryOf
<1> QED
  BY <1>3, <1>5, <1>7, <1>8, <1>9, <1>10, JudgedNewer

\* What is applied and not activated is newer than what runs, and so is the
\* component under way: it was judged against what still runs.
TableInv ==
    /\ active \in Seq(Known)
    /\ pending \in [DOMAIN active -> Components \cup {None}]
    /\ \A i \in DOMAIN active : pending[i] # None => Newer(pending[i], active[i])
    /\ state \in InitiatorStates =>
          /\ update_comp \in Components /\ Slot(update_comp) \in DOMAIN active
          /\ Newer(update_comp, active[Slot(update_comp)])

\* Only a new component brings the device into an operation.
StaysOnComponent ==
    state' \in InitiatorStates => state \in InitiatorStates /\ UNCHANGED update_comp

LEMMA StepsOnComponent ==
    ASSUME fd_progress \/ handle_response \/ Tick \/ OtherCommand
    PROVE  StaysOnComponent
<1> USE DEF StaysOnComponent, InitiatorStates
<1>1. CASE fd_progress
  BY <1>1
  DEF fd_progress, ProgressNothing, ProgressTimeout, ProgressRequestData,
      ProgressTransferComplete, ProgressVerify, ProgressApply, Progress, set_fd_idle, fsm
<1>2. CASE handle_response
  <2>1. ASSUME NEW id, NEW cmd \in FdCommands, PhaseAcknowledged(id, cmd)
        PROVE  StaysOnComponent
    BY <2>1 DEF PhaseAcknowledged, ServedIn, fsm
  <2> QED
    BY <1>2, <2>1
    DEF handle_response, ResponseUnexpected, ResponseOutOfState, FirmwareData, fsm
<1>3. CASE Tick
  BY <1>3 DEF Tick, fsm
<1>4. CASE OtherCommand
  <2>1. CASE RequestUpdate
    BY <2>1 DEF RequestUpdate, set_fd_state, Refuse, fsm
  <2>2. CASE \E last \in BOOLEAN : PassComponentTable(last)
    BY <2>2 DEF PassComponentTable, set_fd_state, Refuse, fsm
  <2>3. CASE CancelUpdateComponent
    BY <2>3 DEF CancelUpdateComponent, set_fd_state, Refuse, fsm
  <2>4. CASE CancelUpdate
    BY <2>4 DEF CancelUpdate, set_fd_idle, Refuse, fsm
  <2> QED
    BY <1>4, <2>1, <2>2, <2>3, <2>4 DEF OtherCommand
<1> QED
  BY <1>1, <1>2, <1>3, <1>4

\* A step that applies and activates nothing.
LEMMA QuietTable ==
    ASSUME TableInv, StaysOnComponent, UNCHANGED <<active, pending>>
    PROVE  TableInv'
BY DEF TableInv, StaysOnComponent, Slot

LEMMA TableStep ==
    ASSUME \A comp \in Components : Offer[comp].key # ZeroKey,
           LinkInv, TableInv, [SysNext]_sysvars
    PROVE  TableInv'
<1>1. CASE Poll
  <2>1. StaysOnComponent /\ UNCHANGED active
    BY <1>1, StepsOnComponent DEF Poll
  <2>2. CASE UNCHANGED pending
    BY <2>1, <2>2, QuietTable
  <2>3. CASE ~UNCHANGED pending
    <3>1. /\ stage # "Applied" /\ stage' = "Applied"
          /\ pending' = [pending EXCEPT ![Slot(update_comp)] = update_comp]
      BY <1>1, <2>3 DEF Poll
    <3>2. state = "Apply" \/ state = "Verify"
      BY <1>1, <3>1
      DEF Poll, fd_progress, ProgressNothing, ProgressTimeout, ProgressRequestData,
          ProgressTransferComplete, ProgressVerify, ProgressApply, Progress, history
    <3>3. /\ update_comp \in Components /\ Slot(update_comp) \in DOMAIN active
          /\ Newer(update_comp, active[Slot(update_comp)])
      BY <3>2 DEF TableInv, InitiatorStates
    <3> QED
      BY <2>1, <3>1, <3>3 DEF TableInv, StaysOnComponent, Slot
  <2> QED
    BY <2>2, <2>3
<1>2. CASE OfferComponent
  <2>1. UNCHANGED <<active, pending>>
    BY <1>2 DEF OfferComponent
  <2>2. CASE Accepted
    <3>1. update_comp' \in Components /\ Eligible(update_comp')
      <4>1. Eligible(update_comp')
        BY <1>2, <2>2 DEF OfferComponent
      <4>2. update_comp' \in Components
        BY <1>2, <2>2 DEF OfferComponent, UpdateComponent, Accepted, Refuse, fsm
      <4> QED
        BY <4>1, <4>2
    <3>2. /\ Slot(update_comp') \in DOMAIN active
          /\ Newer(update_comp', active[Slot(update_comp')])
      BY <3>1, EligibleIsNewer DEF TableInv
    <3> QED
      BY <2>1, <3>1, <3>2 DEF TableInv, Slot
  <2>3. CASE ~Accepted
    <3>1. StaysOnComponent
      <4>1. CASE Refuse("InvalidStateForCommand")
        BY <4>1 DEF Refuse, StaysOnComponent, fsm
      <4>2. CASE state = "ReadyXfer" /\ (UNCHANGED fsm \/ set_fd_state("Download"))
        BY <2>3, <4>2 DEF Accepted, StaysOnComponent, set_fd_state, InitiatorStates, fsm
      <4> QED
        BY <1>2, <4>1, <4>2
        DEF OfferComponent, UpdateComponent, ComponentAccepted, ComponentDeclined
    <3> QED
      BY <2>1, <3>1, QuietTable
  <2> QED
    BY <2>2, <2>3
<1>3. CASE Activate
  <2>1. DOMAIN active = 1 .. Len(active) /\ Len(active) \in Nat
    BY LenProperties DEF TableInv
  <2>2. \A i \in DOMAIN active : active[i] \in Known
    BY <2>1, ElementOfSeq DEF TableInv
  <2>3. \A comp \in Components : Eligibility!EntryOf(Offer[comp]) \in Known
    BY DEF Known
  <2>4. active' \in [1 .. Len(active) -> Known]
    BY <1>3, <2>1, <2>2, <2>3 DEF Activate, TableInv
  <2>5. \A length \in Nat : [1 .. length -> Known] \subseteq Seq(Known)
    BY SeqDef, SMTT(30)
  <2>6. active' \in Seq(Known)
    BY <2>1, <2>4, <2>5
  <2>7. DOMAIN active' = DOMAIN active /\ pending' = [ i \in DOMAIN active |-> None ]
    BY <1>3 DEF Activate, TableInv
  <2>8. state' \notin InitiatorStates
    BY <1>3 DEF Activate, Served, ActivateFirmware, Refuse, Answer, InitiatorStates, fsm
  <2> QED
    BY <2>6, <2>7, <2>8 DEF TableInv
<1>4. CASE Deliver
  BY <1>4, DeliverStep, StepsOnComponent, QuietTable DEF Deliver
<1>5. CASE OtherCommand
  BY <1>5, StepsOnComponent, QuietTable DEF OtherCommand, platform
<1>6. CASE TimePasses
  BY <1>6, StepsOnComponent, QuietTable DEF TimePasses, platform
<1>7. CASE UaAnswers \/ Lose \/ UNCHANGED sysvars
  BY <1>7, QuietTable
  DEF UaAnswers, Lose, sysvars, vars, fsm, platform, StaysOnComponent
<1> QED
  BY <1>1, <1>2, <1>3, <1>4, <1>5, <1>6, <1>7 DEF SysNext

\* What runs is replaced by a newer component only, for every table and every
\* offer, if no component has the key of the default entries.
THEOREM OnlyNewerInstalled ==
    ASSUME \A comp \in Components : Offer[comp].key # ZeroKey
    PROVE  SysSpec => OnlyNewerRuns
<1>1. SysInit => TableInv
  <2> SUFFICES ASSUME SysInit
               PROVE  TableInv
    OBVIOUS
  <2>1. active \in Seq(Known)
    <3>1. FirstTable \in Seq(Known)
      BY SeqMonotonic DEF Known
    <3> QED
      BY <3>1 DEF SysInit
  <2> QED
    BY <2>1 DEF SysInit, Init, TableInv, InitiatorStates
<1>2. LinkInv /\ TableInv /\ [SysNext]_sysvars => TableInv'
  BY TableStep
<1>3. TableInv /\ [SysNext]_sysvars =>
          [\A i \in DOMAIN active : active'[i] # active[i] =>
              /\ active'[i].stamp > active[i].stamp
              /\ active'[i].version # active[i].version
              /\ ~Eligibility!Below(active'[i].version, active[i].version)]_sysvars
  <2> SUFFICES ASSUME TableInv, SysNext, NEW i \in DOMAIN active, active'[i] # active[i]
               PROVE  /\ active'[i].stamp > active[i].stamp
                      /\ active'[i].version # active[i].version
                      /\ ~Eligibility!Below(active'[i].version, active[i].version)
    OBVIOUS
  <2>1. Activate
    BY DEF SysNext, Poll, UaAnswers, OfferComponent, OtherCommand, Deliver, Lose,
           TimePasses, platform
  <2>2. pending[i] # None /\ active'[i] = Eligibility!EntryOf(Offer[pending[i]])
    BY <2>1 DEF Activate
  <2>3. Newer(pending[i], active[i])
    BY <2>2 DEF TableInv
  <2> QED
    BY <2>2, <2>3 DEF Newer, Eligibility!EntryOf
<1> QED
  BY <1>1, <1>2, <1>3, SystemInv, PTL DEF SysSpec, OnlyNewerRuns

HIDE OfferAssumption

-----------------------------------------------------------------------------
(* What a channel holds after a step.                                      *)

\* The messages of a channel that are left of another one, in its order.
LeftOf(t, s) ==
    \E f \in [DOMAIN t -> DOMAIN s] :
        /\ \A i \in DOMAIN t : t[i] = s[f[i]]
        /\ \A i, j \in DOMAIN t : i < j => f[i] < f[j]

LEMMA LeftOfItself ==
    ASSUME NEW S, NEW s \in Seq(S)
    PROVE  LeftOf(s, s)
<1> DEFINE f == [ i \in DOMAIN s |-> i ]
<1>1. f \in [DOMAIN s -> DOMAIN s] /\ \A i \in DOMAIN s : f[i] = i
  OBVIOUS
<1> QED
  BY <1>1 DEF LeftOf

LEMMA RemovedIsLeft ==
    ASSUME NEW S, NEW s \in Seq(S), NEW k \in DOMAIN s
    PROVE  LeftOf(RemoveAt(s, k), s)
<1> DEFINE t == RemoveAt(s, k)
           f == [ i \in DOMAIN t |-> IF i < k THEN i ELSE i + 1 ]
<1>1. k \in 1 .. Len(s) /\ Len(s) \in Nat /\ DOMAIN s = 1 .. Len(s)
  BY LenProperties
<1>2. /\ SubSeq(s, 1, k - 1) \in Seq(S) /\ Len(SubSeq(s, 1, k - 1)) = k - 1
      /\ \A i \in 1 .. k - 1 : SubSeq(s, 1, k - 1)[i] = s[i]
  <2>1. \A j \in 1 .. k - 1 : s[j] \in S
    BY <1>1, ElementOfSeq
  <2> QED
    BY <1>1, <2>1, SubSeqProperties
<1>3. /\ SubSeq(s, k + 1, Len(s)) \in Seq(S)
      /\ Len(SubSeq(s, k + 1, Len(s))) = Len(s) - k
      /\ \A i \in 1 .. Len(s) - k : SubSeq(s, k + 1, Len(s))[i] = s[k + i]
  <2>1. \A j \in k + 1 .. Len(s) : s[j] \in S
    BY <1>1, ElementOfSeq
  <2> QED
    BY <1>1, <2>1, SubSeqProperties, SMTT(30)
<1>4. DOMAIN t = 1 .. Len(s) - 1
      /\ \A i \in DOMAIN t : t[i] = s[IF i < k THEN i ELSE i + 1]
  <2> DEFINE a == SubSeq(s, 1, k - 1)
             b == SubSeq(s, k + 1, Len(s))
  <2>1. /\ a \in Seq(S) /\ Len(a) = k - 1 /\ \A i \in 1 .. k - 1 : a[i] = s[i]
        /\ b \in Seq(S) /\ Len(b) = Len(s) - k
        /\ \A i \in 1 .. Len(s) - k : b[i] = s[k + i]
    BY <1>2, <1>3
  <2>2. t = a \o b
    BY DEF RemoveAt
  <2> HIDE DEF a, b, t
  <2>3. /\ t \in Seq(S) /\ Len(t) = Len(a) + Len(b)
        /\ \A i \in 1 .. Len(t) : t[i] = IF i <= Len(a) THEN a[i] ELSE b[i - Len(a)]
    BY <2>1, <2>2, ConcatProperties
  <2>4. Len(t) = Len(s) - 1 /\ DOMAIN t = 1 .. Len(s) - 1
    BY <1>1, <2>1, <2>3, LenProperties
  <2>5. ASSUME NEW i \in DOMAIN t
        PROVE  t[i] = s[IF i < k THEN i ELSE i + 1]
    <3>1. CASE i < k
      BY <1>1, <2>1, <2>3, <2>4, <3>1
    <3>2. CASE ~(i < k)
      <4>1. i - (k - 1) \in 1 .. Len(s) - k /\ k + (i - (k - 1)) = i + 1
        BY <1>1, <2>4, <3>2
      <4>2. t[i] = b[i - (k - 1)]
        BY <1>1, <2>1, <2>3, <2>4, <3>2, SMTT(30)
      <4>3. b[i - (k - 1)] = s[i + 1]
        BY <2>1, <4>1
      <4> QED
        BY <3>2, <4>2, <4>3
    <3> QED
      BY <3>1, <3>2
  <2> QED
    BY <2>4, <2>5
<1> HIDE DEF t
<1>5. f \in [DOMAIN t -> DOMAIN s] /\ \A i \in DOMAIN t : t[i] = s[f[i]]
  BY <1>1, <1>4
<1>6. \A i, j \in DOMAIN t : i < j => f[i] < f[j]
  BY <1>1, <1>4
<1>7. LeftOf(t, s)
  BY <1>5, <1>6 DEF LeftOf
<1> QED
  BY <1>7 DEF t

\* An ordered link delivers its first message.
LEMMA FirstArrives ==
    ASSUME Ordered, NEW S, NEW s \in Seq(S), NEW i \in Arrivals(s), NEW t \in Rest(s, i)
    PROVE  /\ i = 1 /\ 1 \in DOMAIN s /\ t \in Seq(S)
           /\ Len(t) = Len(s) - 1 /\ \A j \in DOMAIN t : t[j] = s[j + 1] /\ j + 1 \in DOMAIN s
<1>1. s # <<>> /\ i = 1 /\ t = Tail(s)
  BY DEF Arrivals, Rest
<1>2. Len(s) \in Nat \ {0} /\ DOMAIN s = 1 .. Len(s)
  BY <1>1, EmptySeq, LenProperties
<1>3. t \in Seq(S) /\ Len(t) = Len(s) - 1 /\ \A j \in 1 .. Len(t) : t[j] = s[j + 1]
  BY <1>1, <1>2, HeadTailProperties
<1> QED
  BY <1>1, <1>2, <1>3, LenProperties

LEMMA FirstLeaves ==
    ASSUME Ordered, NEW S, NEW s \in Seq(S), NEW i \in Arrivals(s), NEW t \in Rest(s, i)
    PROVE  LeftOf(t, s)
<1> DEFINE f == [ j \in DOMAIN t |-> j + 1 ]
<1>1. t \in Seq(S) /\ \A j \in DOMAIN t : t[j] = s[j + 1] /\ j + 1 \in DOMAIN s
  BY FirstArrives
<1>2. DOMAIN t \subseteq Int
  BY <1>1, LenProperties
<1>3. f \in [DOMAIN t -> DOMAIN s] /\ \A j \in DOMAIN t : t[j] = s[f[j]]
  BY <1>1
<1>4. \A j, k \in DOMAIN t : j < k => f[j] < f[k]
  BY <1>2
<1> QED
  BY <1>3, <1>4 DEF LeftOf

-----------------------------------------------------------------------------
(* IDs and ages.                                                           *)

\* How many requests were sent since the one that had an ID, if they were less
\* than there are IDs.
Age(id, last) == IF id <= last THEN last - id ELSE last + InstanceIdCount - id

\* How long that takes at least.
Span(n) == n * T2

\* No ID comes back before T1 has expired.
IdsOutlastRetries == T1 < InstanceIdCount * T2

LEMMA AgeType ==
    ASSUME NEW id \in Ids, NEW last \in Ids
    PROVE  Age(id, last) \in 0 .. InstanceIdCount - 1
BY DEF Age, Ids

\* Only the last request has the age 0.
LEMMA YoungestIsLast ==
    ASSUME NEW id \in Ids, NEW last \in Ids
    PROVE  Age(id, last) = 0 <=> id = last
BY DEF Age, Ids

LEMMA NextId ==
    ASSUME NEW last \in Ids, req.instance_id = last
    PROVE  NextInstanceId = IF last + 1 = InstanceIdCount THEN 0 ELSE last + 1
<1>1. last \in 0 .. InstanceIdCount - 1 /\ last # None
  BY DEF Ids
<1>2. NextInstanceId = (last + 1) % InstanceIdCount
  BY <1>1 DEF NextInstanceId
<1>3. CASE last + 1 = InstanceIdCount
  BY <1>1, <1>2, <1>3
<1>4. CASE last + 1 # InstanceIdCount
  <2>1. last + 1 \in 0 .. InstanceIdCount - 1
    BY <1>1, <1>4
  <2> QED
    BY <1>2, <1>4, <2>1
<1> QED
  BY <1>3, <1>4

\* A request that is sent makes every other one older by one.
LEMMA NextAge ==
    ASSUME NEW last \in Ids, req.instance_id = last, NEW id \in Ids,
           Age(id, last) + 1 < InstanceIdCount
    PROVE  Age(id, NextInstanceId) = Age(id, last) + 1
BY NextId DEF Age, Ids

LEMMA SpanNext ==
    ASSUME NEW n \in Nat
    PROVE  Span(n) \in Nat /\ Span(n + 1) = Span(n) + T2 /\ Span(0) = 0
BY DEF Span

\* A request that went out T2 ago, with n before it that T1 has seen.
LEMMA SpanBound ==
    ASSUME IdsOutlastRetries, NEW n \in Nat, Span(n) <= T1
    PROVE  n < InstanceIdCount
<1>1. ASSUME n >= InstanceIdCount
      PROVE  Span(n) >= InstanceIdCount * T2
  <2>1. n - InstanceIdCount \in Nat
    BY <1>1
  <2>2. (n - InstanceIdCount) * T2 \in Nat
    BY <2>1
  <2>3. n * T2 = (n - InstanceIdCount) * T2 + InstanceIdCount * T2
    BY <2>1
  <2> QED
    BY <2>2, <2>3 DEF Span
<1>2. Span(n) \in Nat /\ InstanceIdCount * T2 \in Nat
  BY SpanNext
<1> QED
  BY <1>1, <1>2 DEF IdsOutlastRetries

-----------------------------------------------------------------------------
(* What the steps of the system do to the device.                          *)

\* A component that is accepted begins a download; another one leaves the
\* device outside the operations.
LEMMA OfferMoves ==
    ASSUME OfferComponent
    PROVE  \/ /\ Accepted /\ state' = "Download" /\ update_comp' \in Components
              /\ req' = Request("Ready", FALSE, None)
              /\ told' = {} /\ image' = Blank(update_comp')
              /\ Ordered => requests' = <<>> /\ responses' = <<>>
           \/ state' \notin InitiatorStates
<1>1. UpdateComponent /\ reply' \in {"Success", "ActivationNotRequired"}
      /\ UNCHANGED responses /\ (Ordered => responses = <<>>)
  BY DEF OfferComponent, Served
<1>2. state = "ReadyXfer"
  BY <1>1 DEF UpdateComponent, Refuse, Answer
<1>3. CASE Accepted
  <2>1. ComponentAccepted /\ update_comp' \in Components
    BY <1>1, <1>2, <1>3
    DEF UpdateComponent, ComponentDeclined, Refuse, Accepted, fsm
  <2>2. req' = Request("Ready", FALSE, None)
    BY <1>2, <1>3, <2>1 DEF ComponentAccepted, Accepted, fsm
  <2> QED
    BY <1>1, <1>3, <2>1, <2>2 DEF OfferComponent, Accepted
<1>4. CASE ~Accepted
  <2>1. state' = "ReadyXfer" \/ state' = "Download"
    BY <1>1, <1>2
    DEF UpdateComponent, ComponentDeclined, ComponentAccepted, Refuse, set_fd_state, fsm
  <2> QED
    BY <1>2, <1>4, <2>1 DEF Accepted, InitiatorStates
<1> QED
  BY <1>3, <1>4

\* The other commands that are served end an operation or come before it.
LEMMA CommandMoves ==
    ASSUME OtherCommand \/ Activate
    PROVE  state' \notin InitiatorStates
<1> USE DEF InitiatorStates
<1>1. CASE Activate
  <2>1. reply' \in {"Success", "ActivationNotRequired"} /\ ActivateFirmware
    BY <1>1 DEF Activate, Served
  <2> QED
    BY <2>1 DEF ActivateFirmware, Refuse, Answer, fsm
<1>2. CASE OtherCommand
  <2>1. reply' \in {"Success", "ActivationNotRequired"}
    BY <1>2 DEF OtherCommand, Served
  <2>2. CASE RequestUpdate
    BY <2>1, <2>2
    DEF RequestUpdate, is_update_mode, set_fd_state, Refuse, Answer, Malformed, NoResponse
  <2>3. CASE \E last \in BOOLEAN : PassComponentTable(last)
    BY <2>1, <2>3 DEF PassComponentTable, set_fd_state, Refuse, Answer, fsm
  <2>4. CASE CancelUpdateComponent
    BY <2>1, <2>4 DEF CancelUpdateComponent, set_fd_state, Refuse, Answer,
       NoResponse
  <2>5. CASE CancelUpdate
    BY <2>1, <2>5 DEF CancelUpdate, set_fd_idle, Refuse, Answer, NoResponse
  <2> QED
    BY <1>2, <2>2, <2>3, <2>4, <2>5 DEF OtherCommand
<1> QED
  BY <1>1, <1>2

\* The response that is delivered.
LEMMA Delivered ==
    ASSUME Ordered, LinkInv, Deliver
    PROVE  /\ 1 \in DOMAIN responses /\ responses[1] \in ResponseMessage
           /\ responses' \in Rest(responses, 1) /\ 1 \in Arrivals(responses)
           /\ LET r == responses[1]
              IN  \/ /\ \/ ResponseUnexpected(r.id, r.command)
                        \/ ResponseOutOfState(r.id, r.command)
                        \/ PhaseAcknowledged(r.id, r.command)
                     /\ UNCHANGED image
                  \/ r.command = "RequestFirmwareData" /\ Data(r)
<1>1. PICK i \in Arrivals(responses) :
          LET r == responses[i]
          IN  /\ responses' \in Rest(responses, i)
              /\ \/ /\ \/ ResponseUnexpected(r.id, r.command)
                       \/ ResponseOutOfState(r.id, r.command)
                       \/ PhaseAcknowledged(r.id, r.command)
                    /\ UNCHANGED image
                 \/ r.command = "RequestFirmwareData" /\ Data(r)
  BY DEF Deliver
<1>2. i = 1 /\ 1 \in DOMAIN responses /\ responses[1] \in ResponseMessage
  BY <1>1, FirstArrives, ArrivalType DEF LinkInv
<1> QED
  BY <1>1, <1>2

LEMMA AnswerNames ==
    ASSUME NEW m, NEW r \in Answers(m)
    PROVE  r.id = m.id /\ r.command = m.command
BY DEF Answers, Response

\* The request that is answered.
LEMMA Answered ==
    ASSUME Ordered, LinkInv, UaAnswers
    PROVE  /\ 1 \in DOMAIN requests /\ requests[1] \in RequestMessage
           /\ requests' \in Rest(requests, 1) /\ 1 \in Arrivals(requests)
           /\ \E r \in Answers(requests[1]) : responses' = Append(responses, r)
           /\ told' = IF requests[1].comp = update_comp
                      THEN told \cup {requests[1].command} ELSE told
<1>1. PICK i \in Arrivals(requests) :
          /\ requests' \in Rest(requests, i)
          /\ \E r \in Answers(requests[i]) : responses' = Append(responses, r)
          /\ told' = IF requests[i].comp = update_comp
                     THEN told \cup {requests[i].command} ELSE told
  BY DEF UaAnswers
<1>2. i = 1 /\ 1 \in DOMAIN requests /\ requests[1] \in RequestMessage
  BY <1>1, FirstArrives, ArrivalType DEF LinkInv
<1> QED
  BY <1>1, <1>2

-----------------------------------------------------------------------------
(* The UA knows which phase the device is in.                              *)

\* What is in flight during an operation is of the component under way, and what
\* comes back was answered for it.
ToldInv ==
    /\ UaKnowsThePhase
    /\ state \in InitiatorStates =>
          /\ \A i \in DOMAIN requests : requests[i].comp = update_comp
          /\ \A i \in DOMAIN responses : responses[i].command \in told

\* A step that ends no phase, and sends nothing but what is of the component.
LEMMA ToldKept ==
    ASSUME ToldInv, StaysOnComponent,
           state' \in {"Verify", "Apply"} => state' = state,
           told \subseteq told',
           \A i \in DOMAIN requests' :
               \/ requests'[i].comp = update_comp
               \/ \E j \in DOMAIN requests : requests'[i] = requests[j],
           \A i \in DOMAIN responses' :
               \/ responses'[i].command \in told'
               \/ \E j \in DOMAIN responses : responses'[i] = responses[j]
    PROVE  ToldInv'
<1>1. UaKnowsThePhase'
  BY DEF ToldInv, UaKnowsThePhase
<1>2. ASSUME state' \in InitiatorStates
      PROVE  /\ \A i \in DOMAIN requests' : requests'[i].comp = update_comp'
             /\ \A i \in DOMAIN responses' : responses'[i].command \in told'
  BY <1>2 DEF ToldInv, StaysOnComponent
<1> QED
  BY <1>1, <1>2 DEF ToldInv

\* Only an acknowledgement brings the device into another phase.
LEMMA PhaseKept ==
    ASSUME fd_progress \/ Tick
    PROVE  state' \in {"Verify", "Apply"} => state' = state
BY DEF fd_progress, ProgressNothing, ProgressTimeout, ProgressRequestData,
       ProgressTransferComplete, ProgressVerify, ProgressApply, Progress, set_fd_idle,
       Tick, fsm

LEMMA AppendedIs ==
    ASSUME NEW S, NEW s \in Seq(S), NEW x \in S
    PROVE  /\ DOMAIN Append(s, x) = 1 .. Len(s) + 1 /\ Append(s, x)[Len(s) + 1] = x
           /\ Len(s) \in Nat /\ DOMAIN s = 1 .. Len(s)
           /\ \A i \in DOMAIN s : Append(s, x)[i] = s[i]
<1>1. Len(s) \in Nat /\ DOMAIN s = 1 .. Len(s)
  BY LenProperties
<1>2. Append(s, x) \in Seq(S) /\ Len(Append(s, x)) = Len(s) + 1
  BY AppendProperties
<1>3. DOMAIN Append(s, x) = 1 .. Len(s) + 1
  BY <1>2, LenProperties
<1> QED
  BY <1>1, <1>3, AppendProperties

LEMMA ToldStep ==
    ASSUME Ordered, TypeOK, TypeOK', Inv', LinkInv, ToldInv, [SysNext]_sysvars
    PROVE  ToldInv'
<1>1. requests \in Seq(RequestMessage) /\ responses \in Seq(ResponseMessage)
  BY DEF LinkInv
<1>2. CASE Poll
  <2>1. StaysOnComponent /\ (state' \in {"Verify", "Apply"} => state' = state)
    BY <1>2, StepsOnComponent, PhaseKept DEF Poll
  <2>2. \A i \in DOMAIN requests' :
            \/ requests'[i].comp = update_comp
            \/ \E j \in DOMAIN requests : requests'[i] = requests[j]
    <3>1. CASE UNCHANGED requests
      BY <3>1
    <3>2. CASE Sends /\ requests' = Append(requests, Sent)
      <4>1. Sent \in RequestMessage
        BY <1>2, <3>2, SystemStep, WireStep, SentType DEF SysNext
      <4>2. Sent.comp = update_comp
        BY DEF Sent
      <4>3. ASSUME NEW i \in DOMAIN requests'
            PROVE  \/ requests'[i] = Sent
                   \/ i \in DOMAIN requests /\ requests'[i] = requests[i]
        BY <1>1, <3>2, <4>1, <4>3, AppendedIs
      <4> QED
        BY <4>2, <4>3
    <3> QED
      BY <1>2, <3>1, <3>2 DEF Poll
  <2> QED
    BY <1>2, <2>1, <2>2, ToldKept DEF Poll
<1>3. CASE UaAnswers
  <2>1. UNCHANGED <<state, update_comp>> /\ told \subseteq told'
    BY <1>3, Answered DEF UaAnswers, vars, fsm
  <2>2. /\ 1 \in DOMAIN requests /\ requests[1] \in RequestMessage
        /\ requests' \in Rest(requests, 1) /\ 1 \in Arrivals(requests)
        /\ told' = IF requests[1].comp = update_comp
                   THEN told \cup {requests[1].command} ELSE told
    BY <1>3, Answered
  <2>3. PICK r \in Answers(requests[1]) : responses' = Append(responses, r)
    BY <1>3, Answered
  <2>4. r \in ResponseMessage /\ r.command = requests[1].command
    BY <2>2, <2>3, AnswerType, AnswerNames
  <2>5. \A i \in DOMAIN requests' : \E j \in DOMAIN requests : requests'[i] = requests[j]
    BY <1>1, <2>2, FirstArrives
  <2>6. \A i \in DOMAIN responses' :
            \/ responses'[i] = r
            \/ \E j \in DOMAIN responses : responses'[i] = responses[j]
    BY <1>1, <2>3, <2>4, AppendedIs
  <2>7. state \in InitiatorStates => r.command \in told'
    BY <2>2, <2>4 DEF ToldInv
  <2> QED
    BY <2>1, <2>5, <2>6, <2>7 DEF ToldInv, UaKnowsThePhase
<1>4. CASE OfferComponent
  <2>1. ASSUME state' = "Download", told' = {}, requests' = <<>> /\ responses' = <<>>
        PROVE  ToldInv'
    BY <2>1 DEF ToldInv, UaKnowsThePhase
  <2>2. ASSUME state' \notin InitiatorStates
        PROVE  ToldInv'
    BY <2>2 DEF ToldInv, UaKnowsThePhase, InitiatorStates
  <2> QED
    BY <1>4, <2>1, <2>2, OfferMoves
<1>5. CASE Activate \/ OtherCommand
  BY <1>5, CommandMoves DEF ToldInv, UaKnowsThePhase, InitiatorStates
<1>6. CASE Deliver
  <2>1. StaysOnComponent /\ UNCHANGED <<requests, told>>
    BY <1>6, DeliverStep, StepsOnComponent DEF Deliver
  <2>2. \A i \in DOMAIN responses' :
            \E j \in DOMAIN responses : responses'[i] = responses[j]
    BY <1>1, <1>6, Delivered, FirstArrives
  <2>3. CASE state' \in {"Verify", "Apply"} => state' = state
    BY <2>1, <2>2, <2>3, ToldKept
  <2>4. CASE state' \in {"Verify", "Apply"} /\ state' # state
    <3> DEFINE r == responses[1]
    <3>1. PhaseAcknowledged(r.id, r.command)
      BY <1>6, <2>4, Delivered
      DEF ResponseUnexpected, ResponseOutOfState, Data, FirmwareData, fsm
    <3>2. state \in InitiatorStates /\ r.command \in FdCommands /\ state = ServedIn[r.command]
      BY <1>6, <2>1, <2>4, <3>1, Delivered
      DEF PhaseAcknowledged, StaysOnComponent, InitiatorStates, ResponseMessage
    <3>3. r.command \in told
      BY <1>6, <3>2, Delivered DEF ToldInv
    <3>4. \/ state = "Download" /\ state' = "Verify" /\ r.command = "TransferComplete"
          \/ state = "Verify" /\ state' = "Apply" /\ r.command = "VerifyComplete"
      BY <2>4, <3>1, <3>2
      DEF PhaseAcknowledged, ServedIn, set_fd_state, InitiatorStates, FdCommands, fsm
    <3>5. UaKnowsThePhase'
      BY <2>1, <3>3, <3>4 DEF ToldInv, UaKnowsThePhase
    <3> QED
      BY <2>1, <2>2, <3>2, <3>5 DEF ToldInv, StaysOnComponent
  <2> QED
    BY <2>3, <2>4
<1>7. CASE Lose
  <2>1. UNCHANGED <<vars, told>>
    BY <1>7 DEF Lose
  <2>2. \A i \in DOMAIN requests' : \E j \in DOMAIN requests : requests'[i] = requests[j]
    BY <1>1, <1>7, RemovedIsLeft DEF Lose, LeftOf
  <2>3. \A i \in DOMAIN responses' : \E j \in DOMAIN responses : responses'[i] = responses[j]
    BY <1>1, <1>7, RemovedIsLeft DEF Lose, LeftOf
  <2> QED
    BY <2>1, <2>2, <2>3, ToldKept DEF StaysOnComponent, vars, fsm
<1>8. CASE TimePasses
  BY <1>8, StepsOnComponent, PhaseKept, ToldKept DEF TimePasses, link
<1>9. CASE UNCHANGED sysvars
  BY <1>9 DEF sysvars, vars, fsm, link, ToldInv, UaKnowsThePhase
<1> QED
  BY <1>2, <1>3, <1>4, <1>5, <1>6, <1>7, <1>8, <1>9 DEF SysNext

\* On a link that keeps the order the device leaves a phase only when the UA has
\* answered the request that ends it, for this component.
THEOREM PhaseIsKnown ==
    ASSUME Ordered
    PROVE  SysSpec => []UaKnowsThePhase
<1>1. SysInit => ToldInv
  BY DEF SysInit, Init, ToldInv, UaKnowsThePhase, InitiatorStates
<1>2. TypeOK /\ TypeOK' /\ Inv' /\ LinkInv /\ ToldInv /\ [SysNext]_sysvars => ToldInv'
  BY ToldStep
<1>3. ToldInv => UaKnowsThePhase
  BY DEF ToldInv
<1> QED
  BY <1>1, <1>2, <1>3, SystemInv, PTL DEF SysSpec

-----------------------------------------------------------------------------
(* The requests for one chunk, and the answers to them, while they are in  *)
(* flight.                                                                 *)

ChunkUnderWay == state = "Download" /\ ~req.complete

\* Behind every message there are only younger ones.
InOrder(last) ==
    /\ \A i, j \in DOMAIN requests :
          i < j => Age(requests[j].id, last) < Age(requests[i].id, last)
    /\ \A i, j \in DOMAIN responses :
          i < j => Age(responses[j].id, last) < Age(responses[i].id, last)
    /\ \A i \in DOMAIN responses, j \in DOMAIN requests :
          Age(requests[j].id, last) < Age(responses[i].id, last)

\* T1 has run since a request went out that n others followed, the last of them
\* `sent_time' ago.
Elapsed(n, sent_time, age) == age > T1 \/ Span(n) + sent_time <= age

\* Before a chunk is asked for the link is empty; then it carries messages of
\* requests sent again and again, in order and within T1, of which the last one
\* is about the chunk under way.
FlightInv ==
    /\ ChunkUnderWay /\ req.state # "Sent" => requests = <<>> /\ responses = <<>>
    /\ ChunkUnderWay /\ req.state = "Sent" =>
          /\ InOrder(req.instance_id)
          /\ \A i \in DOMAIN requests :
                /\ Elapsed(Age(requests[i].id, req.instance_id), req.sent_time, t1_age)
                /\ requests[i].id = req.instance_id => requests[i].offset = mode.offset
          /\ \A i \in DOMAIN responses :
                /\ Elapsed(Age(responses[i].id, req.instance_id), req.sent_time, t1_age)
                /\ responses[i].id = req.instance_id =>
                      \A k \in DOMAIN responses[i].data :
                          responses[i].data[k] = Byte(update_comp, mode.offset + k - 1)

LEMMA NothingLeft ==
    ASSUME NEW S, NEW t \in Seq(S), LeftOf(t, <<>>)
    PROVE  t = <<>>
<1>1. DOMAIN <<>> = {}
  <2>1. <<>> \in Seq(S) /\ Len(<<>>) = 0
    BY EmptySeq
  <2> QED
    BY <2>1, LenProperties
<1>2. PICK f \in [DOMAIN t -> DOMAIN <<>>] : TRUE
  BY DEF LeftOf
<1>3. DOMAIN t = {}
  BY <1>1, <1>2
<1>4. Len(t) \in Nat /\ DOMAIN t = 1 .. Len(t)
  BY LenProperties
<1>5. Len(t) = 0
  BY <1>3, <1>4
<1> QED
  BY <1>5, EmptySeq

LEMMA ChannelHolds ==
    ASSUME NEW S, NEW s \in Seq(S), NEW i \in DOMAIN s
    PROVE  s[i] \in S
BY LenProperties, ElementOfSeq

\* The order survives whatever is lost.
LEMMA OrderKept ==
    ASSUME LinkInv, NEW last, InOrder(last),
           LeftOf(requests', requests), LeftOf(responses', responses)
    PROVE  InOrder(last)'
<1>1. PICK f \in [DOMAIN requests' -> DOMAIN requests] :
          /\ \A i \in DOMAIN requests' : requests'[i] = requests[f[i]]
          /\ \A i, j \in DOMAIN requests' : i < j => f[i] < f[j]
  BY DEF LeftOf
<1>2. PICK g \in [DOMAIN responses' -> DOMAIN responses] :
          /\ \A i \in DOMAIN responses' : responses'[i] = responses[g[i]]
          /\ \A i, j \in DOMAIN responses' : i < j => g[i] < g[j]
  BY DEF LeftOf
<1>3. \A i, j \in DOMAIN requests' :
          i < j => Age(requests'[j].id, last) < Age(requests'[i].id, last)
  BY <1>1 DEF InOrder
<1>4. \A i, j \in DOMAIN responses' :
          i < j => Age(responses'[j].id, last) < Age(responses'[i].id, last)
  BY <1>2 DEF InOrder
<1>5. \A i \in DOMAIN responses', j \in DOMAIN requests' :
          Age(requests'[j].id, last) < Age(responses'[i].id, last)
  BY <1>1, <1>2 DEF InOrder
<1> QED
  BY <1>3, <1>4, <1>5 DEF InOrder

\* What happens while the request stands keeps the invariant, if time runs for
\* T1 as it does for T2.
LEMMA FlightKept ==
    ASSUME LinkInv, LinkInv', FlightInv,
           UNCHANGED <<state, update_comp, mode>>,
           req'.state = req.state, req'.complete = req.complete,
           req'.instance_id = req.instance_id,
           LeftOf(requests', requests), LeftOf(responses', responses),
           req.state = "Sent" =>
               /\ req.instance_id \in Ids
               /\ \A n \in Nat : Elapsed(n, req.sent_time, t1_age)
                                    => Elapsed(n, req'.sent_time, t1_age')
    PROVE  FlightInv'
<1>1. /\ requests \in Seq(RequestMessage) /\ requests' \in Seq(RequestMessage)
      /\ responses \in Seq(ResponseMessage) /\ responses' \in Seq(ResponseMessage)
  BY DEF LinkInv
<1>2. CASE ~ChunkUnderWay
  BY <1>2 DEF ChunkUnderWay, FlightInv
<1>3. CASE ChunkUnderWay /\ req.state # "Sent"
  <2>1. requests = <<>> /\ responses = <<>>
    BY <1>3 DEF FlightInv
  <2>2. requests' = <<>> /\ responses' = <<>>
    BY <1>1, <2>1, NothingLeft
  <2> QED
    BY <1>3, <2>2 DEF FlightInv
<1>4. CASE ChunkUnderWay /\ req.state = "Sent"
  <2> DEFINE last == req.instance_id
  <2>1. last \in Ids /\ req'.instance_id = last
    BY <1>4
  <2>2. InOrder(req.instance_id)'
    BY <1>4, OrderKept DEF FlightInv, InOrder
  <2>3. ASSUME NEW id \in Ids, Elapsed(Age(id, last), req.sent_time, t1_age)
        PROVE  Elapsed(Age(id, last), req'.sent_time, t1_age')
    <3>1. Age(id, last) \in Nat
      BY <2>1, AgeType
    <3> QED
      BY <1>4, <2>3, <3>1
  <2>4. PICK f \in [DOMAIN requests' -> DOMAIN requests] :
            \A i \in DOMAIN requests' : requests'[i] = requests[f[i]]
    BY DEF LeftOf
  <2>5. PICK g \in [DOMAIN responses' -> DOMAIN responses] :
            \A i \in DOMAIN responses' : responses'[i] = responses[g[i]]
    BY DEF LeftOf
  <2>6. ASSUME NEW i \in DOMAIN requests'
        PROVE  /\ Elapsed(Age(requests'[i].id, last), req'.sent_time, t1_age')
               /\ requests'[i].id = last => requests'[i].offset = mode.offset
    <3>1. f[i] \in DOMAIN requests /\ requests'[i] = requests[f[i]]
      BY <2>4
    <3>2. requests[f[i]] \in RequestMessage
      BY <1>1, <3>1, ChannelHolds
    <3>3. requests[f[i]].id \in Ids
      BY <3>2 DEF RequestMessage
    <3> QED
      BY <1>4, <2>3, <3>1, <3>3 DEF FlightInv
  <2>7. ASSUME NEW i \in DOMAIN responses'
        PROVE  /\ Elapsed(Age(responses'[i].id, last), req'.sent_time, t1_age')
               /\ responses'[i].id = last =>
                      \A k \in DOMAIN responses'[i].data :
                          responses'[i].data[k] = Byte(update_comp, mode.offset + k - 1)
    <3>1. g[i] \in DOMAIN responses /\ responses'[i] = responses[g[i]]
      BY <2>5
    <3>2. responses[g[i]] \in ResponseMessage
      BY <1>1, <3>1, ChannelHolds
    <3>3. responses[g[i]].id \in Ids
      BY <3>2 DEF ResponseMessage
    <3> QED
      BY <1>4, <2>3, <3>1, <3>3 DEF FlightInv
  <2> QED
    BY <1>4, <2>1, <2>2, <2>6, <2>7 DEF FlightInv, ChunkUnderWay
<1> QED
  BY <1>2, <1>3, <1>4

\* What a poll does while a chunk is under way: nothing, or it asks for one.
LEMMA ChunkPoll ==
    ASSUME SafeAfterAlloc, TypeOK, WireInv, Poll, ChunkUnderWay'
    PROVE  /\ ChunkUnderWay /\ UNCHANGED <<state, update_comp, t1_age, responses, image>>
           /\ \/ UNCHANGED <<req, mode, requests>>
              \/ /\ Send("RequestFirmwareData", FALSE, None)
                 /\ ~T1Expired /\ should_send_fd_request /\ Sends
                 /\ UNCHANGED requests \/ requests' = Append(requests, Sent)
<1>1. UNCHANGED <<responses, image>> /\ fd_progress
  BY DEF Poll
<1>2. ~CanFail("query_download_offset_and_length") /\ ~CanFail("encode")
  BY DEF SafeAfterAlloc, CanFail
<1>3. CASE ProgressNothing \/ ProgressTimeout
  <2>1. UNCHANGED <<fsm, update_comp, req, mode, t1_age>>
    BY <1>3 DEF ProgressNothing, ProgressTimeout, set_fd_idle, ChunkUnderWay
  <2>2. ~Sends
    <3>1. should_send_fd_request => ~(req'.state = "Sent" /\ req'.sent_time = 0)
                                     \/ ProgressNothing
      BY <1>3, <2>1 DEF should_send_fd_request
    <3>2. ProgressNothing => ~should_send_fd_request
      BY <2>1 DEF ProgressNothing, ChunkUnderWay, InitiatorStates, fsm
    <3> QED
      BY <3>1, <3>2 DEF Sends
  <2> QED
    BY <1>1, <2>1, <2>2 DEF Poll, ChunkUnderWay, fsm
<1>4. CASE ProgressRequestData
  <2>1. state = "Download" /\ ~req.complete /\ ~T1Expired /\ should_send_fd_request
        /\ UNCHANGED <<fsm, update_comp, t1_age>>
    BY <1>4 DEF ProgressRequestData
  <2>2. Send("RequestFirmwareData", FALSE, None)
    BY <1>2, <1>4, <2>1, RangeValid DEF ProgressRequestData
  <2>3. Sends
    BY <2>1, <2>2 DEF Sends, Send
  <2> QED
    BY <1>1, <2>1, <2>2, <2>3 DEF Poll, ChunkUnderWay, fsm
<1>5. CASE ProgressTransferComplete
  <2>1. req.complete = TRUE
    BY <1>5 DEF ProgressTransferComplete, TypeOK, FdReq
  <2>2. ASSUME FailAfterAlloc(0)
        PROVE  req'.complete = req.complete
    BY <2>2, FailAfterAllocSame DEF SameRequest
  <2>3. FailAfterAlloc(0) \/ Send("TransferComplete", TRUE, req.result)
    BY <1>5 DEF ProgressTransferComplete
  <2>4. req'.complete = TRUE
    BY <2>1, <2>2, <2>3 DEF Send
  <2> QED
    BY <2>4 DEF ChunkUnderWay
<1>6. CASE ProgressVerify \/ ProgressApply
  BY <1>6 DEF ProgressVerify, ProgressApply, Progress, ChunkUnderWay, fsm
<1> QED
  BY <1>1, <1>3, <1>4, <1>5, <1>6 DEF fd_progress

\* A message of T1's time becomes older by one, and keeps an age of its own.
LEMMA GrowsOlder ==
    ASSUME IdsOutlastRetries, TypeOK, NEW last \in Ids, req.instance_id = last,
           t1_age <= T1, NEW id \in Ids, Elapsed(Age(id, last), T2, t1_age)
    PROVE  /\ Age(id, NextInstanceId) = Age(id, last) + 1 /\ Age(id, last) \in Nat
           /\ id # NextInstanceId /\ Elapsed(Age(id, NextInstanceId), 0, t1_age)
<1> DEFINE n == Age(id, last)
<1>1. n \in Nat /\ t1_age \in Nat
  BY AgeType DEF TypeOK
<1>2. Elapsed(n, T2, t1_age)
  OBVIOUS
<1> HIDE DEF n
<1>3. Span(n) \in Nat /\ Span(n + 1) = Span(n) + T2
  BY <1>1, SpanNext
<1>4. Span(n + 1) <= t1_age
  BY <1>1, <1>2, <1>3 DEF Elapsed
<1>5. n + 1 < InstanceIdCount
  <2>1. n + 1 \in Nat /\ Span(n + 1) <= T1
    BY <1>1, <1>3, <1>4
  <2> QED
    BY <2>1, SpanBound
<1>6. Age(id, NextInstanceId) = n + 1
  BY <1>5, NextAge DEF n
<1>7. NextInstanceId \in Ids
  BY NextInstanceIdType DEF TypeOK, Ids
<1>8. id # NextInstanceId
  BY <1>1, <1>6, <1>7, YoungestIsLast
<1>9. Span(n + 1) + 0 <= t1_age
  BY <1>1, <1>3, <1>4
<1> QED
  BY <1>1, <1>6, <1>8, <1>9 DEF Elapsed, n

LEMMA NothingThere == DOMAIN <<>> = {}
<1>1. <<>> \in Seq({}) /\ Len(<<>>) = 0
  BY EmptySeq
<1> QED
  BY <1>1, LenProperties

\* When a request goes out, what was in flight is older and in the same order.
LEMMA AllGrowOlder ==
    ASSUME IdsOutlastRetries, TypeOK, Inv, LinkInv, FlightInv, ChunkUnderWay,
           ~T1Expired, should_send_fd_request
    PROVE  /\ InOrder(NextInstanceId)
           /\ \A i \in DOMAIN requests :
                 /\ requests[i].id # NextInstanceId
                 /\ 0 < Age(requests[i].id, NextInstanceId)
                 /\ Elapsed(Age(requests[i].id, NextInstanceId), 0, t1_age)
           /\ \A i \in DOMAIN responses :
                 /\ responses[i].id # NextInstanceId
                 /\ 0 < Age(responses[i].id, NextInstanceId)
                 /\ Elapsed(Age(responses[i].id, NextInstanceId), 0, t1_age)
<1>1. requests \in Seq(RequestMessage) /\ responses \in Seq(ResponseMessage)
  BY DEF LinkInv
<1>2. CASE req.state # "Sent"
  <2>1. requests = <<>> /\ responses = <<>>
    BY <1>2 DEF FlightInv
  <2>2. DOMAIN requests = {} /\ DOMAIN responses = {}
    BY <2>1, NothingThere
  <2> QED
    BY <2>2 DEF InOrder
<1>3. CASE req.state = "Sent"
  <2> DEFINE last == req.instance_id
             next == NextInstanceId
  <2>1. last \in Ids
    BY <1>3 DEF Inv, RequestMatchesState, TypeOK, FdReq, Ids
  <2>2. req.sent_time = T2 /\ t1_age <= T1
    BY <1>3 DEF T1Expired, should_send_fd_request, TypeOK, FdReq, Inv,
       RequestMatchesState
  <2>3. ASSUME NEW id \in Ids, Elapsed(Age(id, last), req.sent_time, t1_age)
        PROVE  /\ Age(id, next) = Age(id, last) + 1 /\ Age(id, last) \in Nat
               /\ id # next /\ Elapsed(Age(id, next), 0, t1_age)
    BY <2>1, <2>2, <2>3, GrowsOlder
  <2> HIDE DEF last, next
  <2>4. ASSUME NEW i \in DOMAIN requests
        PROVE  /\ requests[i].id # next
               /\ Age(requests[i].id, next) = Age(requests[i].id, last) + 1
               /\ Age(requests[i].id, last) \in Nat
               /\ Elapsed(Age(requests[i].id, next), 0, t1_age)
    <3>1. requests[i] \in RequestMessage
      BY <1>1, ChannelHolds
    <3>2. requests[i].id \in Ids
      BY <3>1 DEF RequestMessage
    <3>3. Elapsed(Age(requests[i].id, last), req.sent_time, t1_age)
      BY <1>3 DEF FlightInv, last
    <3> QED
      BY <2>3, <3>2, <3>3
  <2>5. ASSUME NEW i \in DOMAIN responses
        PROVE  /\ responses[i].id # next
               /\ Age(responses[i].id, next) = Age(responses[i].id, last) + 1
               /\ Age(responses[i].id, last) \in Nat
               /\ Elapsed(Age(responses[i].id, next), 0, t1_age)
    <3>1. responses[i] \in ResponseMessage
      BY <1>1, ChannelHolds
    <3>2. responses[i].id \in Ids
      BY <3>1 DEF ResponseMessage
    <3>3. Elapsed(Age(responses[i].id, last), req.sent_time, t1_age)
      BY <1>3 DEF FlightInv, last
    <3> QED
      BY <2>3, <3>2, <3>3
  <2>6. InOrder(last)
    BY <1>3 DEF FlightInv, last
  <2>7. InOrder(next)
    BY <2>4, <2>5, <2>6 DEF InOrder
  <2> QED
    BY <2>4, <2>5, <2>7 DEF next
<1> QED
  BY <1>2, <1>3

\* A request for a chunk is the youngest message, and the last.
LEMMA FlightSent ==
    ASSUME IdsOutlastRetries, TypeOK, Inv, LinkInv, FlightInv, ChunkUnderWay,
           Send("RequestFirmwareData", FALSE, None), ~T1Expired, should_send_fd_request,
           UNCHANGED <<state, t1_age, responses>>,
           \/ UNCHANGED requests
           \/ Sent \in RequestMessage /\ requests' = Append(requests, Sent)
    PROVE  FlightInv'
<1> DEFINE next == NextInstanceId
<1>1. next \in Ids /\ t1_age \in Nat
  BY NextInstanceIdType DEF TypeOK, Ids
<1>2. /\ InOrder(next)
      /\ \A i \in DOMAIN requests :
            /\ requests[i].id # next
            /\ 0 < Age(requests[i].id, next)
            /\ Elapsed(Age(requests[i].id, next), 0, t1_age)
      /\ \A i \in DOMAIN responses :
            /\ responses[i].id # next
            /\ 0 < Age(responses[i].id, next)
            /\ Elapsed(Age(responses[i].id, next), 0, t1_age)
  BY AllGrowOlder
<1>3. /\ req'.state = "Sent" /\ req'.sent_time = 0 /\ req'.instance_id = next
      /\ req'.command = "RequestFirmwareData" /\ wire_id' = next
  BY DEF Send
<1>4. Sent.id = next /\ Sent.offset = mode'.offset
  BY <1>3 DEF Sent
<1> HIDE DEF next
<1>5. Age(next, next) = 0 /\ Elapsed(0, 0, t1_age)
  BY <1>1, YoungestIsLast, SpanNext DEF Elapsed
<1>6. ASSUME NEW i \in DOMAIN requests'
      PROVE  \/ i \in DOMAIN requests /\ requests'[i] = requests[i]
             \/ requests'[i] = Sent /\ \A j \in DOMAIN requests' : ~(i < j)
  <2>1. CASE UNCHANGED requests
    BY <2>1
  <2>2. CASE Sent \in RequestMessage /\ requests' = Append(requests, Sent)
    BY <2>2, AppendedIs DEF LinkInv
  <2> QED
    BY <2>1, <2>2
<1>7. \A i, j \in DOMAIN requests' :
          i < j => Age(requests'[j].id, next) < Age(requests'[i].id, next)
  BY <1>2, <1>4, <1>5, <1>6 DEF InOrder
<1>8. \A i \in DOMAIN responses, j \in DOMAIN requests' :
          Age(requests'[j].id, next) < Age(responses[i].id, next)
  BY <1>2, <1>4, <1>5, <1>6 DEF InOrder
<1>9. \A i \in DOMAIN requests' :
          /\ Elapsed(Age(requests'[i].id, next), 0, t1_age)
          /\ requests'[i].id = next => requests'[i].offset = mode'.offset
  BY <1>2, <1>4, <1>5, <1>6
<1>10. InOrder(req.instance_id)'
  BY <1>2, <1>3, <1>7, <1>8 DEF InOrder
<1> QED
  BY <1>2, <1>3, <1>9, <1>10 DEF FlightInv

\* The data of an answer is that of the range asked for.
LEMMA AnswerData ==
    ASSUME NEW m \in RequestMessage, NEW r \in Answers(m)
    PROVE  \A k \in DOMAIN r.data : r.data[k] = Byte(m.comp, m.offset + k - 1)
<1>1. \/ r.data = <<>>
      \/ \E n \in {m.length, m.length - 1} :
            r.data = [ k \in 1 .. n |-> Byte(m.comp, m.offset + k - 1) ]
  <2>1. CASE m.command # "RequestFirmwareData"
    BY <2>1 DEF Answers, Response
  <2>2. CASE m.command = "RequestFirmwareData"
    <3>1. CASE r \in { Response(m, cc, <<>>) : cc \in {"RetryRequestFwData", "Error"} }
      BY <3>1 DEF Response
    <3>2. ASSUME NEW n \in {m.length, m.length - 1},
                 r = Response(m, "Success",
                              [ k \in 1 .. n |-> Byte(m.comp, m.offset + k - 1) ])
          PROVE  r.data = [ k \in 1 .. n |-> Byte(m.comp, m.offset + k - 1) ]
      BY <3>2 DEF Response
    <3> QED
      BY <2>2, <3>1, <3>2 DEF Answers
  <2> QED
    BY <2>1, <2>2
<1> QED
  BY <1>1, NothingThere

\* The UA answers the oldest request: its answer goes behind the other answers.
LEMMA FlightAnswered ==
    ASSUME Ordered, TypeOK, Inv, LinkInv, ToldInv, FlightInv, UaAnswers
    PROVE  FlightInv'
<1>1. requests \in Seq(RequestMessage) /\ responses \in Seq(ResponseMessage)
  BY DEF LinkInv
<1>2. /\ 1 \in DOMAIN requests /\ requests[1] \in RequestMessage
      /\ requests' \in Rest(requests, 1) /\ 1 \in Arrivals(requests)
  BY Answered
<1>3. PICK r \in Answers(requests[1]) : responses' = Append(responses, r)
  BY Answered
<1>4. r \in ResponseMessage /\ r.id = requests[1].id
  BY <1>2, <1>3, AnswerType, AnswerNames
<1>5. UNCHANGED <<state, update_comp, req, mode, t1_age>>
  BY DEF UaAnswers, vars, fsm
<1>6. CASE ~ChunkUnderWay
  BY <1>5, <1>6 DEF FlightInv, ChunkUnderWay
<1>7. CASE ChunkUnderWay /\ req.state # "Sent"
  BY <1>2, <1>7, NothingThere DEF FlightInv
<1>8. CASE ChunkUnderWay /\ req.state = "Sent"
  <2> DEFINE last == req.instance_id
             age(m) == Age(m.id, last)
  <2>1. /\ InOrder(last)
        /\ \A i \in DOMAIN requests :
              /\ Elapsed(age(requests[i]), req.sent_time, t1_age)
              /\ requests[i].id = last => requests[i].offset = mode.offset
        /\ \A i \in DOMAIN responses :
              /\ Elapsed(age(responses[i]), req.sent_time, t1_age)
              /\ responses[i].id = last =>
                    \A k \in DOMAIN responses[i].data :
                        responses[i].data[k] = Byte(update_comp, mode.offset + k - 1)
    BY <1>8 DEF FlightInv
  <2>2. /\ Elapsed(age(r), req.sent_time, t1_age)
        /\ r.id = last =>
              \A k \in DOMAIN r.data : r.data[k] = Byte(update_comp, mode.offset + k - 1)
    <3>1. requests[1].comp = update_comp
      BY <1>2, <1>8 DEF ToldInv, ChunkUnderWay, InitiatorStates
    <3>2. \A k \in DOMAIN r.data :
              r.data[k] = Byte(requests[1].comp, requests[1].offset + k - 1)
      BY <1>2, <1>3, AnswerData
    <3> QED
      BY <1>2, <1>4, <2>1, <3>1, <3>2
  <2>3. \A i \in DOMAIN requests' : i + 1 \in DOMAIN requests /\ requests'[i] = requests[i + 1]
    BY <1>1, <1>2, FirstArrives
  <2>4. DOMAIN requests \subseteq Nat /\ DOMAIN requests' \subseteq Nat \ {0}
    BY <1>1, <1>2, FirstArrives, LenProperties
  <2>5. /\ DOMAIN responses' = 1 .. Len(responses) + 1
        /\ responses'[Len(responses) + 1] = r
        /\ Len(responses) \in Nat /\ DOMAIN responses = 1 .. Len(responses)
        /\ \A i \in DOMAIN responses : responses'[i] = responses[i]
    BY <1>1, <1>3, <1>4, AppendedIs
  <2>6. ASSUME NEW i \in DOMAIN responses'
        PROVE  \/ i \in DOMAIN responses /\ responses'[i] = responses[i]
               \/ responses'[i] = r /\ \A j \in DOMAIN responses' : ~(i < j)
    BY <2>5
  \* The answer has the age of the oldest request.
  <2>7. /\ \A i \in DOMAIN responses : age(r) < age(responses[i])
        /\ \A j \in DOMAIN requests' : age(requests'[j]) < age(r)
    BY <1>2, <1>4, <2>1, <2>3, <2>4 DEF InOrder
  <2> HIDE DEF age, last
  <2>8. \A i, j \in DOMAIN requests' : i < j => age(requests'[j]) < age(requests'[i])
    BY <2>1, <2>3, <2>4 DEF InOrder, age
  <2>9. \A i, j \in DOMAIN responses' : i < j => age(responses'[j]) < age(responses'[i])
    BY <2>1, <2>6, <2>7 DEF InOrder, age
  <2>10. \A i \in DOMAIN responses', j \in DOMAIN requests' :
             age(requests'[j]) < age(responses'[i])
    BY <2>1, <2>3, <2>6, <2>7 DEF InOrder, age
  <2>11. InOrder(req.instance_id)'
    BY <1>5, <2>8, <2>9, <2>10 DEF InOrder, age, last
  <2>12. \A i \in DOMAIN requests' :
             /\ Elapsed(age(requests'[i]), req.sent_time, t1_age)
             /\ requests'[i].id = last => requests'[i].offset = mode.offset
    BY <2>1, <2>3
  <2>13. \A i \in DOMAIN responses' :
             /\ Elapsed(age(responses'[i]), req.sent_time, t1_age)
             /\ responses'[i].id = last =>
                   \A k \in DOMAIN responses'[i].data :
                       responses'[i].data[k] = Byte(update_comp, mode.offset + k - 1)
    BY <2>1, <2>2, <2>6
  <2> QED
    BY <1>5, <1>8, <2>11, <2>12, <2>13 DEF FlightInv, ChunkUnderWay, age, last
<1> QED
  BY <1>6, <1>7, <1>8

\* Nothing is in flight behind the answer to the last request.
LEMMA LastOfAll ==
    ASSUME Ordered, LinkInv, LinkInv', FlightInv, ChunkUnderWay, Deliver, req.state = "Sent",
           req.instance_id \in Ids, responses[1].id = req.instance_id
    PROVE  requests' = <<>> /\ responses' = <<>>
<1>1. /\ requests \in Seq(RequestMessage) /\ responses \in Seq(ResponseMessage)
      /\ UNCHANGED requests /\ responses' \in Seq(ResponseMessage)
  BY DEF LinkInv, Deliver
<1>2. /\ 1 \in DOMAIN responses
      /\ \A j \in DOMAIN responses' : j + 1 \in DOMAIN responses
  BY <1>1, Delivered, FirstArrives
<1>3. Age(responses[1].id, req.instance_id) = 0 /\ InOrder(req.instance_id)
  BY YoungestIsLast DEF FlightInv
<1>4. ASSUME NEW j \in DOMAIN requests
      PROVE  FALSE
  <2>1. requests[j] \in RequestMessage
    BY <1>1, ChannelHolds
  <2>2. Age(requests[j].id, req.instance_id) \in Nat
    BY <2>1, AgeType DEF RequestMessage
  <2> QED
    BY <1>2, <1>3, <2>2 DEF InOrder
<1>5. ASSUME NEW j \in DOMAIN responses, 1 < j
      PROVE  FALSE
  <2>1. responses[j] \in ResponseMessage
    BY <1>1, ChannelHolds
  <2>2. Age(responses[j].id, req.instance_id) \in Nat
    BY <2>1, AgeType DEF ResponseMessage
  <2> QED
    BY <1>2, <1>3, <1>5, <2>2 DEF InOrder
<1>6. Len(responses') \in Nat /\ DOMAIN responses' = 1 .. Len(responses')
      /\ Len(requests) \in Nat /\ DOMAIN requests = 1 .. Len(requests)
  BY <1>1, LenProperties
<1>7. Len(requests) = 0
  <2>1. 1 \notin DOMAIN requests
    BY <1>4
  <2> QED
    BY <1>6, <2>1
<1>8. Len(responses') = 0
  <2>1. 1 \notin DOMAIN responses'
    BY <1>2, <1>5
  <2> QED
    BY <1>6, <2>1
<1> QED
  BY <1>1, <1>7, <1>8, EmptySeq

\* Without a chunk under way, or on an empty link, there is nothing to say.
LEMMA NoFlight ==
    ASSUME \/ ~ChunkUnderWay'
           \/ requests' = <<>> /\ responses' = <<>>
    PROVE  FlightInv'
BY NothingThere DEF FlightInv, InOrder

LEMMA SentIds ==
    ASSUME TypeOK, Inv, req.state = "Sent"
    PROVE  req.instance_id \in Ids /\ req.sent_time \in 0 .. T2
BY DEF Inv, RequestMatchesState, TypeOK, FdReq, Ids

\* While a chunk is under way, every response that matches is data for it.
LEMMA MatchIsData ==
    ASSUME TypeOK, Inv, ChunkUnderWay, NEW id, NEW cmd
    PROVE  ~ResponseOutOfState(id, cmd) /\ ~PhaseAcknowledged(id, cmd)
<1>1. Expected(id, cmd) => cmd = "RequestFirmwareData"
  BY DEF Expected, Inv, RequestMatchesState, ChunkUnderWay, InitiatorStates
<1>2. ServedIn["RequestFirmwareData"] = "Download"
  BY DEF ServedIn, FdCommands
<1>3. state = "Download" /\ req.complete = FALSE
  BY DEF ChunkUnderWay, TypeOK, FdReq
<1>4. ~PhaseAcknowledged(id, cmd)
  BY <1>1 DEF PhaseAcknowledged
<1>5. ASSUME ResponseOutOfState(id, cmd)
      PROVE  FALSE
  <2>1. cmd = "RequestFirmwareData"
    BY <1>1, <1>5 DEF ResponseOutOfState
  <2>2. state # ServedIn[cmd] \/ req.complete # (cmd # "RequestFirmwareData")
    BY <1>5 DEF ResponseOutOfState
  <2>3. state = ServedIn[cmd] /\ (cmd # "RequestFirmwareData") = FALSE
    BY <1>2, <1>3, <2>1
  <2> QED
    BY <1>3, <2>2, <2>3
<1> QED
  BY <1>4, <1>5

LEMMA FlightDelivered ==
    ASSUME Ordered, TypeOK, Inv, LinkInv, LinkInv', FlightInv, Deliver
    PROVE  FlightInv'
<1> DEFINE r == responses[1]
<1>1. requests \in Seq(RequestMessage) /\ responses \in Seq(ResponseMessage)
      /\ UNCHANGED requests
  BY DEF LinkInv, Deliver
<1>2. LeftOf(requests', requests) /\ LeftOf(responses', responses)
  BY <1>1, LeftOfItself, Delivered, FirstLeaves
<1>3. CASE ResponseUnexpected(r.id, r.command)
  <2>1. UNCHANGED <<state, update_comp, req, mode, t1_age>>
    BY <1>3 DEF ResponseUnexpected, fsm
  <2> QED
    BY <1>2, <2>1, SentIds, FlightKept
<1>4. CASE ResponseOutOfState(r.id, r.command)
  <2>1. ~ChunkUnderWay
    BY <1>4, MatchIsData
  <2>2. ~ChunkUnderWay'
    BY <1>4, <2>1 DEF ResponseOutOfState, ChunkUnderWay, fsm
  <2> QED
    BY <2>2, NoFlight
<1>5. CASE PhaseAcknowledged(r.id, r.command)
  <2>1. ~ChunkUnderWay'
    BY <1>5 DEF PhaseAcknowledged, ChunkUnderWay, Request, set_fd_state
  <2> QED
    BY <2>1, NoFlight
<1>6. CASE Data(r)
  <2>1. ChunkUnderWay /\ req.state = "Sent" /\ req.instance_id = r.id
    BY <1>6 DEF Data, FirmwareData, Expected, ChunkUnderWay
  <2>2. requests' = <<>> /\ responses' = <<>>
    BY <2>1, SentIds, LastOfAll
  <2> QED
    BY <2>2, NoFlight
<1> QED
  BY <1>3, <1>4, <1>5, <1>6, Delivered

LEMMA FlightTick ==
    ASSUME TypeOK, Inv, LinkInv, LinkInv', FlightInv, TimePasses
    PROVE  FlightInv'
<1>1. /\ UNCHANGED <<state, update_comp, mode, requests, responses>>
      /\ t1_age' = LaterT1(1) /\ req' = Later(req, 1)
  BY DEF TimePasses, Tick, fsm, link
<1>2. req'.state = req.state /\ req'.complete = req.complete
      /\ req'.instance_id = req.instance_id
  BY <1>1 DEF Later, TypeOK, FdReq
<1>3. LeftOf(requests', requests) /\ LeftOf(responses', responses)
  BY <1>1, LeftOfItself DEF LinkInv
<1>4. ASSUME req.state = "Sent", NEW n \in Nat, Elapsed(n, req.sent_time, t1_age)
      PROVE  Elapsed(n, req'.sent_time, t1_age')
  <2>1. req.sent_time \in 0 .. T2 /\ t1_age \in 0 .. T1 + 1 /\ Span(n) \in Nat
    BY <1>4, SentIds, SpanNext DEF TypeOK
  <2>2. req.sent_time # None
    BY <2>1
  <2>3. req'.sent_time = Capped(req.sent_time + 1, T2)
    BY <1>1, <2>2 DEF Later, TypeOK, FdReq
  <2>4. t1_age' = Capped(t1_age + 1, T1 + 1)
    BY <1>1 DEF LaterT1
  <2>5. req'.sent_time \in Nat /\ req'.sent_time <= req.sent_time + 1
    BY <2>1, <2>3 DEF Capped
  <2>6. t1_age' = T1 + 1 \/ t1_age' = t1_age + 1
    BY <2>1, <2>4 DEF Capped
  <2>7. CASE t1_age > T1
    BY <2>1, <2>4, <2>7 DEF Elapsed, Capped
  <2>8. CASE Span(n) + req.sent_time <= t1_age
    BY <2>1, <2>5, <2>6, <2>8 DEF Elapsed
  <2> QED
    BY <1>4, <2>7, <2>8 DEF Elapsed
<1> QED
  BY <1>1, <1>2, <1>3, <1>4, SentIds, FlightKept

LEMMA FlightStep ==
    ASSUME Ordered, SafeAfterAlloc, IdsOutlastRetries, TypeOK, TypeOK', Inv, Inv',
           LinkInv, LinkInv', WireInv, ToldInv, FlightInv, [SysNext]_sysvars
    PROVE  FlightInv'
<1>1. CASE Poll
  <2>1. CASE ~ChunkUnderWay'
    BY <2>1, NoFlight
  <2>2. CASE ChunkUnderWay'
    <3>1. /\ ChunkUnderWay /\ UNCHANGED <<state, update_comp, t1_age, responses, image>>
          /\ \/ UNCHANGED <<req, mode, requests>>
             \/ /\ Send("RequestFirmwareData", FALSE, None)
                /\ ~T1Expired /\ should_send_fd_request /\ Sends
                /\ (UNCHANGED requests \/ requests' = Append(requests, Sent))
      BY <1>1, <2>2, ChunkPoll
    <3>2. CASE UNCHANGED <<req, mode, requests>>
      BY <3>1, <3>2, LeftOfItself, SentIds, FlightKept DEF LinkInv
    <3>3. CASE ~UNCHANGED <<req, mode, requests>>
      <4>1. Sends => Sent \in RequestMessage
        BY <1>1, SystemStep, WireStep, SentType
      <4> QED
        BY <3>1, <3>3, <4>1, FlightSent
    <3> QED
      BY <3>2, <3>3
  <2> QED
    BY <2>1, <2>2
<1>2. CASE UaAnswers
  BY <1>2, FlightAnswered
<1>3. CASE OfferComponent \/ Activate \/ OtherCommand
  <2>1. (requests' = <<>> /\ responses' = <<>>) \/ state' \notin InitiatorStates
    BY <1>3, OfferMoves, CommandMoves
  <2> QED
    BY <2>1, NoFlight DEF ChunkUnderWay, InitiatorStates
<1>4. CASE Deliver
  BY <1>4, FlightDelivered
<1>5. CASE Lose
  <2>1. UNCHANGED <<state, update_comp, req, mode, t1_age>>
    BY <1>5 DEF Lose, vars, fsm
  <2>2. requests \in Seq(RequestMessage) /\ responses \in Seq(ResponseMessage)
    BY DEF LinkInv
  <2>3. LeftOf(requests', requests) /\ LeftOf(responses', responses)
    BY <1>5, <2>2, LeftOfItself, RemovedIsLeft DEF Lose
  <2> QED
    BY <2>1, <2>3, SentIds, FlightKept
<1>6. CASE TimePasses
  BY <1>6, FlightTick
<1>7. CASE UNCHANGED sysvars
  <2>1. UNCHANGED <<state, update_comp, req, mode, t1_age, requests, responses>>
    BY <1>7 DEF sysvars, vars, fsm, link
  <2> QED
    BY <2>1, LeftOfItself, SentIds, FlightKept DEF LinkInv
<1> QED
  BY <1>1, <1>2, <1>3, <1>4, <1>5, <1>6, <1>7 DEF SysNext

-----------------------------------------------------------------------------
(* The image the platform holds.                                           *)

Entire == \A i \in DOMAIN image : image[i] # None

\* The device has taken the transfer for complete.
TransferDone ==
    \/ state \in {"Verify", "Apply"}
    \/ state = "Download" /\ req.complete /\ req.result = Success

\* During an operation the platform holds bytes of the component at their own
\* offsets, the chunk under way starts inside of it, and what is complete is
\* whole.
ImageInv ==
    state \in InitiatorStates =>
        /\ image = [ i \in Offsets(update_comp) |-> image[i] ]
        /\ \A i \in DOMAIN image : image[i] \in {None, Byte(update_comp, i)}
        /\ ChunkUnderWay /\ req.state = "Sent" => mode.offset \in DOMAIN image
        /\ TransferDone => Entire

\* A step that writes nothing.
LEMMA ImageKept ==
    ASSUME ImageInv, StaysOnComponent, UNCHANGED image,
           ChunkUnderWay' /\ req'.state = "Sent" =>
               \/ ChunkUnderWay /\ req.state = "Sent" /\ UNCHANGED mode
               \/ mode'.offset \in DOMAIN image,
           TransferDone' => TransferDone
    PROVE  ImageInv'
BY DEF ImageInv, StaysOnComponent, Entire

\* A poll completes no transfer.
LEMMA PollCompletesNothing ==
    ASSUME TypeOK, fd_progress, TransferDone'
    PROVE  TransferDone
<1>1. state' = state
  BY DEF fd_progress, ProgressNothing, ProgressTimeout, ProgressRequestData,
         ProgressTransferComplete, ProgressVerify, ProgressApply, Progress, set_fd_idle,
         TransferDone, fsm
<1>2. ASSUME FailAfterAlloc(0)
      PROVE  req'.complete = req.complete /\ req'.result = req.result
  BY <1>2, FailAfterAllocSame DEF SameRequest
<1>3. CASE ProgressNothing \/ ProgressTimeout
  BY <1>1, <1>3 DEF ProgressNothing, ProgressTimeout, set_fd_idle,
     TransferDone, fsm
<1>4. CASE ProgressRequestData \/ ProgressTransferComplete
  <2>1. \/ FailAfterAlloc(0)
        \/ Send("RequestFirmwareData", FALSE, None)
        \/ req.complete = TRUE /\ Send("TransferComplete", TRUE, req.result)
    BY <1>4 DEF ProgressRequestData, ProgressTransferComplete, TypeOK, FdReq
  <2>2. \/ req'.complete = req.complete /\ req'.result = req.result
        \/ req'.complete = FALSE
    <3>1. CASE FailAfterAlloc(0)
      BY <1>2, <3>1
    <3>2. CASE Send("RequestFirmwareData", FALSE, None)
      BY <3>2 DEF Send
    <3>3. CASE req.complete = TRUE /\ Send("TransferComplete", TRUE, req.result)
      <4>1. req'.complete = TRUE /\ req'.result = req.result
        BY <3>3 DEF Send
      <4> QED
        BY <3>3, <4>1
    <3> QED
      BY <2>1, <3>1, <3>2, <3>3
  <2> QED
    BY <1>1, <2>2 DEF TransferDone
<1>5. CASE ProgressVerify \/ ProgressApply
  BY <1>5 DEF ProgressVerify, ProgressApply, Progress, TransferDone
<1> QED
  BY <1>3, <1>4, <1>5 DEF fd_progress

\* The data that is written is of the chunk under way.
LEMMA DataInPlace ==
    ASSUME TypeOK, LinkInv, FlightInv, NEW i \in DOMAIN responses, Data(responses[i]),
           Len(responses[i].data) >= mode.length,
           NEW j \in mode.offset .. mode.offset + mode.length - 1
    PROVE  responses[i].data[j - mode.offset + 1] = Byte(update_comp, j)
<1> DEFINE data == responses[i].data
           k    == j - mode.offset + 1
<1>1. ChunkUnderWay /\ req.state = "Sent" /\ req.instance_id = responses[i].id
  BY DEF Data, FirmwareData, Expected, ChunkUnderWay
<1>2. responses[i] \in ResponseMessage
  BY ChannelHolds DEF LinkInv
<1>3. data \in Seq(Bytes) /\ mode.offset \in Nat /\ mode.length \in Nat
  BY <1>2 DEF TypeOK, InitiatorMode, ResponseMessage
<1>4. DOMAIN data = 1 .. Len(data) /\ Len(data) \in Nat
  BY <1>3, LenProperties
<1>5. k \in DOMAIN data /\ mode.offset + k - 1 = j
  <2>1. Len(data) >= mode.length
    OBVIOUS
  <2>2. j \in Int /\ mode.offset <= j /\ j <= mode.offset + mode.length - 1
    BY <1>3
  <2> HIDE DEF data
  <2>3. k \in 1 .. Len(data)
    BY <1>3, <1>4, <2>1, <2>2
  <2>4. mode.offset + k - 1 = j
    BY <1>3, <2>2
  <2> QED
    BY <1>4, <2>3, <2>4
<1>6. data[k] = Byte(update_comp, mode.offset + k - 1)
  BY <1>1, <1>5 DEF FlightInv
<1> QED
  BY <1>5, <1>6

\* Data that matches the request under way is written where it belongs.
LEMMA DataWritten ==
    ASSUME TypeOK, LinkInv, ImageInv, FlightInv, NEW i \in DOMAIN responses,
           responses[i].command = "RequestFirmwareData", Data(responses[i])
    PROVE  ImageInv'
<1> DEFINE r == responses[i]
<1>1. /\ ChunkUnderWay /\ req.state = "Sent" /\ req.instance_id = r.id
      /\ UNCHANGED <<state, update_comp, mode>> /\ state = "Download"
  BY DEF Data, FirmwareData, Expected, ChunkUnderWay, fsm
<1>2. /\ DOMAIN image = Offsets(update_comp) /\ mode.offset \in DOMAIN image
      /\ image = [ j \in Offsets(update_comp) |-> image[j] ]
      /\ \A j \in DOMAIN image : image[j] \in {None, Byte(update_comp, j)}
  BY <1>1 DEF ImageInv, InitiatorStates
<1>3. CASE UNCHANGED image /\ ~(r.cc = "Success" /\ Len(r.data) >= mode.length)
  <2>1. ~TransferDone'
    BY <1>1, <1>3
    DEF Data, FirmwareData, Request, TransferDone, ChunkUnderWay, Success, FdAbortedTransfer
  <2> QED
    BY <1>1, <1>2, <1>3, <2>1 DEF ImageInv
<1>4. CASE /\ r.cc = "Success" /\ Len(r.data) >= mode.length /\ Write(r.data)
           /\ req'.result \in {None, Success} => (req'.complete <=> Whole)
  <2>1. DOMAIN image' = DOMAIN image /\ image' = [ j \in Offsets(update_comp) |-> image'[j] ]
    BY <1>2, <1>4 DEF Write
  <2>2. TransferDone' => Entire'
    BY <1>1, <1>4, <2>1 DEF TransferDone, Whole, Entire
  <2>3. ASSUME NEW j \in DOMAIN image
        PROVE  image'[j] \in {None, Byte(update_comp, j)}
    <3>1. CASE j \notin mode.offset .. mode.offset + mode.length - 1
      BY <1>2, <1>4, <3>1 DEF Write
    <3>2. CASE j \in mode.offset .. mode.offset + mode.length - 1
      BY <1>4, <3>2, DataInPlace DEF Write
    <3> QED
      BY <3>1, <3>2
  <2> QED
    BY <1>1, <1>2, <2>1, <2>2, <2>3 DEF ImageInv
<1> QED
  BY <1>3, <1>4 DEF Data

LEMMA ImageDelivered ==
    ASSUME Ordered, TypeOK, LinkInv, ImageInv, FlightInv, Deliver
    PROVE  ImageInv'
<1> DEFINE r == responses[1]
<1>1. 1 \in DOMAIN responses /\ r.command \in FdCommands /\ StaysOnComponent
  BY Delivered, DeliverStep, StepsOnComponent DEF ResponseMessage
<1>2. CASE r.command = "RequestFirmwareData" /\ Data(r)
  BY <1>1, <1>2, DataWritten
<1>3. CASE /\ ResponseUnexpected(r.id, r.command) \/ ResponseOutOfState(r.id, r.command)
           /\ UNCHANGED image
  <2>1. UNCHANGED <<state, req, mode>>
    BY <1>3 DEF ResponseUnexpected, ResponseOutOfState, fsm
  <2> QED
    BY <1>1, <1>3, <2>1, ImageKept DEF ChunkUnderWay, TransferDone
<1>4. CASE PhaseAcknowledged(r.id, r.command) /\ UNCHANGED image
  <2>1. state \in InitiatorStates /\ req.complete
    BY <1>1, <1>4 DEF PhaseAcknowledged, ServedIn, InitiatorStates
  <2>2. \/ req'.complete = TRUE /\ req'.result = req.result /\ UNCHANGED state
        \/ req.result = Success /\ req'.state # "Sent"
    BY <1>4 DEF PhaseAcknowledged, Request, fsm
  <2>3. TransferDone' => TransferDone
    BY <2>1, <2>2 DEF TransferDone, InitiatorStates
  <2>4. ~(ChunkUnderWay' /\ req'.state = "Sent")
    BY <2>2 DEF ChunkUnderWay
  <2> QED
    BY <1>1, <1>4, <2>3, <2>4, ImageKept
<1> QED
  BY <1>2, <1>3, <1>4, Delivered

LEMMA ImageStep ==
    ASSUME Ordered, SafeAfterAlloc, TypeOK, LinkInv, WireInv, FlightInv, ImageInv,
           [SysNext]_sysvars
    PROVE  ImageInv'
<1>1. CASE Poll
  <2>1. UNCHANGED image /\ StaysOnComponent /\ (TransferDone' => TransferDone)
    BY <1>1, StepsOnComponent, PollCompletesNothing DEF Poll
  <2>2. ASSUME ChunkUnderWay', req'.state = "Sent"
        PROVE  \/ ChunkUnderWay /\ req.state = "Sent" /\ UNCHANGED mode
               \/ mode'.offset \in DOMAIN image
    <3>1. CASE UNCHANGED <<req, mode, requests>>
      BY <1>1, <2>2, <3>1, ChunkPoll
    <3>2. CASE Send("RequestFirmwareData", FALSE, None) /\ Sends
      BY <1>1, <3>2 DEF Poll, Send
    <3> QED
      BY <1>1, <2>2, <3>1, <3>2, ChunkPoll
  <2> QED
    BY <2>1, <2>2, ImageKept
<1>2. CASE OfferComponent
  <2>1. CASE state' \notin InitiatorStates
    BY <2>1 DEF ImageInv
  <2>2. CASE /\ state' = "Download" /\ req' = Request("Ready", FALSE, None)
             /\ image' = Blank(update_comp')
    <3>1. req'.state # "Sent" /\ ~TransferDone'
      BY <2>2 DEF Request, TransferDone
    <3>2. /\ image' = [ i \in Offsets(update_comp') |-> image'[i] ]
          /\ \A i \in DOMAIN image' : image'[i] = None
      BY <2>2 DEF Blank
    <3> QED
      BY <3>1, <3>2 DEF ImageInv
  <2> QED
    BY <1>2, <2>1, <2>2, OfferMoves
<1>3. CASE OtherCommand \/ Activate
  BY <1>3, CommandMoves DEF ImageInv
<1>4. CASE Deliver
  BY <1>4, ImageDelivered
<1>5. CASE UaAnswers \/ Lose \/ UNCHANGED sysvars
  <2>1. UNCHANGED <<state, update_comp, req, mode, image>>
    BY <1>5 DEF UaAnswers, Lose, sysvars, vars, fsm, platform
  <2> QED
    BY <2>1, ImageKept DEF StaysOnComponent, ChunkUnderWay, TransferDone
<1>6. CASE TimePasses
  <2>1. UNCHANGED <<state, mode, image>> /\ StaysOnComponent
    BY <1>6, StepsOnComponent DEF TimePasses, Tick, fsm, platform
  <2>2. SameRequest(req', req)
    BY <1>6, LaterSame DEF TimePasses, Tick, TypeOK
  <2> QED
    BY <2>1, <2>2, ImageKept DEF SameRequest, ChunkUnderWay, TransferDone
<1> QED
  BY <1>1, <1>2, <1>3, <1>4, <1>5, <1>6 DEF SysNext

\* The parts of the invariant a step needs together.
TransferInv == TypeOK /\ Inv /\ LinkInv /\ WireInv /\ ToldInv /\ FlightInv /\ ImageInv

LEMMA TransferHolds ==
    ASSUME Ordered, SafeAfterAlloc, IdsOutlastRetries
    PROVE  SysSpec => []TransferInv
<1>1. SysInit => WireInv /\ ToldInv /\ FlightInv /\ ImageInv
  BY DEF SysInit, Init, WireInv, OutstandingIsOnWire, Request, ToldInv,
     UaKnowsThePhase,
         FlightInv, ChunkUnderWay, ImageInv, InitiatorStates
<1>2. TransferInv /\ TypeOK' /\ Inv' /\ LinkInv' /\ [SysNext]_sysvars =>
          WireInv' /\ ToldInv' /\ FlightInv' /\ ImageInv'
  <2> SUFFICES ASSUME TransferInv, TypeOK', Inv', LinkInv', [SysNext]_sysvars
               PROVE  WireInv' /\ ToldInv' /\ FlightInv' /\ ImageInv'
    OBVIOUS
  <2> USE DEF TransferInv
  <2>1. WireInv'
    BY SystemStep, NextWire
  <2>2. ToldInv'
    BY ToldStep
  <2>3. FlightInv'
    BY FlightStep
  <2>4. ImageInv'
    BY ImageStep
  <2> QED
    BY <2>1, <2>2, <2>3, <2>4
<1> QED
  BY <1>1, <1>2, SystemInv, PTL DEF SysSpec, TransferInv

\* On a link that keeps the order every byte the platform holds during an
\* operation is of the component under way and lies at its own offset, whatever
\* is lost, sent again and answered late: if the IDs outlast the retries of a
\* chunk, and nothing fails between an ID and its request.
THEOREM BytesArriveInPlace ==
    ASSUME Ordered, SafeAfterAlloc, IdsOutlastRetries
    PROVE  SysSpec => []BytesInPlace
<1>1. TransferInv => BytesInPlace
  BY DEF TransferInv, ImageInv, BytesInPlace
<1> QED
  BY <1>1, TransferHolds, PTL

-----------------------------------------------------------------------------
(* The transfer of an image, as ImageTransfer promises it.                 *)

\* The data of a response is stored from the offset of the chunk on, as far as
\* the image reaches; a chunk without a byte stores nothing.
LEMMA WriteStores ==
    ASSUME TypeOK, LinkInv, WireInv, FlightInv, ImageInv, NEW r \in DOMAIN responses,
           Data(responses[r]), Len(responses[r].data) >= mode.length,
           Write(responses[r].data)
    PROVE  Transfer!Store \/ UNCHANGED Transfer!vars
<1> DEFINE offset == mode.offset
           end    == mode.offset + mode.length - 1
           size   == ImageSize[update_comp]
           last   == IF end < size THEN end ELSE size - 1
<1>1. /\ ChunkUnderWay /\ req.state = "Sent"
      /\ state = "Download" /\ UNCHANGED <<state, update_comp>>
  BY DEF Data, FirmwareData, Expected, ChunkUnderWay, fsm
<1>2. /\ image = [ i \in Offsets(update_comp) |-> image[i] ]
      /\ offset \in DOMAIN image
  BY <1>1 DEF ImageInv, InitiatorStates
<1>3. offset \in Offsets(update_comp) /\ Offsets(update_comp) = 0 .. size - 1
  BY <1>2 DEF Offsets
<1>4. size \in Int /\ mode.length \in Nat /\ update_comp \in Components
  BY <1>1 DEF TypeOK, InitiatorMode, WireInv, InitiatorStates
<1>5. image' = [ i \in Offsets(update_comp) |->
                    IF i \in offset .. end THEN Byte(update_comp, i) ELSE image[i] ]
  BY <1>2, DataInPlace DEF Write
<1>6. CASE mode.length = 0
  <2>1. offset .. end = {}
    BY <1>3, <1>6
  <2>2. UNCHANGED image
    BY <1>2, <1>5, <2>1
  <2> QED
    BY <1>1, <2>2 DEF Transfer!vars
<1>7. CASE mode.length # 0
  <2>1. /\ last \in 0 .. size - 1
        /\ \A i \in 0 .. size - 1 : i \in offset .. last <=> i \in offset .. end
    BY <1>3, <1>4, <1>7
  <2>2. image' = [ i \in Offsets(update_comp) |->
                      IF i \in offset .. last THEN Byte(update_comp, i) ELSE image[i] ]
    BY <1>3, <1>5, <2>1
  <2> HIDE DEF last
  <2>3. \E first, upto \in Offsets(update_comp) :
            image' = [ i \in Offsets(update_comp) |->
                          IF i \in first .. upto THEN Byte(update_comp, i) ELSE image[i] ]
    BY <1>3, <2>1, <2>2
  <2>4. state \in InitiatorStates /\ state' \in InitiatorStates
        /\ state \notin {"Verify", "Apply"} /\ state' \notin {"Verify", "Apply"}
        /\ update_comp # None
    BY <1>1, <1>4 DEF InitiatorStates
  <2> QED
    BY <1>1, <2>3, <2>4 DEF Transfer!Store, Transfer!Offsets, Transfer!Byte,
       Offsets, Byte
<1> QED
  BY <1>4, <1>6, <1>7

\* A step of the system is one of the transfer, or changes nothing of it.
LEMMA TransferStep ==
    ASSUME Ordered, TransferInv, [SysNext]_sysvars
    PROVE  [Transfer!Next]_Transfer!vars
<1> USE DEF TransferInv
<1>1. CASE state' \notin InitiatorStates
  <2>1. state' \notin {"Verify", "Apply"}
    BY <1>1 DEF InitiatorStates
  <2>2. Transfer!End
    BY <1>1, <2>1 DEF Transfer!End
  <2> QED
    BY <2>2 DEF Transfer!Next
<1>2. CASE state' \in InitiatorStates /\ OfferComponent
  <2>1. /\ state' = "Download" /\ update_comp' \in Components
        /\ image' = Blank(update_comp')
    BY <1>2, OfferMoves
  <2>2. Transfer!Begin
    BY <1>2, <2>1 DEF Transfer!Begin, Transfer!Blank, Transfer!Offsets, Blank,
       Offsets
  <2> QED
    BY <2>2 DEF Transfer!Next
<1>3. CASE state' \in InitiatorStates /\ ~OfferComponent
  <2>1. \/ Poll \/ UaAnswers \/ Deliver \/ Lose \/ TimePasses \/ UNCHANGED sysvars
    BY <1>3, CommandMoves DEF SysNext
  <2>2. state \in InitiatorStates /\ UNCHANGED update_comp
    <3>1. CASE Poll \/ Deliver \/ TimePasses
      BY <1>3, <3>1, DeliverStep, StepsOnComponent DEF Poll, TimePasses,
         StaysOnComponent
    <3>2. CASE UaAnswers \/ Lose \/ UNCHANGED sysvars
      BY <1>3, <3>2 DEF UaAnswers, Lose, sysvars, vars, fsm
    <3> QED
      BY <2>1, <3>1, <3>2
  <2>3. update_comp \in Components /\ update_comp # None
    BY <2>2 DEF WireInv
  <2>4. ASSUME UNCHANGED <<state, image>>
        PROVE  UNCHANGED Transfer!vars
    BY <2>2, <2>4 DEF Transfer!vars
  <2>5. CASE Poll \/ TimePasses
    <3>1. UNCHANGED state
      BY <1>3, <2>5
      DEF Poll, TimePasses, Tick, fd_progress, ProgressNothing, ProgressTimeout,
          ProgressRequestData, ProgressTransferComplete, ProgressVerify, ProgressApply,
          Progress, set_fd_idle, InitiatorStates, fsm
    <3> QED
      BY <2>4, <2>5, <3>1 DEF Poll, TimePasses, platform
  <2>6. CASE UaAnswers \/ Lose \/ UNCHANGED sysvars
    BY <2>4, <2>6 DEF UaAnswers, Lose, sysvars, vars, fsm, platform
  <2>7. CASE Deliver
    <3> DEFINE r == responses[1]
    <3>1. 1 \in DOMAIN responses /\ r.command \in FdCommands
      BY <2>7, Delivered DEF ResponseMessage
    <3>2. CASE /\ ResponseUnexpected(r.id, r.command) \/ ResponseOutOfState(r.id, r.command)
               /\ UNCHANGED image
      BY <2>4, <3>2 DEF ResponseUnexpected, ResponseOutOfState, fsm
    <3>3. CASE PhaseAcknowledged(r.id, r.command) /\ UNCHANGED image
      <4>1. CASE state \in {"Verify", "Apply"}
        <5>1. state' \in {"Verify", "Apply"}
          BY <1>3, <3>1, <3>3, <4>1
          DEF PhaseAcknowledged, set_fd_state, InitiatorStates, fsm
        <5> QED
          BY <1>3, <2>2, <3>3, <4>1, <5>1 DEF Transfer!vars
      <4>2. CASE state = "Download" /\ state' # "Download"
        <5>1. TransferDone /\ state' = "Verify"
          BY <3>3, <4>2 DEF PhaseAcknowledged, TransferDone, set_fd_state, fsm
        <5>2. /\ \A i \in Offsets(update_comp) : image[i] = Byte(update_comp, i)
          BY <2>2, <5>1 DEF ImageInv, Entire
        <5>3. Transfer!Accept
          BY <1>3, <2>2, <2>3, <3>3, <5>1, <5>2
          DEF Transfer!Accept, Transfer!Offsets, Transfer!Byte, Offsets, Byte
        <5> QED
          BY <5>3 DEF Transfer!Next
      <4>3. CASE state = "Download" /\ state' = "Download"
        BY <2>4, <3>3, <4>3
      <4> QED
        BY <2>2, <4>1, <4>2, <4>3 DEF InitiatorStates
    <3>4. CASE Data(r)
      <4>1. CASE UNCHANGED image
        BY <2>4, <3>4, <4>1 DEF Data, FirmwareData, fsm
      <4>2. CASE Len(r.data) >= mode.length /\ Write(r.data)
        BY <3>1, <3>4, <4>2, WriteStores DEF Transfer!Next
      <4> QED
        BY <3>4, <4>1, <4>2 DEF Data
    <3> QED
      BY <2>7, <3>2, <3>3, <3>4, Delivered
  <2> QED
    BY <2>1, <2>5, <2>6, <2>7
<1> QED
  BY <1>1, <1>2, <1>3

\* On such a link the system transfers images as ImageTransfer promises: bytes
\* are stored at their own offsets and nothing but a whole image is verified.
THEOREM TransferImplemented ==
    ASSUME Ordered, SafeAfterAlloc, IdsOutlastRetries
    PROVE  SysSpec => ImplementsTransfer
<1>1. SysInit => Transfer!Init
  BY DEF SysInit, Init, Transfer!Init, InitiatorStates
<1>2. TransferInv /\ [SysNext]_sysvars => [Transfer!Next]_Transfer!vars
  BY TransferStep
<1> QED
  BY <1>1, <1>2, TransferHolds, PTL DEF SysSpec, ImplementsTransfer,
     Transfer!Spec
=============================================================================
