# pldm-lib in TLA+

`pldm-lib` is a `no_std` Rust implementation of the responder side of PLDM
(DMTF DSP0240, and DSP0267 for firmware update): a device answers the commands
of an Update Agent (UA), and while it downloads, verifies and applies a component
it sends requests of its own. This directory models the protocol state machine
of the device, the interface in front of it, the codecs of its messages, and the
whole of device, link, UA and platform; checks them with TLC; and proves with TLAPS,
for every value of the constants, each safety property, action property and refinement that
the passing runs check, some of them under premises that section 6 names.
Paths below are relative to the repository.

## 1. Inventory

| component | source | state it keeps | operations |
|---|---|---|---|
| FirmwareDeviceContext | `pldm-interface/src/firmware_device/fd_context.rs` | an `FdInternal` and a reference to the platform's `FdOps` | eleven command handlers, `fd_progress`, `handle_response` |
| FdInternal | `.../fd_internal.rs` | state, previous state, reason, component and flags, transfer size, the request record, download/verify/apply data, T1 timestamp and the two timeouts | setters, `alloc_next_instance_id`, `get_fd_download_chunk`, `fd_idle_timeout` |
| FdOps | `.../fd_ops.rs` | the platform: image, activation, clock | sixteen callbacks, most of which may fail |
| CmdInterface | `pldm-interface/src/cmd_interface.rs` | `busy`, the two contexts | dispatch of requests, `generate_initiator_request`, `process_initiator_response` |
| ControlContext | `.../control_context.rs` | the terminus ID, the capability table | five discovery commands |
| FirmwareComponent | `pldm-common/src/util/fw_component.rs` | none | eligibility of a component for an update |
| PldmVersion | `pldm-common/src/protocol/version.rs` | none | BCD version strings |
| Message codecs | `pldm-common/src/message/**`, `codec.rs` | none | encode and decode |
| Protocol enumerations | `pldm-common/src/protocol/*.rs` | none | byte values and conversions |

How they interact. The application owns everything and calls three entry
points: a received request goes to `CmdInterface::handle_responder_msg`, which
dispatches it to a handler; `generate_initiator_request` polls `fd_progress`,
which may produce a request for the UA; `process_initiator_response` hands the
UA's response to `handle_response`. All three take `&mut self`: calls never
overlap and there are no threads. The handlers call back into the platform
through `FdOps`, synchronously. Nothing is persisted: a restart is a fresh
context.

What is hard about it is therefore not parallelism but order and failure:

* commands, polls, responses and the expiry of T1 (UA silence) and T2 (retry)
  come in any order, and a response may be late, repeated, or belong to a request
  that a cancel or a timeout has ended;
* most callbacks can fail, and they are called between two changes of state; an
  answer that does not fit the buffer turns into a refusal after the callback ran;
* one record (`FdReq`) is the only link between a phase, the request sent for it
  and the response expected, and T2 retries rewrite it;
* the instance ID restarts at 1 with every record, and a response to a request for
  firmware data does not say which offset it answers;
* `verify` and `apply` may block for longer than the timeouts that guard the UA;
* byte conversions (`try_from(..).unwrap()`) and `u32` sums at their boundaries.

Per component, what makes it correct: the context must keep its request record
in step with its state, begin no phase before the platform finished the one
before, report what the platform said, not change anything when it refuses, and
not be held by a silent UA (sections 3 and 4). CmdInterface must be ready
again after every call that no panic unwound, and accept what ControlContext announces (the same sections); the
codecs must encode what fits and decode what they encode, and the iterators over a
portion must return what it lists. Together, device, UA and platform must put every
byte of an image at its own offset, come to an end whatever the link loses, and never
replace what runs by something older; two protocol versions must not become one on
the wire.

## 2. Modules

| module | what it is |
|---|---|
| `FirmwareDevice` | `FirmwareDeviceContext` with `FdInternal`: constants and their assumptions, the variables, one action per handler and per outcome of `fd_progress` and `handle_response`, and `Tick`; also the faulty variants of definitions (named `<definition>_<fault>`, marked "mutant") that show that each property can fail |
| `UpdateFlow` | the abstract specification: the sequence of states of `firmware_device/README.md` with its ways out, and how far the image has come |
| `FirmwareDeviceProperties` | invariants, action properties, liveness, and the refinement mapping to `UpdateFlow` |
| `FirmwareDeviceProofs` | type correctness, the inductive invariant and the safety theorems |
| `FirmwareDeviceHistoryProofs` | the moves that its steps are classified into, and by them: what the device remembers and reports, the action properties, and that it implements `UpdateFlow` |
| `ComponentEligibility` | `evaluate_update_eligibility`, the order of version strings and the parameter table, as operators |
| `FdUaSystem` | `FirmwareDevice` (extended, every step of it a step of the system) with a link, a UA and the platform's image and component table; its properties and liveness |
| `ImageTransfer` | the abstract specification of a transfer: bytes at their offsets, and only a whole image is accepted |
| `FdUaSystemProofs` | that the system runs the device, that only newer firmware is installed, and what an ordered link gives: the phases the UA knows of, bytes in their places, and that the system implements `ImageTransfer` |
| `CmdInterface` | `CmdInterface` with `ControlContext`: header checks, dispatch, `busy`, the control commands, both initiator entry points, and their properties |
| `CmdInterfaceProofs` | its theorems |
| `PldmVersion`, `PldmVersionProofs` | the text of a protocol version, its BCD encoding and decoding, as operators; its theorems |
| `Codecs` | the hand-written codecs of messages of variable length as operators (`Encode`, `Decode`; `DownstreamDevice` on its own is in `DownstreamPortion`), and an exchange that uses them: a message is encoded, arrives whole or cut short, is decoded and encoded again |
| `CodecsProofs` | that a message is read as it was written, that a cut is noticed, that no bytes make a decoder panic, and what was decoded encodes to what it came from |
| `DownstreamPortion` | the iterators of `query_downstream.rs` over a portion, its devices and their descriptors, with the positions they keep |
| `DownstreamPortionProofs` | that the bytes of a list of devices are read back as that list, and the theorems about the iterators |
| `ListTheorems` | induction over numbers without an operator as a parameter, and what the bytes of a flattened list are: the lemmas `CodecsProofs` and `DownstreamPortionProofs` rest on |
| `MC_*` | values of the constants for TLC |

`CmdInterface` and `FirmwareDevice` meet in one place: what `CmdInterface` passes on
to the firmware device is answered with one of `FdCodes` or an error, or ends in a panic
(`FdPanics`), and `FirmwareDevice` says which and with what effect. `CmdInterface` keeps no other state
that the firmware device could see, so the two are checked and proved apart.
`FdUaSystem` extends `FirmwareDevice` and narrows it: a response reaches the device only
if the UA sent it and the link delivers it, and the callbacks do what their
documentation asks. `MC_CmdInterface` takes the versions of its table from `PldmVersion`.

### How the model corresponds to the code

* The variables `state`, `prev_state`, `reason`, `update_comp`, `max_xfer_size`,
  `req` and `mode` are the fields of `FdInternal` of those names (`mode` is
  `initiator_mode_state`). `reply` is the completion code of the last answer:
  of the bytes of a message nothing else is kept. `panicked` is a
  panic, after which no action is enabled. `stage`, `verdict`, `open` and
  `wire_id` are history variables: how far the platform has taken the image, what
  `verify` or `apply` returned last, which component the platform holds open, and the
  ID of the last request sent. No guard reads them.
* Timestamps are ages. The code only compares `now - ts` with T1 and T2, so
  `t1_age` stops at `T1 + 1` and `req.sent_time` at `T2`; `Tick` lets a unit of
  time pass between calls and `WorkTimes` lets it pass inside `verify` and `apply`.
* Each action is a whole handler. Early returns are disjuncts in the order of
  the code; `Refuse(cc)` is an answer that leaves everything alone. "Malformed" requests
  are those `decode_failure_code` answers. `CanFail("encode")` is a buffer the
  answer does not fit; `CanFail(callback)` an `FdOpsError`, answered by nothing
  (`NoResponse`).
* `handle_response` takes any instance ID and any of the four commands at any
  time: this covers late, repeated, reordered and forged responses. Lost messages
  are responses that never come.
* Results are the bytes stored in `FdReq.result`. An enum's variants are their
  discriminants; `VendorDefined` is the next number after the last variant (17
  for `TransferResult`, 12 for `ComponentResponseCode`), because the field is
  written with `as u8`.
* `u32` arithmetic in `get_fd_download_chunk` wraps modulo `U32`, or panics if
  `OverflowChecks`.

Abstracted: `update_flags` and the progress percentage in `GetStatus` (no
transition reads them), the descriptors and parameters of the read-only
commands, the attributes of a component other than its image size, `activate`'s
estimated time.

Of the system: `requests` and `responses` are what the link holds in each
direction. An ordered link delivers what it keeps in the order of sending and once, and
may lose any of it; another one delivers in any order and again. The UA answers each
request for data with the data from the offset asked for, with too little of it, with
a plea for time or an error, and acknowledges the end of a phase; it offers
components when the device is ready for them. The platform (`image`, `active`,
`pending`) asks for a range that is missing, writes data at the offset of the chunk
under way, declares the download complete when nothing is missing, judges an offer by
`ComponentEligibility`, remembers what was applied and runs it when it is activated.
`told` is history: which ends of a phase the UA has acknowledged. Commands that are
refused or only read are left out there: `RefusalIsHarmless` says that they change
nothing the system shows.

Of `DownstreamPortion`: `position` is `portion_iter_current` and
`portion_offset_next`; `device` is the device the caller holds, with its own
position; `listed`, `walk` and `read` are history: what the portion was made of, and
what was returned since the walk began. Bytes are bytes here, because the iterators
parse them as they go.

Of `CmdInterface`: `tid` and `busy` are the fields; `result` is what the last call
returned, with the message it answers; `unwound`, `acked`, `versions` and `commands` are
history. The flag is set and reset by statements that lie apart, so a `process_request`
is a call of several steps: `Received` takes the flag, a refusal or a handler follows,
and `Returned` resets the flag behind the handler; `call` is how far it is. The entry
points take `&mut self`, so no other call comes in between. A panic unwinds out of the
call from where it is raised and leaves `busy` as it is: on an empty buffer, on a type
of the table without a handler, and in a handler of the firmware device
(`FdPanics`: `update_component_rsp` unwraps the conversion of a vendor-defined response
code, `fd_context.rs:368`; `get_firmware_parameters_rsp` encodes `comp_count` entries of
a table of eight). The buffer is
request and answer at once, and its length is the only length there is: a message
is what stands in the buffer, decoding fails when the buffer is shorter than the
request, encoding when it is shorter than the answer (`RequestLen`, `ResponseLen`).
A message is abstracted to the fields of its header, type, command and argument; bitmaps
to the sets they encode. The header is checked in two places in the code (the bits as
`PldmMsgType` reads them, and the version), and an answer has a new header or, if it is
a failure, that of the request: both are in the model.

Of the codecs: the messages of variable length have one shape, and `Codecs` states it once. A block of
fixed size holds the lengths of the byte strings that follow it (`TailLens`, at the
offsets `StringLenAt`, or an option flag); two messages go on with a counted list of
such blocks (`ItemKind`), five end in the rest of the buffer (`OpenEnded`). What
differs from message to message is data: sizes (`FixedLen`, those of the code), the
arrays (`TailRoom`, `ListRoom`), and the few checks only one of them makes, which
are conjuncts and alternatives in `Encode` and `Decode`. A decoder returns the first error in
the order of the code. A slice past the end of a buffer or an array is the result
`panic`. Bytes that are neither lengths nor flags are fillers: the values of codes,
which some decoders reject as `Unsupported`, are abstracted. A header is the first three bytes
of the block, kept by every decoder but that of `GetPackageDataResponse`, which takes
the instance ID out of it and builds a new one (`get_package_data.rs:195`): `Rebuilt`.
The codec of `DownstreamDevice` (`query_downstream.rs:506`) is not one of these: how its
bytes are read is in `DownstreamPortion`, where its encoder serves for the layout only;
nothing but its test calls it.

## 3. Properties

`FirmwareDevice`. Invariants: `RequestMatchesState` (the record agrees with state and with itself,
so every `unwrap` and `ok_or` finds a value), `ImageReadyForPhase`,
`SuccessIsEarned`, `TimeoutLeavesNoRequest`, `ReasonMatchesHistory`,
`ChunkInWindow`, `StatusFitsState`, `ActiveComponentOpen`, `UnmatchableIsResent` (a request
whose ID a failed poll has replaced is sent again by the next one).
Action properties: `RefusalChangesNothing`, `FailedStaysFailed`,
`FinishedOnlyIfApplied`, `TransferResultStable`. Liveness: `SilenceEndsOperation`.
Refinement: `ImplementsFlow`. `TypeOK` is the type invariant.

`FdUaSystem`: `UaKnowsThePhase` (a phase is left only when the UA has acknowledged the
end of this one, although IDs repeat), `OnlyNewerRuns` (what runs is replaced by a
greater stamp and a version that is not below only, although an offer is judged long
before it is activated), `ImplementsTransfer` (the refinement to `ImageTransfer`: it
contains that bytes are in place and that what is verified is whole) and the liveness
property `DownloadEnds` (whatever is lost, a download comes to an end unless the UA
puts it off for ever).

`CmdInterface`: `TypeOK`; `TidIsAcknowledged` (a TID takes effect only if the UA is
told so), `DiscoveryServed` (what GetPLDMVersion and GetPLDMCommands report is
accepted afterwards, also when the table holds several versions of a type, which
three look-ups resolve in three ways), `ReadyUnlessPanicked` (no way out of a
call leaves `busy` set but one of three panics), `AnswerFitsRequest` (every answer, a success or a
failure, can be recognised as the answer to its request).

`DownstreamPortion`: `TypeOK`; `WalkInOrder`, `NoneMeansAll` (the walk returns the devices
that arrived, each with its own descriptors, skips none before it says `None`, and can be
repeated), `TryAtFindsDevice` (while no walk is under way `try_at` finds the device of an index,
whatever was called before; in the middle of one it finds none that does not exist, is
before its index, or was returned),
`DescriptorsInOrder` (a device of the portion gives out its descriptors in order and
never panics).

`Codecs`: `TypeOK` (what is decoded is in its arrays); `RoundTrip`, `CutIsNoticed` (a
message cut short at any byte is refused, or lacks the end of its payload),
`NoPanic`, and `ReencodesToInput` (no decoder accepts a length or count
that its arrays do not hold, so nothing is dropped on the way; the exceptions, image
data longer than `MAX_TRANSFER_SIZE` and the header that `GetPackageDataResponse`
replaces, are part of the property).

Properties the code does not have are in section 5.

## 4. Runs that pass

| run | what it asks | states |
|---|---|---|
| `fd_faulty` | every callback may fail, every buffer may be short, vendor-defined codes, a build that checks overflow: all other safety properties, that a request whose ID was replaced is sent again, and the refinement | 372,539 |
| `fd_two_components` | two components of different sizes, several ranges, callbacks that fail only before they have an effect, and, with fairness, a UA that falls silent at any time: the platform and the device agree about the component, and no operation is held | 118,307 |
| `cmd_front` | any request, under any kind of header, in a buffer of any length, against a table with two encoded versions of one type and a type without a handler, before a firmware device that answers, fails or panics | 65,565 |
| `codecs` | the sixteen codecs of section 2: every combination of lengths up to the limits, and from a peer beyond them and under a foreign header; encoded into a buffer of any length, cut at any byte, decoded, encoded again | 14,756 |
| `system_ordered` | two firmwares for one component over a link that loses messages and keeps order: transfers in two chunks, resends, timeouts, cancels, activation, with fairness | 739,907 |
| `downstream` | portions of up to three devices, cut at any byte or followed by something, read by any mix of calls; devices cut short, and devices that were built | 101,229 |

Bounds. `T1 = T2 = 1`: an age takes each of the values before, at and after its
limit, and both timers can expire together. `WorkTimes = {0, 2}` is a callback that
takes no time and one that outlasts T1. `InstanceIdCount = 3`: IDs wrap within a
few retries (the code has 32; the ID starts at 1, so 2 would leave one other
value). `U32 = 64`, an image of 2 bytes (1 and 3 with two components), padding 1,
transfer size 2: the ranges of `AnyRange` go up to the padding and are cut to the
transfer size, start in the image and end behind the padding, start behind the
image, and end past the last value of the type.
Result sets hold one success and one failure each, and the codes that are
converted wrongly. `Percents = {50, 100}`: unfinished and finished. The history
variables and counters add no bound: everything is finite without a state
constraint. A panic stops the device, so `fd_faulty` does not check deadlock;
the other passing runs do.

`cmd_front`: the lengths of `BufferLens` are those around every length of
`RequestLen` and `ResponseLen`, an empty buffer included. The table has a command
in the newer version of firmware update that the older lacks and the reverse;
requests name supported and unsupported types, versions, flags and commands, three
TIDs, a response, and a header of another version. Of the two commands in
`FdPanics` the table has one.

`codecs`: the blocks have the sizes of the code, so that every offset is the real one;
the arrays hold 2 bytes or entries (32, 64 and 8 in the code), the list of additional descriptors 2,
a payload 3. A decoder only compares a length with its limit and with what is left of the
buffer, so below, at and above each limit are what matters: lengths of 0 to 2 are
built, 3 and 4 arrive from peers. The payload messages also arrive under a header
that is not the one this library would build: request bit, version, type and command differ. Buffers have 0 to 110 bytes, more than
the longest message built. An exchange ends after its third step: deadlock is not checked.

`system_ordered`: `T1 = 2`, `T2 = 1`, so that a request is sent twice before T1 gives up;
four IDs, so that they wrap; one message in the direction of the UA and two in the other,
the least with which an old response can be behind or in front of a new one. The images
have 1 and 2 bytes and the transfer size is 1: one of them takes two chunks, which is
where a byte can get to a wrong offset. The second firmware is newer than the first and
both are newer than what runs first; their version strings are of different types, so
that only the stamps order them. The table has room for one entry more than the
platform fills. Nothing fails in the platform: `fd_faulty` covers that.
On an ordered link a late response is harmless for a reason that the bounds keep: a
response carries the ID of the request it answers, after a resend only the last ID is
accepted, and the IDs between two resends are distinct. In the code T1 = 120 s and
T2 = 5 s leave room for 24 resends, and there are 32 IDs; here it is 2 and 4. A UA that
begins a transfer over an ordered link does not answer the requests of an earlier one,
which it can tell apart by the order. Without order none of this helps: `system_late`.
`BytesArriveInPlace` proves it for all numbers, from the assumption that there are more IDs
than resends within T1.

`downstream`: the arrays hold 2 bytes of a descriptor; the listings have devices with
none, one and two descriptors, one of them too long for its array; what stands behind a
portion is a whole device and a byte. A panic ends the caller, so deadlock is not checked.

Fairness (`system_ordered`): weak fairness of the clock, and of a poll that sends a request
or times out, for the reasons given next. The link and the UA are not fair at all: they may
lose, delay and ignore.

Fairness (`fd_two_components`). The owner is asked to poll `fd_progress` while initiator
mode is active (`firmware_device/README.md`, "Driving initiator mode") and the
clock "has to be monotonic" and must not stand still: weak fairness of `Tick`.
The strong fairness of a timeout whose cancel callback succeeds and of a poll that
sends a request say that the application polls again and again and that the
callbacks do not fail forever. A UA is silent if from some point on it neither
sends a command nor a response; nothing else is assumed of it.

## 5. Where the code and its documentation disagree

Each is a run that TLC ends with a violation; details and quotations are in
`PROJECT.json` under `findings`.

| run | property | what happens |
|---|---|---|
| `fd_retry_result` | `ReportsVerdict` | a T2 retry of `VerifyComplete` or `ApplyComplete` sends `GenericError` instead of the result, and stores it: one lost message turns a success into a failure |
| `fd_vendor_transfer` | `NoPanic` | a vendor-defined result is stored as a byte its own conversion refuses, and unwrapped |
| `fd_blocking_work` | `WorkIsNotSilence` | a callback that blocks longer than T1 and completes is counted as silence of the UA |
| `fd_silent_update_mode` | `SilenceEndsUpdateMode` | T1 is checked only in the three operations: a silent UA holds the device in `LearnComponents`, in `ReadyXfer`, or after a failed request |
| `codec_opaque_flag` | `RoundTrip` | `UpdateComponent` is answered with the request's option flags and without the option: asked for component opaque data, the device sends a response its own decoder refuses |
| `system_late` | `BytesInPlace` | the ID restarts at 1 with every chunk, and a response names no offset: on a link that delivers late or twice the data of one chunk is written at the offset of the next |

More observations have no run. A cancel leaves the request `Sent` (`fd_context.rs:686`
and `:620`; the comment at `:843` says why a timeout retires it): a late response
refreshes T1 and is then refused by its state. `alloc_next_instance_id` is called before
the calls that may fail (`fd_context.rs:1055`), so that a failing retry replaces the ID of
the request that is under way, whose answer is then refused. That is an answer lost and
not more: `UnmatchableIsResent` shows in `fd_faulty`, where everything may fail, that such a
request is due for the next poll. `GetPackageDataResponse::decode` does not
keep the header it read, so that a message under another type or command, or a request,
decodes to a proper response (`get_package_data.rs:195`); `Rebuilt` is part of `ReencodesToInput`.
On an ordered link, too, a late answer is taken for a chunk it is not of if the IDs wrap
within T1 and the platform asks for another range in between (set `InstanceIdCount = 2` in
`system_ordered`, and `ImplementsTransfer` fails): the defaults of `config.rs:21` to `:23`
exclude it, the ranges their comments allow, a T2 of one second for instance, do not.
`generate_initiator_request` returns one byte less than it writes
(`cmd_interface.rs:100`; its comment at `:91` counts the MCTP byte). `try_at` after
`next` counts from the position of the walk, the documentation speaks of the index
in the portion (`query_downstream.rs:266`): in the middle of a walk it finds another device than
the index asked for. `TryAtFindsDevice` therefore promises the index only while no walk is under way. A device that does not parse leaves the iterator
where it was, and the next walk begins there. `DownstreamDevice::new` counts bytes where
its iterator expects descriptors, and the iterator of a device that was decoded and cut short
slices past the end (`query_downstream.rs:482`): both panic. The default entries behind
`comp_count` take part in the eligibility check: an offer whose classification,
identifier and index are 0 finds one of them (`get_fw_params.rs:107`). Version strings of
different types have no order, so that of three versions each may follow the one before
and the last be below the first; only the stamp rises throughout. Version numbers above 99
do not fit two digits, and from 150 on look like another number (`version.rs:128`).
`RequestUpdateResponse` computes its size by a flag and writes by an option
(`request_update.rs:190`). `CancelUpdate` that fails in
`get_non_functional_component_info` (`fd_context.rs:673`) has told the platform to cancel
and goes on with the component (add that callback to `MayFail` of
`fd_two_components`, and `ActiveComponentOpen` fails). An `apply` that returns
`ApplySuccessWithActivationMethod` is acknowledged and then marked failed
(`fd_context.rs:1036`). A count of more than five descriptors is accepted with the
first five, and kept (`query_devid.rs:203`). Image data of more than 512 bytes is
decoded but not encoded (`request_fw_data.rs:107`). Without overflow checks the end
of a range wraps past the size check of `get_fd_download_chunk` (set
`OverflowChecks = FALSE`, and `ChunkInWindow` fails). A request shorter than its layout in a longer buffer is decoded with
whatever follows it. A request with the datagram bit is refused with a message whose type is
`Reserved` (`base.rs:241`); `AnswerFitsRequest` asks for a response only where the request
is an ordinary one. Between a failed write of a chunk and its
`TransferComplete`, `GetStatus` reports `OperationSuccessful` (`fd_context.rs:750`
does not look at the result). A failed transfer's result is reported as the
auxiliary status byte, where 0x0b to 0x10 are not values of `AuxStateStatus`.

## 6. What is proved

For every value of the constants that satisfies the named assumptions of
`FirmwareDevice` (`ComponentAssumption`, `NumberAssumption`,
`CallbackAssumption`, `NoneAssumption`: sizes and times are natural numbers,
callbacks return values of their enums, `None` is none of them):

* `TypeCorrect`: `Spec => []TypeOK`. One lemma per group of actions, over lemmas
  about the operators (`CappedType`, `LaterType`, `NextInstanceIdType`, `SendType`, ...).
* `RequestAgrees`, `PhasesInOrder`, `NoFalseSuccess`: `Spec => []RequestMatchesState`,
  `[]ImageReadyForPhase`, `[]SuccessIsEarned`.
* `FinishIsEarned`: `Spec => FinishedOnlyIfApplied`.

The argument. `ImageReadyForPhase` is not inductive: when a response ends a phase,
`PhaseAcknowledged` looks at the request record alone, so what has to be known is
that a record that says "complete, success" was earned in this state
(`SuccessIsEarned`), and that a record that is `Sent` belongs to the phase the
device is in (`RequestMatchesState`). Their conjunction with `TypeOK` is inductive
(`Inv`, lemma `NextInv`). Most steps keep the record but for its age and its ID:
they are covered by the relation `SameRequest` and the two lemmas
`SameRequestInv` (within a phase) and `OutsideInv` (leaving the operations). Steps
that write the record are covered by `BeginPhaseInv`, `RetiredInv` and `SendInv`.
`FinishedOnlyIfApplied` then follows from the invariant alone: a cancel keeps the
record, and in `Apply` it is never `Unused`.

`CmdInterfaceProofs`, for every capability table, set of requests and set of buffer
lengths (`MessageAssumption`, `LengthAssumption`, `TableAssumption`; and
`PanicAssumption` names the commands of the firmware device; and `CodeAssumption`, that the
firmware device does not answer `UnsupportedPldmCmd` to a command it handles. The
handlers' own codes bear that out, but `ActivateFirmware` passes on the byte that the
platform's `activate` returns (`fd_context.rs:429`): of that it is an assumption):

* `TypeCorrect`: `Spec => []TypeOK`; `TidAcknowledged`: `[]TidIsAcknowledged`, because
  SetTID's request is as long as its answer.
* `ReadyAgain`: `[]ReadyUnlessPanicked`, for every firmware device, panicking ones included. The
  invariant is that the flag is set while a call is under way, and without one only
  if a panic unwound a call that has one of the three reasons (`PanicHasReason`).
* `DiscoveryHolds`: `Spec => []DiscoveryServed`. The property is not inductive; with
  `Reported` (what was reported is what the first entry of the type holds) it is. The key is
  `FirstOfItsVersion`: the first entry of a type is also the first of its type and
  version, so the look-ups of GetPLDMVersion, GetPLDMCommands and dispatch coincide on
  a version that was reported.

`FirmwareDeviceHistoryProofs`. Lemmas `UaMoves` and `DeviceMoves` classify every step
into a few moves (`Stays`, `Enters`, `Learns`, `Accepts`, `Activates`, `Cancels`;
`TimesOut`, `Advances`), and the properties are proved move by move:

* `ReasonAgrees`, `TimeoutRetires`: `[]ReasonMatchesHistory`, `[]TimeoutLeavesNoRequest`.
  Idle is entered by three moves, each of which writes reason and previous state together.
* `StatusFits`: `[]StatusFitsState`, from `Inv` alone.
* `ChunkStaysInside`: `[]ChunkInWindow`, if `OverflowChecks`. Without them it is false.
* `WorksOnTheOpenComponent`: `[]ActiveComponentOpen`, if neither the encoder nor
  `get_non_functional_component_info` may fail, the two calls that follow a cancel of
  the platform. All other callbacks may.
* `UnmatchableIsDue`: `[]UnmatchableIsResent`, for every platform, whatever fails. The ID of a
  record is written only when the request is due, and it ceases to be due only when it is
  sent, which puts that ID on the wire, or when an answer matches.

Of its steps (`FirmwareDeviceHistoryProofs` again):

* `FailureIsFinal`, `RefusalIsHarmless`, `TransferResultKept`: the action properties
  `FailedStaysFailed`, `RefusalChangesNothing`, `TransferResultStable`. The last needs `Inv`: that
  a `TransferComplete` is outstanding in an operation only if it is the download.
* `FollowsFlow`: `Spec => ImplementsFlow`. Step simulation over `Inv`: a phase is left
  with success only with an earned one (`SuccessIsEarned`), which is the image
  `UpdateFlow` asks for; and what a poll of verify or apply finds is what the phase
  began with or has reached (`ImageReadyForPhase`, `Downloading`).

`FdUaSystemProofs`, with `LinkAssumption` and `OfferAssumption` (stamps are natural
numbers, the first table is a sequence), for a link of either kind and any capacity:

* `SystemRunsDevice`: `SysSpec => Spec`. So every theorem about the device holds in
  the system. The invariant is `LinkInv`: what the link carries are messages with IDs
  of the wire and commands of the device, however they are lost and reordered.
* `OnlyNewerInstalled`: `SysSpec => OnlyNewerRuns`, if no offer has the key of the
  default entries. The invariant `TableInv` says that what is applied, and the component under way, are
  newer than the entry they will replace; it needs that the place an offer was judged at
  is the place it is installed at (`EligibleIsNewer`), which is where the assumption comes in.

`PldmVersionProofs`: `NumberIsNotAbsent`, `VersionRoundTrip`, `VersionsStayDistinct`: with
numbers below 100 a version survives its encoding, so that no two of a table collide.
`CmdInterfaceProofs` has `AnswerFits` (`[]AnswerFitsRequest`) besides the above.

What an ordered link gives (`FdUaSystemProofs` again, with the same assumptions):

* `PhaseIsKnown`: `SysSpec => []UaKnowsThePhase`, if the link is `Ordered`. The property is
  not inductive. `ToldInv` adds what is in flight: requests of the component under way only, and
  responses to commands the UA has answered for it. It holds because a UA that begins a transfer
  lets the requests of an earlier one be, and a command arrives behind the responses before it.
* `BytesArriveInPlace`, `TransferImplemented`: `SysSpec => []BytesInPlace` and
  `SysSpec => ImplementsTransfer`, if the link is `Ordered`, nothing fails between an ID and its
  request (`SafeAfterAlloc`), and `IdsOutlastRetries`: `T1 < InstanceIdCount * T2`. With the
  defaults of `config.rs` it says 120 s < 32 * 5 s; without it both are false (section 5).
  A response does not say which range it answers, so the invariant has to tell from the ID.
  `FlightInv` says: before a chunk is asked for the link is empty; then everything in flight
  belongs to a request for this chunk, in the order of sending (`InOrder`, across
  both directions), a request that `n` others followed is at least `n * T2` old unless T1 has
  expired (`Elapsed`), and what carries the last ID is about the range asked for last. So T1
  expires before an ID comes back (`AllGrowOlder`), and behind the answer that is accepted the
  link is empty (`LastOfAll`). `ImageInv` says what the image then holds, and that a transfer the
  device has taken for complete is whole.

`DownstreamPortionProofs`, for every set of lists, every cut of their bytes and whatever may stand
behind them. `ListingAssumption` and `BytesAssumption` are the widths of the fields: an index, a
type and the length of a descriptor are `u16`, a count of descriptors `u8`, a count of devices
`u16`; `NumberAssumption` says that indices and the size of the data array are natural numbers, and
`NoneAssumption` that `None` is no descriptor and no device.

* `PositionsStayInside`, `DevicesInOrder`, `TryAtFinds`, `DescriptorsRead`: `[]TypeOK`,
  `[]WalkInOrder`, `[]TryAtFindsDevice`, `[]DescriptorsInOrder`.
* `NoneIsTheEnd`: `Spec => NoneMeansAll`.

The argument has two parts. First, what is read is what was written (`DeviceHere`): where the bytes
of a device stand in a portion, decoding finds its header, the length of its descriptors, and
each of these. The length is found descriptor by descriptor, and the bytes of a list were put
together item by item, so both take an induction over the list. It is carried by lemma `Induction` of
`ListTheorems`: a set that holds 0, and `n + 1` whenever it holds `n`, holds every number; this form has no operator as
a parameter, and follows from the well-foundedness of `<`. For the same reason `DescriptorsEnd` and
`Nth` are recursive functions. A cut decides which devices fit, and the first that does not
fit ends the walk whatever stands behind it (`NextIs`, `NthIs`). Second, the inductive invariant
`PortionInv`: the iterator stands at the start of a device of the list, the one behind those that
were returned (`WalkInv`); a device from the portion is one of the list and its own iterator stands at the
start of one of its descriptors (`HandInv`, `ReadInv`); and what `try_at` returned is the device
it counts on to (`TryInv`). One lemma for each action. Devices from `new` and from the wire
are part of it only as far as their types go: they may panic (section 5).

`CodecsProofs`, for every set of messages, every array size, every buffer and every cut. The messages
of this library are what its constructors build (`MessageAssumption`, with `AsBuilt`: a string, an
option and the data of a descriptor lie in their arrays and are as long as the block says); of a peer's
messages nothing is known but that they are bytes (`PeerAssumption`). `SizeAssumption` says that sizes are
natural numbers, `NoneAssumption` that `None` is no sequence. TLC evaluates all four in `codecs`.

* `TypeCorrect`, `ReencodesHolds`: `[]TypeOK`, `[]ReencodesToInput`. Both hold of whatever arrives, under
  any header: that what is built anew is as long and decodes as the block it replaces are lemmas
  of their own (`Renewed`, `RebuiltCut`).
* `DecodeNeverPanics`: no bytes make `decode` panic, nor the encoder of what it returned: what
  `tests/decode_no_panic.rs` tries on samples.
* `NoPanicHolds`, `RoundTripHolds`, `CutHolds`: `[]NoPanic`, `[]RoundTrip`, `[]CutIsNoticed`, if
  `CountsAgree` and `FlagsAgree`. The premises are about two pairs of arguments that constructors take
  apart: `FirmwareParameters::new` the count and the table, the constructors of the two responses with an
  option the flag and the option. Without them the theorems are false: `codec_opaque_flag` is a
  set of messages without `FlagsAgree`, and the one that the device sends is in it. The messages of `codecs` satisfy both.

The argument. The parts of a block and the items of a list are found one behind the other, so each
operator that walks over them (`Ends`, `DecodeTails`, `DecodeItems`) is a recursive function, and lemmas
`RunExists` and `RunSteps` give it its equations by `Induction`. For any bytes, `BlockRead` and
`ItemsRead` say what a decoder that succeeds has read: a block that is as long as its own lengths say,
in its arrays (`Fitting`), whose bytes are those it stood on. Hence `DecodeRead`, and with `SizeIs` and
`EncodeIs` everything about what comes from a peer. For bytes that a message was put in, `Shows` says how
much of it a cut has left, and `BlockHere` and `ItemsHere` that the decoder finds exactly that: each
part if it is whole, "too short" at the first that is not. `DecodeHere` puts them together for a message. The
inductive invariant `ExchangeInv` says that wire, arrived bytes and both results belong to the
message and to each other (`SentInv`, `ReceivedInv`, `ReencodedInv`): the properties are about results of
earlier steps, which only the exchange as a whole connects.

Only model-checked: liveness under fairness (`SilenceEndsOperation`, `DownloadEnds`), which is out of the
prover's reach, and the six disagreements of section 5.

## 7. What is not modelled

Messages of fixed length are copied by one `zerocopy` implementation that can only find
the buffer too short. Configuration and error enums are constants and names. The values of
codes that a decoder rejects are left out of `Codecs`; to the state machine a message
matters through "does it decode" and "does it fit", which are free choices there. The
messages of package data, metadata and downstream devices have no handler in this
repository: their codecs and iterators are modelled, how a transfer in parts goes on is not
code of this repository. The platform (`FdOps`) is outside: `FirmwareDevice` lets its
callbacks do anything their types allow, `FdUaSystem` what their documentation asks.
Several UAs, and an MCTP layer that retries by itself, are not distinguished from one UA on
a link that loses and repeats. A restart is the initial state: nothing is persisted.

## 8. Plan

Done: `FirmwareDevice` with its abstract specification, `CmdInterface` with
`ControlContext`, `Codecs`, `FdUaSystem` with `ComponentEligibility` and `ImageTransfer`,
`PldmVersion`, `DownstreamPortion`, and the theorems of section 6.

Left: a platform that fails in `FdUaSystem` (`activate` before an answer that does not fit).
