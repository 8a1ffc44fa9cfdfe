# TLA+ models of usb-device

`usb-device` is a device-side USB stack for microcontrollers: a driver for a
USB peripheral implements the trait `UsbBus`, the application calls
`UsbDevice::poll` again and again, and *classes* (`UsbClass`) answer requests.
It runs without threads, but it is not sequential: between any two calls of the
driver the peripheral and the host go on by themselves. These modules model
the control transfers of endpoint 0, the device around them, the endpoints of
the class the repository brings along, the descriptors, and how a device is
set up.

Paths are those of the repository (`src/control_pipe.rs` is
`src/src/control_pipe.rs` in `PROJECT.json`).

## The system's parts

| Part | State | Operations | Talks to | What makes it correct |
|---|---|---|---|---|
| `ControlPipe` (`control_pipe.rs`) | transfer state, control buffer, position `i`, length `len`, static answer | `handle_setup`, `handle_out`, `handle_in_complete`, `accept_out`, `accept_in`, `accept_in_static`, `reject`, `reset` | driver (endpoint 0), called by `poll` and by `ControlIn`/`ControlOut` | a request is dispatched once, with its own data; the host gets the answer to its own request, all of it; every transfer ends; no index leaves its buffer |
| `UsbDevice` (`device.rs`) | device state, state before suspension, remote wakeup, pending address | `poll`, `reset`, `control_in`, `control_out`, `get_descriptor` | driver (address, suspend, resume, halt), pipe, classes | the device agrees with the host about configuration and remote wakeup, and the peripheral answers to the host's address only, through suspensions and resets |
| `ControlIn`, `ControlOut`, `UsbClass` (`class.rs`) | none of their own | answers, callbacks | pipe, device | every request is answered at most once |
| `DescriptorWriter`, `BosWriter` (`descriptor.rs`) | buffer, position, marks of the counters | one writer for each descriptor, `end_class`, `end_configuration`, `end_bos` | called by `get_descriptor` and the classes | the host finds exactly the descriptors that were written |
| `UsbBus`, `PollResult` (`bus.rs`) | the peripheral's | `read`, `write`, `poll`, `set_stalled`, `set_device_address`, `suspend`, `resume`, `reset` | host | (external) |
| `UsbBusAllocator`, `Endpoint` (`bus.rs`, `endpoint.rs`) | two counters, frozen or not | `interface`, `string`, `alloc`, `freeze` | driver, classes | unique numbers; nothing allocated after `build`, nothing used before it |
| `UsbDeviceBuilder` (`device_builder.rs`) | the configuration | setters, `build` | allocator, device | the control buffer holds a packet |
| `TestClass` (`test_class.rs`) | loopback buffers, expected events | endpoint callbacks, `poll` | endpoints, device | what was sent comes back, no unexpected event |
| `Request` (`control.rs`) | none | `parse` | pipe | |
| `lang_id.rs`, `dummy.rs`, `macros.rs`, `lib.rs`, `tests/` | none | | | |

What is hard here: the host may abort a transfer with the next SETUP packet, or
reset the bus, in any state of the pipe; an IN-complete event may come alone,
together with a packet, or after the transfer it belongs to; `poll` works on a
snapshot of events while the peripheral goes on; a state (`pending_address`,
`static_in_buf`, `suspended_device_state`, a mark in a buffer) is set by one
call and used by a later one that may belong to something else; an early return
with `?` in the middle of a handler. `PROJECT.json` lists these hazards at
their lines.

## The modules

    Ep0Bus --> ControlPipe --> UsbDevice     EndpointBus --> TestClass     DescriptorWriter
                 :     |            |                            |                |
      ControlTransfer  MCPipe    MCDevice                   MCTestClass      MCDescriptor

    ControlPipe --> ControlPipeProofs --> TransferProofs --> AnswerProofs --.
    UsbDevice --------------:-----------> UsbDeviceProofs ------------------+--> SessionProofs

    TestClass --> TestClassProofs    DescriptorWriter --> DescriptorWriterProofs

    BusAllocator --> MCAllocator
         \--> BusAllocatorProofs

`-->` and `|` are EXTENDS; `:` is the refinement of `ControlTransfer` by `ControlPipe`,
and that `UsbDeviceProofs` extends `ControlPipeProofs` too.

| Module | Models | Checked by | Proved in |
|---|---|---|---|
| `Ep0Bus` | the driver and the host at endpoint 0 (external) | with `ControlPipe` | those of `ControlPipe` |
| `ControlPipe` | `control_pipe.rs`, endpoint 0's part of `poll` | `MCPipe` | `ControlPipeProofs`, `TransferProofs`, `AnswerProofs` |
| `ControlTransfer` | what endpoint 0 promises (abstract) | `pipe` | `TransferProofs` |
| `UsbDevice` | `device.rs` around the pipe | `MCDevice` | `UsbDeviceProofs`, `SessionProofs` |
| `EndpointBus` | the driver and the host at other endpoints (external) | with `TestClass` | `TestClassProofs` |
| `TestClass` | the dispatch of `poll` to classes, `test_class.rs` | `MCTestClass` | `TestClassProofs` |
| `BusAllocator` | `bus.rs`, `UsbDeviceBuilder`, `UsbDevice::build`, `Endpoint` | `MCAllocator` | `BusAllocatorProofs` |
| `DescriptorWriter` | `descriptor.rs` | `MCDescriptor` | `DescriptorWriterProofs` |

**Ep0Bus** is external: the peripheral driver at endpoint 0 (received packet
`rx`, packet to send `tx`, latched event `inDone`, the two STALL conditions,
`busReset`) and the host (number `x` of its transfer, request `hreq`, `stage`,
data `sent` and `rcvd`). It is modelled from how `src/` uses the trait: a
packet is reported until it is read, an IN-complete event once, a SETUP packet
replaces an unread packet, a write fails while a packet waits. Bytes are pairs
of a transfer's number and a position, so that a byte of another transfer or
out of order is recognised; the device's constant data are transfer 0.

The host gives a transfer up with the next SETUP packet or ends an IN data stage
early if `HostMayAbort`; it resets the bus in the middle of a transfer if
`HostMayInterrupt`, and otherwise between transfers.

**ControlPipe** has one action per handler and per arm of its `match`. A call of
`poll` is split where the host can act between two accesses of the peripheral:

- `pc = "poll"`: `bus.poll()` and the handler of the packet it reported are one
  step (`HandleSetup`, `HandleOut`). A packet that came in between would be
  read in place of the one reported only if it is a SETUP packet that replaces
  an OUT packet; this race inside the driver is not modelled.
- `pc = "in_complete"`: `handle_in_complete` on the event of the same report.
  The event is lost when the packet brought a request, as in the code.
- `pc = "control_in"`, `"control_out"`: the request is waiting for its answer;
  `AcceptIn`, `AcceptInStatic`, `AcceptOut`, `Reject` answer it, `Abandon` is an
  answer that returns an error before the pipe takes it. `AcceptHalting` is
  the answer to a request that halts endpoint 0 itself (one of `Ep0Halts`): a STALL
  condition of the pipe changes just before it accepts.
- `pc = "panic"`: a slice out of range.

A read that fails is one of two: `WouldBlock` leaves the transfer as it is and is
tried again, another error stalls (`ReceiveData`).

The code's `Request` in `CompleteIn`/`DataOut` is `req`, with `xr`, the number of
its transfer. `resp` and `acked` are history: who answered what.

**ControlTransfer** is the abstract specification: numbers of transfers, what has
become of the host's (`outcome`) and of the one the device works on (`answer`),
no packets and no buffer. A class is asked once about a transfer, after all its
data; the host sees it completed only if it was accepted and failed only if it
was rejected; the device forgets an accepted transfer only when the host is
through with it. `ControlPipe` instantiates it with the mapping `transfer <- x`,
`handling <- xr`, and `AbstractOutcome` and `AbstractAnswer`, which group the host's
stages and the states of `ControlState`. So the nine states of the pipe are shown
to be four answers: receiving, asked, accepted, rejected.

**UsbDevice** adds the device's own state. Each of its actions conjoins an action
of `ControlPipe` with what the device does around it: `Wake` is what `poll`
does before it looks at an event during suspension; `PollEp0InComplete` takes
the pending address; `ControlOut` changes the state before accepting. A request
has a `call` (which arm of the `match` it goes to; `"class"` for requests that a
class answers) and a `value`. Simplification: a standard request is not
answered by a class first, and a class request is answered or rejected. SET_FEATURE and CLEAR_FEATURE of ENDPOINT_HALT name an endpoint: `HaltOther` for
those besides 0, which only the flag `halted` stands for, and `HaltEp0`, which sets or
clears `stallIn` or `stallOut`. Suspension comes in the middle of a transfer with
`HostMayInterrupt` only. The
host keeps to the order of enumeration (`InOrder`) and uses the address it
set (`Reachable`).

**DescriptorWriter** writes one document: device, configuration, string
(languages or text) or BOS, with nondeterministic classes. `Write` is
`write_with`, including the limit of a descriptor to 256 bytes; `parts` is the
history of what was written by whom. `HostReadsWhatWasWritten` follows
the finished buffer as a host does, which has nothing but the lengths in it: each
descriptor begins where the length of the one before says (`FollowedAt`), and the
total length ends the document. A counter wraps at `ByteSize`, as `+= 1` on a byte
does in a release build. After an error `get_descriptor` sends nothing, so a
document that `failed` is not looked at.

**EndpointBus** is external: the driver and the host at a bulk and an interrupt pair of
endpoints. A message is written in packets and its reply read, on both pairs at
once; a byte is its message and its position. Bench mode and bus resets come at
any moment. `ReadsDirectly` distinguishes two kinds of drivers that the trait
allows: one whose `read` finds only packets that `poll` has fetched, and one
whose `read` reaches the peripheral.

**TestClass** is the cycle of the application: `UsbDevice::poll`, which takes a
snapshot of the events (`PollData`), handles endpoint 0 (`SetBenchEnabled`), calls
`endpoint_out` and `endpoint_in_complete` endpoint by endpoint (`Dispatch`), and then
`TestClass::poll` (`BenchPoll`, `LoopbackPoll`). The host moves between any two of
these steps, and every assertion or `expect` of the class that fails leads to
`pc = "panic"`. `write_bulk_in` is `WriteBulkIn`, called by the completion and by the
last packet of a message as in the code.

**BusAllocator** lets the application make the calls of setting up in any order:
allocation by the classes, the builder's setters and `build`, the use of a
handle. `freeze` is in steps, since a handle is `Sync` and may be used by an
interrupt handler in the middle; a RefCell that stays borrowed is a flag, a
panic ends the program. A counter has `Width` values and, by
`overflow_checks`, panics or wraps. `StringOwner` and `InterfaceOwner` are the
searches of `get_descriptor` and `control_in` through the classes.

Operators that no action uses (`NoUnstall`, `WakeKeepingState`, ...) stand just
before the operator they are a mistaken form of. With each of them in its
place one of the properties fails; `PROJECT.json` lists the pairs as mutants.

## The runs

| Run | Instance | Shows |
|---|---|---|
| `pipe` | `MPS` 2, buffer 4, 3 transfers, data stages of 0 to 4 bytes, answers of 0 to 5, aborts and resets at any time, fairness | dispatch, data, answers, acknowledgement, stalls, that transfers end, and the refinement of `ControlTransfer` |
| `pipe_trouble` | as `pipe`, with driver errors, truncated SETUP packets, data stages of 5 bytes, answers for 6, failing answers, halts of endpoint 0; no fairness | the ranges, that accepted transfers do not fail, and no early completion, with everything going wrong |
| `device` | 4 transfers out of all standard requests, halts of endpoint 0 included; suspension, resume and reset at any time, also inside a transfer; the host gives no transfer up by the next SETUP packet and ends no data stage early | device and host agree about configuration and remote wakeup; the peripheral answers to the host's address only, and does not lose it; the saved state |
| `device_quirk` | addresses, configurations, a descriptor and class requests with `QUIRK_SET_ADDRESS_BEFORE_STATUS`; answers of 1 and 3 bytes from the buffer and of 0 to 6 static, asked for 2 and 6; no aborts, resets and suspensions between transfers only; fairness | answers of both kinds arrive whole, no slice out of range; device and host agree about the configuration, device and peripheral about having an address; a resumed device wakes |
| `descriptors` | bytes of 20 values, 6 buffer lengths, 0 to 2 classes | lengths, counters and bounds |
| `loopback` | `MPS` 2, buffer 4, 2 messages on each pair of endpoints, of 0, 2, 3 and 4 bytes (bulk) and 0 and 2 (interrupt), bench mode and resets, fairness | what is written comes back, no assertion fails |
| `allocator` | 2 classes, one endpoint number besides 0, counters of 6 values, 6 interfaces, 2 strings, buffers shorter and longer than a packet | numbers, and the order of allocation, enabling and use |
| `stale_static`, `oversize_out`, `oversize_stuck`, `long_descriptor`, `loopback_early` | | the findings below |

Bounds. `MPS = 2` with a buffer of two packets has every case of the chunking:
empty, short, exactly one packet, one and a bit, full buffer, too long. Three
transfers let a third one meet what two others left; nothing in the pipe
remembers more. Four requests are address, configuration, one to undo or repeat
them and one to observe. Two messages on an endpoint let the second meet what
the first left, while both endpoints are busy; the four lengths are empty, one
full packet, a full and a short one, and the whole buffer, which a
zero-length packet ends. Counters of 6 values let six interfaces go around and leave two strings
their own indices, so that `StringOwner` tells them apart; a
second device can be built after the first. A byte of 20 values holds a device descriptor (18
bytes, the longest fixed one) and puts the limits of a descriptor, the second
byte of a total length and every overflow of a buffer within 44 bytes. There
is no symmetry: the numbers of transfers and addresses are ordered.

Constants that select behaviour: `HostMayAbort`, `HostMayInterrupt`, `Ep0Halts`, `BusErrors`, `AcceptMayFail`,
`HostRepeatsAddress`, `ReadsDirectly`. In the `device` runs `HostMayAbort` is off: a host that abandons
a transfer in which the device has changed its state already disagrees with it
by design. In `device` resets and suspensions inside a
transfer are on. In `device_quirk`, which has static answers, they are off, since a
transfer cut off while a static buffer is sent is finding 1, whether by a SETUP packet
or by a reset; that a device with the quirk keeps `DeviceMatchesHost` and
`AddressedHasAddress` with them is proved below.
`Ep0Halts`, the requests that halt endpoint 0 or end that, is
empty but in `device` and `pipe_trouble`: such a request fails for its host although it was
accepted (see after the findings), which `AcceptedDoesNotFail` excepts. `SetupClearsIn = TRUE` is the driver's contract on which the pipe
depends (`handle_setup` clears neither the unsent packet nor the IN stall): with
`FALSE`, TLC finds that a host takes an empty packet left over from an older
transfer as the acknowledgement of one that nobody accepted. A host that
repeats the address the device has is left out too (`HostRepeatsAddress = FALSE`):
the IN-complete event that applies an address is dropped when the next SETUP
packet is in the same report (`device.rs:251-277`), the address then waits for
the next OUT transfer that completes, and sets the state to Addressed even if
that was SET_CONFIGURATION; with any other host a SETUP packet that comes in the
same report cannot find the device at its new address. In `pipe` the data stages
fit the buffer and answers are not static; the runs for the findings drop these
conditions. In `loopback` the driver's `read` finds only what `poll` has fetched;
`loopback_early` drops that.

`descriptors` allows deadlock, since a finished or failed document stops, and so
does `allocator`, since a panic is the end. All other runs check for it.

Fairness. `pipe`: `Poll` and `Answer` are weakly fair, because the application
has to call `poll` again and again (`lib.rs`, `device.rs` document it) and one
call answers what it found; `HostProgress` is weakly fair, a host that does not
give a transfer up goes on with it. `device_quirk`: the parts of `poll` that
wait for an event of the driver are strongly fair, since a driver with several
events pending reports one at a time but each in the end. `loopback`: the cycle of the application is weakly fair for the same
reason as `Poll`, and so is the host at each endpoint, once it has begun a message: the
host's test reads and writes with a timeout of its own only. No fairness is
assumed of new transfers, resets, suspensions or resumes.

## Properties

- Dispatch: `OutDataIntact`, `NoStaleDispatch`, `NoRequestLeftWaiting`.
- Answers: `InAnswerIntact`, `AckOnlyAccepted`, `AcceptedDoesNotFail`.
- Events out of step: `CompletesAfterStatus`; `TransferEnds` and
  `AcceptedCompletes` (liveness); `ImplementsTransfer` (all of it, abstractly).
- Bounds: `IndicesInRange`, `WriterTypeOK` (a counter lies in the buffer).
- Device: `SuspendBookkeeping`, `DeviceMatchesHost`, `AddressIsTheHosts`,
  `AddressedHasAddress`, `AddressIsTaken`, `ResumeWakes`.
- Other endpoints: `EchoIntact`, `NothingUnexpected`, `ExpectationsMatch`, `EchoArrives`
  (liveness).
- Setting up: `NumbersFindTheirClass`, `AllocatedBeforeEnable`, `UsedAfterEnable`,
  `DeviceIsComplete`.
- Documents: `HostReadsWhatWasWritten`, `CountersAgree`, `EndpointsInOwnClass`.

## Findings

1. `stale_static`: `static_in_buf` survives an aborted transfer and a bus reset
   (`control_pipe.rs:62-65, 223, 230`); the next ordinary answer is sent out of
   the old static buffer.
2. `oversize_out`: a request whose data do not fit is ignored (`:104-107`) with
   the former transfer's `DataOut` still in place, and its data complete the
   former request.
3. `oversize_stuck`: in any other state its packets are neither read nor stalled
   (`:177`, the `?` before `set_error`): NAK for ever.
4. `long_descriptor`: a descriptor that does not fit the control buffer leaves
   the request unanswered (`device.rs:394` returns before the reject at `:433`).
5. `loopback_early`: `TestClass::poll` reads any packet there is, also one that came
   after the snapshot `UsbDevice::poll` dispatched (`test_class.rs:148`). With a
   driver whose `read` reaches the peripheral the class then panics
   (`test_class.rs:154`), although the application polls as it should (`:129`).

Seen while modelling, without a run:

- SET_FEATURE(ENDPOINT_HALT) stalls whatever endpoint `wIndex` names (`device.rs:488`), also
  endpoint 0, over which its own status stage is still to go: the device accepts
  (`class.rs:213`, "succesfully responding to the status stage") and the host sees the
  transfer fail. `AcceptedDoesNotFail` makes an exception of such a request and says that no
  other transfer fails with it.
- `class.rs:47` says that the language of `get_string` defaults to EN_US when it is not
  valid, and `get_descriptor` passes on whatever the host asked for (`device.rs:635, 660`).

## Theorems

`ControlPipeProofs` (for all sizes, requests, bounds and switches):

- `TypeCorrect`: `Spec => []TypeOK`. The invariant `TypeInv` adds `InBounds` (in
  `DataIn` the position is inside the answer, so `len - i` is a number: in the
  code, that the subtraction does not wrap) and `SentInBounds` for the host.
- `SlicesInRange`: without static answers, `Spec => []IndicesInRange`, drivers
  that fail and oversized requests included. The invariant `RangeInv` adds that
  an answer in progress fits the buffer it is sent from, and that `static_in_buf` is
  set only while a static answer is sent.
- `OutDataArrives`: if all data stages fit the buffer and the driver does not
  fail (`DataStagesFit`), `Spec => [](OutDataIntact /\ NoStaleDispatch)`, whatever
  the host aborts. The invariant `IntactInv` is the argument: a waiting OUT
  packet with data belongs to the running transfer and starts where the host
  stands (`PacketInv`); while the pipe is in `DataOut` either a newer SETUP
  packet or a reset is waiting, or the request is the host's and pipe and host
  have counted the same number of bytes (`DataStageInv`); the bytes before `i`
  are that transfer's (`BufferInv`).

Both conditions are needed: findings 1 and 2 are the counterexamples. Halts of endpoint 0
do not matter to these three.

`TransferProofs`, when besides a SETUP packet clears what was to be sent and the host
does not halt endpoint 0 (together `GoodDriver`; finding 2 and the halt described after the findings are
counterexamples without it); answers may fail and be of any kind:

- `PipeImplementsTransfer`: `Spec => ImplementsTransfer`, by
  initial state and step. The invariant `EndInv` says which transfer the pipe holds
  (`NewestInv`), what a waiting packet says about the host (`WaitingInv`), that nothing
  is sent, reported or stalled before a transfer is answered (`QuietInv`), how far the
  host is in each state of the pipe (`RequestInv`, `StageInv`), and what the
  history holds (`HistoryInv`). It is needed because the pipe never sees the
  host's stage: it concludes from packets and events, which may be old.
- `OutcomeIsTheAnswer`: `AckOnlyAccepted`.

`TransferProofs`, when a SETUP packet clears what was to be sent and nothing else is
assumed, so with drivers that fail, truncated SETUP packets, oversized requests and halts of
endpoint 0 (`pipe_trouble`):

- `AcceptedStaysAccepted`: `AcceptedDoesNotFail`.
- `CompleteAfterTheHost`: `CompletesAfterStatus`.

`EndInv` does not hold there: the pipe may hold an older transfer than the host's
although nothing waits. `HeldTransferInv` says less: history and pipe are never ahead
of the host (`OwnInv`), what the host's stage and the waiting packet say about each
other (`HostInv`), that only a rejected request stalls, or one that halts
endpoint 0 once it was answered (`Halted`), that nothing is sent before
an answer (`UnansweredInv`), and how far the host is only while the pipe holds its
transfer (`RunInv`). `AckOnlyAccepted` is not among the results: finding 2 breaks it.

`AnswerProofs`, again with `GoodDriver`:

- `EveryRequestAnswered`: if `accept` does not fail, `NoRequestLeftWaiting`.
- `AnswerArrives`: if no class answers from a static buffer, or no transfer is cut off
  (`NothingCut`: neither by the next SETUP packet nor by a reset inside it),
  `InAnswerIntact` and `IndicesInRange`. The invariant `AnswerInv` follows
  a byte from the class's answer in `buf` or in the static buffer (`SourceInv`) through
  the packet that waits (`PendingInv`) to what the host has (`ReceivedInv`), and says
  that a static buffer is set only while it is sent to the host of that very transfer
  (`StaticInv`). Beside it, `Undisturbed` says that no request is held that was cut off
  (`HeldInv`), where static answers need it. Without the condition finding 1 is the
  counterexample.

`UsbDeviceProofs`:

- `DeviceImplementsPipe`: `DeviceSpec => Spec` when the lengths the device
  answers with are among `BufLens` (`AnswersAllowed`, which relates two constants
  only): every step of the device is a step of the pipe, or leaves it alone. A halt of
  endpoint 0 changes the pipe's STALL conditions and is a step of it too
  (`AcceptHalting`; `DeviceRequestAssumption`: such a request is among `Requests` only
  if it is one of `Ep0Halts`).
- `DeviceOutDataArrives`: `OutDataArrives` carried over by that refinement.
- `SuspensionIsTracked`: `DeviceSpec => []SuspendBookkeeping`. The invariant
  `SuspendInv` adds that nothing but `poll` itself runs while the device is
  suspended: a request, or an IN-complete event, is only being handled after
  the device was woken.

`SessionProofs`, about the device with its host. `DeviceTypeCorrect` is
`DeviceSpec => []DeviceTypeOK` and needs `AnswersAllowed` only. The next three are for a host
that gives no transfer up by the next SETUP packet, ends no data stage early, repeats no
address and does not halt endpoint 0 (`OrderlySession`, which includes `GoodDriver`). It
requests anything else, and resets, suspends and resumes as it likes: with `HostMayInterrupt`
also inside a transfer. But for the second they are for both kinds of drivers, those that
want the address before the status stage (`QUIRK_SET_ADDRESS_BEFORE_STATUS`) and those that
want it after:

- `AddressIsKept`: `AddressIsTheHosts` (the peripheral answers to no address but the one of
  this session, so to none after a reset, or is about to exchange it for the new one) and
  `AddressedHasAddress`.
- `AddressIsNotLost`: `AddressIsTaken`, from the end of a SET_ADDRESS transfer to the next
  reset. It is about the pending address and so about devices without the quirk.
- `DeviceAgrees`: `DeviceMatchesHost`, which is about configuration and remote wakeup; the
  address is the subject of the other two.

Their invariant `SessionInv` says what holds while a setting is on its way.
`AddressInv` without the quirk (`SetAfterStatus`): device and host have the same address, or the
accepted SET_ADDRESS is still running, or the host is through with it and the event
that tells the device is waiting. With it (`SetAtOnce`): the device has the host's address
or, until the host takes the status packet, the one it just accepted.
`SettingsInv`: the device has the host's settings or those it just accepted.
`OrderInv`: a SET_CONFIGURATION is running, or still waits for its answer when a
reset has just ended it, only where there is an address.

- `DeviceAnswersArrive`: `InAnswerIntact` and `IndicesInRange` for the whole device, under the
  conditions of `AnswerArrives`.
- `DeviceImplementsTransfer`: the two refinements, composed; with `GoodDriver`, so for a host
  that does not halt endpoint 0.

`TestClassProofs`, for any packet size, buffer and messages, and a driver whose `read`
finds only what `poll` has fetched (`ReadsDirectly = FALSE`; finding 5 is the
counterexample without it):

- `LoopbackTypeCorrect`: `TestTypeOK`.
- `NothingIsUnexpected`: `NothingUnexpected`, no assertion or `expect` fails.
- `ExpectationsAgree`: `ExpectationsMatch`.
- `EchoComesBack`: `EchoIntact`.

One invariant, `LoopbackInv`, proves all four, because they need each other: that no
assertion fails rests on what is announced to the class and what it expects
(`AnnouncedInv`, `CompletionInv`), through every step of the cycle (`CycleInv`), and a
wrong length would make the class wait for a packet that does not come.
`BulkInv` says where the bytes of a bulk message are: the class has what the host sent but
for the packet that waits (`BulkReceiving`), or the host has what the class sent
(`BulkReplying`), or neither has any left (`BulkQuiet`). `InterruptInv` is the same for a
message of one packet. `BenchInv` is needed because host and class change to bench mode
and leave it by a reset at different times.

`DescriptorWriterProofs`, for any control buffer, classes and lengths:

- `WriterTypeCorrect`: `WriterTypeOK`, nothing is written beyond the buffer.
- `EndpointsStayInClass`: `EndpointsInOwnClass`.
- `CountersAreRight`: `CountersAgree`, if the buffer is shorter than three times the number
  of values of a byte (`BytesCount`). The shortest descriptor that is counted has three
  bytes, and with more of them `+= 1` overflows.
- `HostReadsTheDocument`: `HostReadsWhatWasWritten`, if no length is one that a byte
  cannot hold although the writer lets it pass (`LengthsFit`; the hazards at
  `descriptor.rs:87` and `:375`).

The invariant has three layers. `LayoutInv`: descriptors follow one another without
a gap, their two header bytes are as they were written, and each mark is at the
counter of the descriptor it belongs to (`Marked`), so that an increment through a mark
changes neither a header nor another counter. `CounterInv`: each counter in the buffer is the number of
descriptors written so far, which is at most a third of the position. `LengthInv`: every
length fits its byte, and the total length is the position.

`BusAllocatorProofs`, for any classes, widths and endpoints:

- `AllocatorTypeCorrect`, `BuiltInOrder` (`UsedAfterEnable`, `DeviceIsComplete`),
  `NoAllocationAfterEnable` (`AllocatedBeforeEnable`; `FreezeInv`: the pointer is
  set only after the driver is enabled, and once it is enabled the bus is borrowed
  whenever the application is outside `freeze`)
  and `NumbersLeadBack` (`NumbersFindTheirClass`; the invariant: until its
  counter wraps, the numbers handed out are consecutive).

The constants' assumptions are `AllocatorAssumption`, `PipeAssumption` and the like: a SETUP
packet fits a packet, a packet fits the control buffer
(`UsbDeviceBuilder::build` and `max_packet_size_0` check it).

Every safety invariant and every action property of the passing runs is stated by one of
these theorems. Only model-checked: liveness (`TransferEnds`, `AcceptedCompletes`, `ResumeWakes`,
`EchoArrives`), since proofs from fairness need ENABLED, which is out of the prover's
reach; and, of instances the theorems leave out, hosts that halt endpoint 0, for which the run
`device` shows that the device's own state is right all the same (`AddressIsTheHosts`,
`DeviceMatchesHost` and the others). Where a theorem
leaves an instance out because its property fails there, the findings say so.

## Not modelled

`force_reset` and the accessors of the device; the builder's other setters;
`endpoint_setup`, which no class of the repository overrides; isochronous
endpoints; `TestClass`'s control requests other than SET_BENCH_ENABLED, whose answers
are among those of `ControlPipe`; bit layouts; errors of classes' own code. The
race inside a driver between its `poll` and its `read` at endpoint 0. Strings that
need a length above a byte, and class descriptors of exactly 256 bytes: `write_with` and
`string` write a length of `len as u8` there (hazards at `descriptor.rs:87` and
`:375`); the passing run stays below. `lang_id.rs`, `dummy.rs`, `macros.rs` and `lib.rs`
are tables, stubs and documentation.

## Plan

Done: `ControlPipe`, `UsbDevice`, `DescriptorWriter`, `ControlTransfer` and its refinement,
`TestClass` with the dispatch, `BusAllocator`; the proofs above, which cover every safety
property of the passing runs.

What could follow:

1. A host that switches bench mode off with packets in flight (`test_class.rs:333`), and
   one that configures a device without an address (`device.rs:503`).
2. A host that gives transfers up in `SessionProofs`: what device and host still agree about
   then (the address while no SET_ADDRESS was given up).
3. An abstract specification of the echo that `TestClass` implements.
