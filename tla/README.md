# TLA+ models of the point-to-point compression link

The repository adds two things to the ns-3 network simulator: a
`PointToPointNetDevice` that deflates packets of one protocol with zlib on the
way out and inflates them on the way in, and a measurement — `UdpAppClient`,
`UdpAppServer`, `project1.cc` — that tries to tell from the end points whether
such a link is on the path. This directory holds TLA+ models of both, TLC
configurations that check them, and TLAPS proofs about the device, its link, its
queue and the event queue below it, the codec, the client and the measurement.

Parse with SANY, check a run with `tlc -config <run>.cfg <module>` (the modules
are in `PROJECT.json`, `runs`), check proofs with
`tlapm <module>_proofs.tla`.

## 1. Inventory

| Component | State | Operations | What makes it correct |
|---|---|---|---|
| `PointToPointNetDevice` (`src/model/point-to-point-net-device.*`) | `m_txMachineState`, `m_currentPkt`, `m_queue`, `m_linkUp`, `m_protocol`, `compressionEnabled`; per scheduled event: `TransmitComplete`, reception at the peer | `Attach`, `DoInitialize`, `Send`, `TransmitStart`, `TransmitComplete`, `Receive` | one transmission at a time; no frame stranded, lost, repeated, reordered; only the configured protocol altered; what is inflated is what was deflated |
| PPP numbers (same file) | none | `EtherToPpp`, `PppToEther` | inverse on the three defined protocols |
| Transmit queue and device-queue flow control (`src/ns3/queue.h`, `drop-tail-queue.h`, `net-device-queue-interface.h`, connected by `DoInitialize`) | queue contents, `m_stoppedByDevice` | enqueue, dequeue, discard and their traces: stop, wake | a full queue is stopped in the same call; a stopped queue is woken; nothing discarded once connected |
| Codec (`Compress`, `Decompress`) | none kept; buffers of one packet | deflate, inflate | round trip; nothing read that is not in the packet |
| `UdpAppClient` (`src/model/udp-app-client.*`) | `m_sent_l`, `m_dataSize`, `m_size`, `m_data`, `packets`, `lowPackets`, `m_socket`, `m_sendEvent`, the file `randomfile` | `SetFill`, `SetDataSize`, `StartApplication`, `FillInPacketArray`, `Send`, `StopApplication` | both trains have the lengths the server counts on; every row read exists; no event outlives the socket |
| `UdpAppServer` (`src/model/udp-app-server.*`) | `m_received_l`, `m_received_h`, `receivedAllLowEntropy`, two clock readings, two durations | `StartApplication`, `HandleRead`, `StopApplication` | the windows it measures are the trains; the verdict rests on two measured windows |
| Measurement programs (`src/project1.cc`, `src/examples/udp-app.cc`) | the event queue, start and stop times, four clients in one process | `main` | the pause between the trains is in neither window |
| Helpers (`src/helper/point-to-point-helper.*`, `udp-app-helper.*`) | attribute factories | `Install`, `SetFill` | devices attached, queued and aggregated |

*How they interact.* Everything runs in one thread under `Simulator::Run`: an
event handler runs to its end, so two handlers never interleave inside, but
their order is the scheduler's. `Send` and `TransmitComplete` share the transmit
machine. `Enqueue` and `Dequeue` call the flow-control traces synchronously,
which stop or wake the traffic control layer above. The channel turns
`TransmitStart` into a reception event at the peer. The client's schedule and
the server's counters share nothing but the packets between them and the *wall
clock*: the server times trains with `high_resolution_clock`, and the client
pauses with a real `sleep_for` inside an event.

*What is hard.* Sends that fall between a completion and the next; events that
are due at the same time; a queue at its limit, with frames longer than the
packets the limit is tested for; traces connected and `m_protocol` set only by
`DoInitialize`, in the middle of traffic; binary packets measured with `strlen`;
loss, which shifts the server's windows; three counter comparisons and one row
index that have to agree with the server and with an array, at the limits of
three integer types; a pause that must fall between two arrivals; other clients
of the same process whose pauses fall anywhere. `PROJECT.json` (`hazards`) lists
each at its line.

## 2. Modules

| Module | Models |
|---|---|
| `PppProtocol` | the two number translations, as the optimized build (`README.md:24` of the repository) executes them: without assertions |
| `FifoLink` | abstract: what a link promises — accepted packets are delivered at the other end once, in order, unless lost |
| `PointToPointNetDevice` | two devices and their channel, with transmit queue, flow control and compression |
| `TimedLink` | `PointToPointNetDevice` under the event queue, with times |
| `TransmitQueue` | `DropTailQueue` with its counters, in packets and in bytes, and the `NetDeviceQueue` traces |
| `Codec` | the lengths that `Compress`, `Decompress`, `Send` and `Receive` work with |
| `UdpAppClient`, `UdpAppServer` | the two applications |
| `SetFill` | the client's `SetFill` and `SetDataSize` functions, loop by loop |
| `Experiment` | composes the applications with a network and the two clocks, as `main` does |
| `MC*` | values for the constants |
| `*_proofs` | theorems, in section 4; `FifoLink_proofs` has those that make the device a link |

### PointToPointNetDevice

Variables carry the names of the members. Additional ones stand for the event
queue and for what the trace sources count: `completions[d]` is the number of
scheduled `TransmitComplete` events (a number, so that "exactly one while BUSY"
is something to check), `wire[d]` the frames `d` has given to the channel and
the peer has not received, `txDrops`, `rxDrops`, `discards` the calls of
`m_macTxDropTrace`, `m_phyRxDropTrace` and `PacketDiscarded`, `passedUp` what
`m_rxCallback` got.

| Action | Code |
|---|---|
| `Attach`, `DoInitialize` | the functions of these names; initialisation sets `m_protocol` from `config.json` and connects the queue traces |
| `SendLinkDown`, `SendOverflow`, `SendEnqueue`, `SendStart` | the four outcomes of `Send`; its three copies of the same code (compressed, other protocol, compression off) differ only in the frame, which is `Framed` |
| `TransmitCompleteIdle`, `TransmitCompleteNext` | `TransmitComplete` with an empty queue, or with a next frame and the `TransmitStart` it makes |
| `ReceiveUp`, `ReceiveCorrupt` | `Receive`; what a frame becomes is `Unframed` |

Enqueue, dequeue and their trace callbacks happen inside one action, in the
order of the code: `SendStart` applies `PacketEnqueued` before `PacketDequeued`.
A frame is a record of the packet it stands for, its PPP number, the kind of
its bytes (plain, deflated, inflated) and how much longer they are than the
packet's. Simulated time is left out: any enabled event may be next, except that
a wire is FIFO. That admits more orders than constant delays would, so the
invariants hold for all of them.

`MaySend` is the environment: the traffic control layer does not call `Send` on
a stopped queue, and no one sends on a channel with one end (the vendored
channel asserts that). `MaxSends` bounds the calls of `Send`; nothing else is
bounded.

*Refinement.* `ImplementsFifoLink` maps `FifoLink`'s channel of `d` to
`wire[d] \o m_queue[d]`, reduced to packets, and its deliveries to `passedUp`.
Every step of the device model is then an accept, a deliver, a lose (receive
error) or a stutter, and the fairness of the events gives the fairness the
abstract link promises. `FifoLink` separates the two (`LSafeSpec`, `LSpec`): the
first is proved, the second checked.

### TimedLink

Extends the device model with what it leaves to the simulator. `events` is the
queue of `Simulator::Schedule` in the order of scheduling, each event with the
time left until it is due; `Elapse` lets one unit pass when no event is due,
`RunEvent` executes the one that `EventKey`'s `operator <` puts first
(`IsNext`). `Scheduled` is what one `TransmitStart` puts into the queue: the
completion after `txTime + m_tInterframeGap`, then, through the channel, the
reception at the peer after `txTime + delay`. The transmission time depends on
the frame's size and the gap on an attribute, so both are chosen anew for every
frame; 0 is among the choices, because a time is rounded to the simulator's
resolution.

The untimed model assumes three things: a wire is a FIFO queue, one completion is
pending while a device transmits, and what is pending happens. `TimedLink`
derives them: `ImplementsDevices` states that every timed behaviour is one of
`PointToPointNetDevice!FairSpec`, its variables unchanged, its fairness implied
by that of `Elapse` and `RunEvent` alone. Together with `ImplementsFifoLink`
that is a chain from the event queue to the abstract channel, checked with its
fairness and proved without (`EventsRunLink`).

### TransmitQueue

A frame is its size. Two overheads occur: 2 bytes, the PPP header, and 10, header
and longer buffer of a compressed packet. `Fits` is `QueueSize`'s `operator +`
and comparison, in the unit of `MaxSize`; `Bytes` sums what is in the queue, which
the code never does, except by flushing it; the three `StoppedAfter...` operators
are the traces that `ConnectQueueTraces` connects. `SendStarted` applies the
enqueue trace to the queue with the frame in it, and then the dequeue trace.
`Remove` and `Flush` are the queue's interface for other code; their double
dequeue trace (`queue.h:521`, and `:595` with `net-device-queue-interface.h:352`)
sees the same queue twice. Nothing in this repository calls them; they are in the
model because they are operations of the queue, and all properties hold with them.

Flow control acts on a device that has a `NetDeviceQueueInterface` when `DoInitialize`
runs. The helper of this repository aggregates none
(`src/helper/point-to-point-helper.cc:307-359`): that is the task of the traffic
control layer, "when an Ipv{4,6}Interface is added to the device or a queue disc is
installed on the device" (`src/ns3/net-device-queue-interface.h:214-216`), as it is for
the devices of `project1.cc` at `:125`. A device that gets neither is the case
`FlowControl = FALSE`.

### Codec

A packet is its length and the index of its first zero byte, because that is all
that `strlen` sees. Compressing ends at the first zero; without one, `strlen`
reads on into the 8 bytes behind the packet, which nobody has written, or past
the buffer (`StrLen`). zlib is ideal, and a stream may have any length its
content allows. Its first zero is anywhere behind its two header bytes: in the stream, in
the rest of the frame, which nobody has written either, or past the frame's end.
`Decompress` gives `inflate` the size less the `strlen` of the frame (`available`).

### UdpAppClient, SetFill, UdpAppServer, Experiment

A packet is where its bytes come from (`lowPackets` or a row of the array), the
row that was copied, and its size. The array is modelled by how many rows have
been filled. `InLowPhase`, `PhaseEnds` and `InHighPhase` are the three tests at
the end of `Send`; `RowRead` is the row index of both branches. The server's
`Clock` and `Finishes` are the branches of `HandleRead`, which are written twice
in the code, once per train. Both applications choose their `MaxPackets` at the
start from a set of values (`clientCount`, `serverMaxPackets`), so that one run
covers all boundaries.

`UdpAppClient` has `SetFill` as one step that sets sizes; the module `SetFill`
models the buffer byte by byte, each byte named after the call and the place in
the pattern it comes from.

`Experiment` keeps two clocks. `now` is simulated time and orders the events
(`IsNext`): the start, the pending `Send`, arrivals `delay` after they were
sent, pauses of other clients, the stop. `wall` is the host's clock; every event
costs some member of `EventCosts`, and a pause costs `Sleep`. `project1.cc`
installs three further clients on the compressing link's nodes. Those have no
route to the server, but their pauses stop everyone: `OtherClientPauses`. One of
them is never given a start time and starts at 0, one second before the server.

The link of the measurement is not composed with `PointToPointNetDevice`: in both
programs client and server sit on one CSMA network and the compressing link is
beside it, so that no packet of the measured flow crosses it.

## 3. Runs

Passing runs:

| Run | Instance | Shows |
|---|---|---|
| `DeviceLink` | queue of 2, device `a` sends 4, `b` 1, both ends compressing, IPv4 and IPv6, receive errors, fairness of events | `TypeOK`, `TxMachine`, `NoStrandedFrame`, `InOrder`, `Conservation`; compression, once started, stays (`CompressionSticks`) and leaves other protocols alone (`OthersUnaltered`); `FifoLink` implemented, liveness included |
| `DeviceFlow` | 6 sends, one end compressing, flow control on, `DoInitialize` at any moment | stop and wake in step with the queue (`FlowControlHolds`), one discard at most (`AtMostOneDiscard`), every stop followed by a wake (`StoppedIsWoken`), which is the first dequeue (`FirstDequeueWakes`) |
| `TimedLink` | queue of 2, 5 sends, transmission times 0 and 2, gaps 0 and 1, delay 3, flow control on, `DoInitialize` at any moment | receptions in the order of transmission (`WireInEventOrder`), completions of the right frame (`CompletionIsCurrent`), no overlap (`FramesDoNotOverlap`), bounded latency (`Punctual`), a stopped queue woken within one transmission and one gap (`WokenWithinAFrame`), the untimed model implemented (`ImplementsDevices`) |
| `TransmitQueue` | MTU 8, packets of 3 and 8 bytes, overheads 2 and 10, `MaxSize` of 1 and 2 packets and of 7, 12, 20 and 40 bytes, 5 sends | `CountersAgree`; from a guarded queue only frames longer than the MTU are discarded, in byte mode (`OnlyLongFramesDiscarded`); if `MaxSize` admits an MTU and every frame, a stopped queue has a frame behind one in transmission (`StoppedIsServed`) and is woken (`StoppedQueueIsWoken`) |
| `CodecStrings` | packets of 1 to 14 bytes, the real 8 bytes of padding, `strlen` up to 2 bytes beyond a buffer | which streams are given to `inflate` whole, by their length and first zero, and that a string then is restored (`StringRestored`) |
| `SetFill` | 3 calls, `uint32_t` scaled to 4 bits, patterns of 0 to 5 bytes, data of 0 to 15 | `InsideBuffer`, `Repeated`, `Returns` |
| `Client` | 8 rows, `uint32_t` scaled to 5 bits, `MaxPackets` 0, 1, 7, 8, 15, 16, 26 and 31, fills of a row and one byte less and more | number and kind of packets (`SendPlan`, `AllSent`); rows inside the array for one `MaxPackets` only (`RowsFitOnce`); where the copied row does not fit the buffer (`CopyFits`) and where the sizes differ (`SizesAgree`); `EventHasSocket` |
| `Experiment` | trains of 3; server with `MaxPackets` 3, 1 and `U16`; path of 1/3 or 7/3 intervals; up to 2 losses; each event 0 or 1 ms; threshold 8, the most work such a host has in a window; no other clients, those of `project1.cc`, or one that pauses in the second window alone | own pause in no window (short path, no loss) and never in the second (`PauseNeverDetected`); foreign pauses are measured and cancel as far as the windows have the same number (`PausesCancel`), and then give no false alarm (`NoFalseAlarm`); one loss tolerated and no more (`MeasuredInTime`); the spare packet opens the second window (`SparePacketOpensWindow`); when the first train ends (`FirstTrainEnds`); a positive verdict only on measured windows (`DetectedIsMeasured`) |

Runs that find a disagreement between the code and what is said about it (each
checks that one statement; `PROJECT.json`, `findings`, quotes it):

| Run | Statement | What the code does |
|---|---|---|
| `DeviceAssertion` | PPP number defined | `AddHeader (packet, 0x0021)` passes a PPP number where an EtherType is wanted; the packet goes up with protocol 0 |
| `CodecRestores` | inflate returns the original data | a packet is cut off behind its first zero byte, and comes out 8 bytes longer than it went in |
| `ClientRows` | the array has 6000 rows | with `MaxPackets` 6000 row 6000 is read |
| `ClientRandomFile` | the file is read into the array | not on the run that creates it |

What the passing properties say of unusual settings, most of them exactly on both
sides of a boundary:

- `RowsFitOnce`: only `MaxPackets` 5999 keeps every copied row inside the array.
  With less, the first row of the second train lies before it.
- `CopyFits`: after `SetFill` with less than 1024 bytes every packet of the first
  train is copied past the end of `m_data`; the second train is safe.
- `SendPlan`: from `MaxPackets` 2^31 on the second train has one packet, as it
  has for 0; at 2^32 - 1 the first train does not end; at 2^32 - 2 the second does
  not, because `m_sent_l` wraps after its first packet and the counting starts again.
- `FirstTrainEnds`: a server with `MaxPackets` 65536 ends the first train after
  65536 packets, one with 1 never.
- `StoppedIsServed`, `StoppedQueueIsWoken` need that `MaxSize` admits an MTU and every
  frame. The other side is no property, but the reason: a `MaxSize` in bytes that admits an MTU
  but not a compressed frame stops an idle device's queue for ever. So does one below
  an MTU, even if all packets are short: the dequeue trace asks for room for an MTU,
  which an empty queue does not have either.
- `PausesCancel`, `NoFalseAlarm`: with the start times of `project1.cc` as many foreign
  pauses fall into one window as into the other. A client that started late enough
  to pause in the second window alone would be measured as a compressing link,
  if the pause is longer than the threshold: the third set of start times in the run,
  without which no state would meet the precondition of `DetectedIsMeasured`.
- `StringRestored`: a stream whose first zero comes late is cut by `Decompress`, so that a
  string that deflates badly need not come back: a stream that fills its frame up to a byte is cut
  whatever its zeros, since its first two bytes are none. If neither the stream nor the rest
  of the frame has a zero, `strlen` exceeds the size, the difference wraps, and
  `inflate` gets all.
- `SparePacketOpensWindow`: the packet reported as "Got first high entropy
  packet" (`udp-app-server.cc:236`) is the last low-entropy one.

Further disagreements that are plain in one line of the code and have no run:
`MaxPackets` is documented as the maximum sent (`udp-app-client.cc:53`) and
`2 * MaxPackets + 1` are; `Send` asserts `m_dataSize == m_size` (`:365`) after
setting only the former (`:451`), which `SizesAgree` delimits; what `SetFill`
puts in `m_data` is overwritten before the first packet (`:349`); the constructor
clears a local `lowPackets` that shadows the member that is sent (`:107`); the
server answers with a fresh packet of its own size (`udp-app-server.cc:274`)
where its header says the packet is sent back; and since trains are timed with
the host's clock, a host whose work for one train exceeds the threshold may give a
positive verdict on its own.

*Bounds.* A queue limit of 2 with 4 to 6 sends reaches a queue that is empty,
partly full, full, refused and drained again, twice over; the second device only
has to show that directions do not mix. In `TimedLink` a short frame after a long
one, events due together (a completion and a reception, two receptions) and a
wire with several frames all occur. The sizes of `TransmitQueue` keep the two
real overheads and put a limit on each side of the MTU and of the longest frame.
`Codec` needs packets longer than the shortest stream (9 bytes) and no more. The
applications depend on the trains' lengths only through comparisons with
`m_count`, so 3 or 7 packets meet every branch and each boundary from both sides.
`U32` and `U16` are the moduli of the counters, scaled with them. `SendBound`
exceeds the longest plan, so it never hides a packet, except for the two clients
that do not stop.

*Deadlock* is not checked: sends are bounded, applications stop, and a
simulation ends when its event queue is empty.

*Fairness.* `TransmitComplete` and `Receive` are weakly fair per device, `Send`
of the client likewise: each is an event given to
`Simulator::Schedule`, and the simulator executes every event it holds — for the
devices `TimedLink` checks that this fairness follows from running the event
queue. In `TransmitQueue` the end of a transmission is such an event, in
`SetFill` a loop that is entered is executed. Nothing is assumed of the upper
layers' `Send`, of `Attach` or of `DoInitialize`.

## 4. Proofs

Every safety property of the passing runs, invariants and action properties, is
proved for all values of the constants, and the safety of both refinements. A few
invariants are only stated by theorems, because a run checks what they are for:
`StoppedMeansFull` (what waking rests on), `ClientTypeOK`, and `OneLossTolerated`,
which `MeasuredInTime` has in simulated time. The assumptions are the named ones of the modules, which TLC evaluates in every run. Those that are more than
types: the traffic is bounded (`MaxSends`, `SendBound`: any number), the modulus of
`uint32_t` is even, more than twice the array's rows and not less than twice that
of `uint16_t`, which is more than 1; the transmission times, gaps and costs of an
event have each a maximum; both ends of a link differ.

### The device

`PointToPointNetDevice_proofs`, for every pair of devices, queue limit, number of
sends, set of protocols, set of compressing ends, with and without flow control
and receive errors:

| Theorem | Property |
|---|---|
| `TypeCorrect` | `TypeOK` |
| `TxMachineCorrect` | `TxMachine` |
| `NoFrameStranded` | `NoStrandedFrame` |
| `StoppedOnlyWhenFull` | `StoppedMeansFull` |
| `DiscardsAtMostOne` | `AtMostOneDiscard` |
| `FlowControlCorrect` | `FlowControlHolds` |
| `WokenByFirstDequeue` | `FirstDequeueWakes` |
| `NothingLost` | `Conservation` |

`TypeOK` is inductive once the frame operators have their types (lemmas
`FramedType`, `UnframedType`, over the finite translation table). The next
six follow from `TransmitterOK`, which says of each device (`DeviceOK`) that
its machine state, current packet and completion count agree; that an idle
transmitter has an empty queue; that a stopped queue is full, on a transmitting
device whose traces are connected; and that a queue that has discarded once is
guarded, which bounds the discards. None of these parts is inductive alone:
`StoppedMeansFull` needs that a completion on an empty queue does not find it
stopped (the queue limit is positive), `AtMostOneDiscard` needs that a guarded
queue stays guarded until no sender is let through to a full one. `OtherUntouched`
carries the invariant over to the device a step does not concern, so the step
proof has one case per action for the device it does. `WokenByFirstDequeue` is what
that invariant says of one step: a stopped queue belongs to a transmitting device, so
that `Send` cannot start a transmission and only a completion takes a frame.

`NothingLost` is `Conservation` with the journey counted leg by leg (`Balance`,
inductive given `TypeOK`): `BalanceMoved` says that a step keeps it when what it
adds to the calls of `Send` equals what it adds to drops, queue, wire and
deliveries together, and `BalanceStep` computes those amounts for each action.

### The link

| `FifoLink_proofs` | Property |
|---|---|
| `DevicesAreLink` | `Spec => Link!LSafeSpec`: the safety of `ImplementsFifoLink` |
| `PacketsInOrder` | `InOrder` |
| `CompressionNeverStops` | `CompressionSticks` |
| `OthersCrossUnaltered` | `OthersUnaltered` |

`StepOnLink` says what a step of the devices does to the packets under way between
them: it accepts one at the end of the channel, delivers or loses the one at its
head, or leaves them alone, whatever it does to queue, machine and wire. With it
the refinement is one case per kind of step, and none per action.

The other three need an invariant (`LinkOK`) about a device's `Trail`: of every
frame from what was passed up to the last in the queue, its packet and whether it
was compressed because of its protocol. That is all that `Receive` leaves unchanged
of a frame, so that a delivery keeps the trail, a loss takes one element out of it
and an accepted packet is appended (`TrailStep`). `TrailOK` says of any two elements
that the first was sent first and that, if it was compressed, the second one is too
unless its protocol differs (`Before`); and of each one that it was only compressed
as a packet of the sender's `m_protocol` (`MarkOK`), which is set once. `FramesOK`
says what a frame under way may be, given its packet and its sender's configuration:
from it follows what the peer's `Receive` makes of it.

### The event queue

| `TimedLink_proofs` | Property |
|---|---|
| `EventsRunDevices` | `TimedSafeSpec => Spec`: the safety of `ImplementsDevices` |
| `EventsRunLink` | `TimedSafeSpec => Link!LSafeSpec` |
| `WireIsQueue` | `WireInEventOrder` |
| `OneCompletion` | `CompletionIsCurrent` |
| `ReceptionsApart` | `FramesDoNotOverlap` |
| `FramesArriveInTime` | `Punctual` |
| `HeldBackForAFrame` | `WokenWithinAFrame` |
| `HeldBackUntilDequeue` | `TimedSafeSpec => FirstDequeueWakes` |

`EventsOK` describes the event queue by the state of the devices, four times for
each device: at most one completion is pending, and it is the current frame's
(`Completes`); the receptions at the peer are, in their order, the frames of the
wire, each at least its own transmission time after the one before (`OnWire`); a
frame arrives no later than the propagation delay from now or from the end of its
transmission (`Leaves`), so that the next one, which starts after that, cannot catch
up with it; and the time a frame has been under way is bounded by its place
(`Timely`), so that the last place of a full queue gives `WaitLimit`. It is proved
along with the device's invariants, since what is scheduled depends on the transmit
machine. Two facts carry the refinement: a completion is executed only while the
device transmits, and the reception that `EventKey` puts first is that of the
wire's first frame (`FirstArrives`), also when several are due together, because
they were scheduled in this order. `Remain` is what is left of the queue when the
executed event is taken out of it.

The last two are one statement about flow control, the bounded form of `StoppedIsWoken`:
a completion is due within one transmission and one gap whenever a queue is stopped,
and it wakes it. The first is `Completes` for a device that is stopped, hence
transmitting; the second is the theorem of the untimed devices, carried over by
`EventsRunDevices`.

### The transmit queue

| `TransmitQueue_proofs` | Property |
|---|---|
| `CountersCorrect` | `CountersAgree` |
| `DiscardsOnlyLongFrames` | `OnlyLongFramesDiscarded` |
| `StoppedWaitsForFrame` | `StoppedIsServed` |

`CountersAgree` is inductive with the types. Its proof needs what `Bytes`, a
recursive function, computes: the sum of an appended frame, of a queue without its
head, and that it is a natural number. These facts are proved by induction on the
place in the queue, in the form of a least counterexample (`LeastNumber`, from the
well-foundedness of `<` on the naturals, and `UpTo`): running sums exist
(`SumsExist`), are unique (`SumsUnique`), and are therefore what the recursive
definition chooses (`BytesAre`). `Enqueued`, `Dequeued` and `Flushed` are then the
three changes of the counters. `DiscardsOnlyLongFrames` follows with
`GuardedAfterDequeue`: with less in the queue there is room where there was room,
so that a dequeue trace that does not wake the queue leaves it stopped.
`StoppedIsServed` is inductive with two more facts (`Serving`): only a connected trace
stops a queue, and an idle device has an empty one. It holds because a dequeue that
leaves nothing wakes (`EmptyIsWoken`) and an empty queue refuses nothing, which is
where the hypothesis `AdmitsEveryFrame` is needed, for an MTU as well as for each frame.

### The codec

`Codec_proofs` (`StringsAreRestored`: `StringRestored`) assumes that sizes, and what
`strlen` may read beyond them, fit a `uint32_t` and that the packet's buffer can be
allocated. The invariant has the ranges of the stream's length and first zero, and that of
a string everything is deflated (`WholeString`). The proof is about one subtraction
(`InflateInType`): the size less `strlen` is what it says up to the size, and more than any
frame beyond it, so that `inflate` is given the whole stream exactly in the two cases of
`StreamIsGiven`.

### The client

| Module | Theorem | Property |
|---|---|---|
| `SetFill_proofs` | `CopiesInsideBuffer` | `InsideBuffer` |
| | `PatternRepeated` | `Repeated` |
| | `LoopAdvances` | every iteration takes `filled` one pattern on, inside the data |
| | `EmptyPatternNeverReturns` | with an empty pattern every step is another iteration |
| `UdpAppClient_proofs` | `ClientTypeCorrect` | `ClientTypeOK` |
| | `SocketForEveryEvent` | `EventHasSocket` |
| | `TrainsAsPlanned` | `SendPlan` |
| | `CopiesThatFit` | `CopyFits` |
| | `RowsFitOneTrain` | `RowsFitOnce` |
| | `SizesAgreeInFirstTrain` | `SizesAgree` |

`SetFill_proofs` is the proof of a loop: at its head the first `filled` bytes
repeat the pattern (`Repeats`) and the bytes just before `filled` are one whole
pattern (`LastPattern`), which is why the next copy continues the repetition. Both
hold while the sum of the data and pattern sizes does not exceed the width
(`NoWrap`), which the code never checks. `LoopAdvances` is the variant of that loop,
from which `Returns` follows once iterations are executed; `EmptyPatternNeverReturns`
shows that its hypothesis is needed.

`UdpAppClient_proofs` needs that `m_sent_l` counts the packets until it wraps
(`Counted`), that a pending event means a packet is still planned (`Plan`), that
the data size is set from the pause on (`Sources`, `Sizes`), and the row of every
packet up to the wrap (`RowsCounted`). What the branches of `Send` do at the
boundaries is one lemma, `SendCounts`.

### The measurement

| `Experiment_proofs` | Property |
|---|---|
| `ExperimentRunsClient` | `Spec => ClientSpec`: the composition adds no behaviour to the client |
| `TrainsByLength` | `FirstTrainEnds` |
| `VerdictNeedsBothTrains` | `DetectedIsMeasured` |
| `OneLossIsTolerated` | `OneLossTolerated` |
| `SparePacketFirst` | `SparePacketOpensWindow` |
| `PauseNotInSecondWindow` | `PauseNeverDetected` |
| `OwnPauseNotMeasured` | `OwnPauseInNoWindow` |
| `OtherPausesMeasured` | `PausesCancel` |
| `PausesRaiseNoAlarm` | `NoFalseAlarm` |
| `VerdictIsMeasured` | `MeasuredInTime` |

Through `ExperimentRunsClient` the client's invariants hold in the composition. `EInv`
adds what the server and the network know: how its counters follow from the number
of arrivals, up to the first packet too many (`Counting`); that what was sent has
arrived, is on its way or is lost (`Travelling`), with nothing reordered; and how
far the clock has come in the second window (`SecondWindow`). The last one explains
why the client's own pause is never in that window: the packet that opens it
is the last of the first train or a later one, the pause is over when that one
arrives, and from then on the clock gains at most `MaxCost` with every packet sent
or received.

That the pause is not in the first window either depends on simulated time, and
needs `TInv`: events happen in the order of their times (`InTime`), so that with a
path shorter than the interval the client is never more than one packet ahead of
the server (`InStep`); and a window has gained `MaxCost` per packet and `Sleep` for
each of the other clients that has paused since it opened (`BothWindows`), which are
those with a pause between its first and its last arrival.

`PausesCancel` is about the other direction too: a window is at least as long as the
pauses strictly inside it. `SleptWindows` states that of an open window and of the
two durations, for any path and any start times; a pause at the very time of an
arrival may fall on either side of it, which is why two sets of pauses are counted
(`PausesBetween`, `PausesWithin`) and lemmas bound how each changes with a step
(`GainPauses`, `SleptPauses`). With the upper bounds of `BothWindows` the difference of
the durations is that of the pauses, up to the host's work (`SleepsSubtract`).
`NoFalseAlarm` then needs only that a positive verdict is given on the durations as
they are (`VerdictAtEnd`).

`MeasuredInTime` puts the counting into time (`VInv`): nothing arrives later than the
packet sent last would (`LastArrival`), so that at the stop everything has been sent and
has arrived or is lost (`StopsAfterAll`), and the server's counters are determined by
the number of losses (`AllAccountedFor`).

### Model-checked only

- `StoppedIsWoken`, `StoppedQueueIsWoken`, `AllSent`, `Returns` and
  the fairness in `ImplementsFifoLink` and `ImplementsDevices`: liveness is out of
  the prover's reach. For the first, `StoppedOnlyWhenFull` and `TxMachineCorrect`
  prove what it rests on, a completion is pending whenever a queue is stopped, and
  `HeldBackForAFrame` with `HeldBackUntilDequeue` the bound in simulated time; for the
  others `StoppedWaitsForFrame`, `TrainsAsPlanned` and `LoopAdvances` prove the
  safety they need.
- The runs that find a disagreement: each shows one behaviour.

## 5. Not modelled, and why

- zlib's bytes: the library is not in this repository. `Codec` has the lengths
  and the zero bytes that this code looks at.
- Byte queue limits (`m_queueLimits`): the device sets none, and the body of the
  class is not in this repository.
- Trace sinks, promiscuous callback, `DoMpiReceive`, `DoDispose`: they pass on or
  forget, and change no state another operation reads.
- The traffic control layer's queue disc, which is not in this repository. Waking
  it is "done by invoking the wake callback" (`src/ns3/net-device-queue-interface.h:79-84`)
  inside `Dequeue`; what it sends is taken to be a later `Send`. A queue disc that
  called `Send` at once would find the machine READY inside `TransmitComplete`.
- Topology and routing, beyond what is said above. Of the helpers, the state that
  `Install` leaves behind: its steps run before the simulation, in one order, on
  objects nothing else knows yet.
- `src/model/point-to-point-compression-net-device.*` and `src/copies/`: old
  versions no `wscript` builds. `src/model/project1.*`, `src/test/`,
  `src/example1.cc`: stubs.
- `src/ns3/` (some 900 headers, the installed interface of the simulator) and
  `src/nlohmann/`: third-party. Most bodies are not there; of those that are, the
  queue, its sizes, the device-queue interface and the order of events decide
  what this code does and are modelled. The repository's own code is a few
  thousand of its lines, so that the share of all lines that the models stand
  for stays small however complete they are.

## 6. Plan

What the models leave to do:

1. *Waking synchronously*: `Dequeue` calls the queue disc, which calls `Send`
   inside `TransmitComplete` — once the queue disc's code is at hand.
2. *Losses in the windows*: with losses the windows shift, and which pauses they then
   contain is bounded only for the client's own (`PauseNeverDetected`).
3. *One queue*: `TransmitQueue` and the queue of `PointToPointNetDevice` are two models of
   the same code. A refinement between them would say little: the totals the first
   keeps have no counterpart in the second, whose frames have no sizes.
4. *Larger instances* of `Experiment`, with reordering networks, which neither
   program has.
