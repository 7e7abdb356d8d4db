# A TLA+ model of KairosBoot

KairosBoot is a C++23 host library for Android Fastboot: it finds devices, opens
a USB or network transport to one of them, speaks the Fastboot protocol and runs
flashing operations in the background. This directory holds TLA+ models of its
parts, the TLC configurations that check them on small instances, and proofs
checked by TLAPS. `PROJECT.json` maps every definition to the lines it models.

## The system and its parts

| part | source | module | state |
|---|---|---|---|
| operation state machine | `src/api/operation_state.cpp` | `OperationState`, `OperationContract` | phase, error, hook registration, stop source, worker and handle threads |
| transfer buffer budget | `src/transport/buffer_budget.cpp` | `BufferBudget` | used and peak counters, leases, observers |
| controller scheduler | `src/fleet/controller_scheduler.cpp` | `ControllerScheduler` | flows, cursors, permits, generation counter, rings that wait |
| Fastboot session | `src/protocol/fastboot_protocol.cpp` | `FastbootSession` | session state, poison error, the running operation, the device |
| transfer ring | `src/transport/transfer_ring.cpp` | `TransferRing` | chunks in flight, watermark, error, permits |
| USB transport | `src/transport/usb_fastboot.cpp` | `UsbFastbootTransport` (on `TransferRing`) | open and cancelled flags, the write loop, the backend's acceptance |
| UDP transport | `src/transport/udp_fastboot.cpp` | `UdpFastboot` | sequence number, the running exchange, the network, the target |
| reconnect coordinator | `src/fastboot/reconnect_coordinator.cpp` | `ReconnectCoordinator` | attempts, selected device, certainty, clock and deadline |
| libusb runtime | `src/transport/libusb_runtime.cpp` | planned | pending transfers, event thread |
| TCP transport | `src/transport/tcp_fastboot.cpp` | planned | frames, socket |
| reconnect adapters, device connection | `src/fastboot/libusb_reconnect_adapters.cpp`, `device_connection.cpp` | planned | one-shot opens, probe |
| update executor, plan and device | `src/fastboot/update_*.cpp`, `primitive_update_device.cpp` | planned | tasks, prepared tokens, session generation |
| file receive | `src/fastboot/file_receive_service.cpp`, `src/protocol/file_transfer_sink.cpp` | planned | private file, committed bytes, destination |
| images | `src/image/` | sparse splitting planned | |
| C API | `src/kairosboot.cpp` | planned | device leases, shared USB runtime |

A call of the C API takes the device's lease and creates an `OperationState`,
whose worker opens a transport, wraps it in a `FastbootSession` and runs commands
through `PrimitiveService`. A payload goes from the session to
`UsbFastbootTransport`, which drives one `TransferRing` per write. The ring takes
its buffers from the process-wide `BufferBudget` or, when several devices share a
controller, from permits of the `WeightedControllerScheduler`, and hands chunks
to libusb. Cancelling an operation calls a hook that reaches the transport from
another thread. An update that needs fastbootd reboots the device and lets the
`ReconnectCoordinator` find it again.

What makes this hard to test: cancellation arriving between any two steps of a
transfer; completions out of order; calls that fail after having done part of
their work, and the certainty (`NotTransferred`, `PartialOrUnknown`,
`FullyTransferred`) reported then; a device that answers out of protocol; waits
whose wakeup comes from another thread; and budgets shared between rings.
`PROJECT.json` lists these hazards at their lines, with the properties that cover
them.

## The modules

**OperationState.** Handle threads call `start`, `cancel`, `wait`, `wait_for`; an
owner destroys the handle; a worker runs the task. An action is one critical
section of `mutex_` or one step outside of it, so a hook copied under the lock is
called in a later step. A thread that sleeps on a condition variable is in
`asleep` until a `notify_all`. The task is any behaviour that the interface
allows: it registers and releases hooks, returns any outcome, or throws. History
variables count the calls to each hook and record whether the task was entered.

**OperationContract** is what the handle promises: an operation is created, runs,
may be cancelled, and ends once, each in one step. `ImplementsContract` states
that `OperationState` implements it.

**BufferBudget.** Each thread runs `try_acquire`, holds a lease and releases it.
The load, the compare-and-exchange, the peak's exchange, the allocation, the
release and the two critical sections of `release_charge` are separate actions.
Observers are weak pointers that expire when their owner drops them.

**ControllerScheduler.** Rings acquire, submit, settle and wait for permits the
way `TransferRing::pump` and the USB write loop do; providers are cancelled and
flows retired by other threads; other users of the budget take and return bytes.
`try_acquire` looks at `cancelled_` in a step before `acquire_for` takes the mutex.
A fleet (devices, controllers, sizes, who is cancelled, retired or late, how much
others hold) is chosen in the initial state and stays.
The generation counter is represented by the set of rings whose reading of it is
current, which keeps the state space finite without a bound.

**FastbootSession.** One operation at a time runs through its phases: command
write, responses, data, final response. Each transport call returns any result
the transport contract allows, and some it does not, together with how many units
really arrived. The device answers in any order, and may send INFO or FAIL while the
host is still writing the payload it asked for; it is silent after OKAY or FAIL until
the next command, and between the units of data it sends itself. Bytes are abstracted
to units, so a write can be cut anywhere. A result carries the inbound fields with
the defaults of `ProtocolError`, and `poison_error` is what the session recorded,
which need not be what the call returned.

**TransferRing.** `pump` is split at its calls to the permit provider, the source
and the backend. The backend accepts, rejects or throws; a throwing `submit` may
or may not have accepted; completions come in any order, short, long, failed or
cancelled. History variables record what the backend accepted and delivered and
which bytes were given back to the scheduler as unsent.

**UsbFastbootTransport** extends `TransferRing`: each write makes a new ring on the
same backend and its loop pumps, waits for a permit, for the budget or for a
completion, and calls the observer. Every wait is a position of the writing thread;
`request_cancel`, `close`, the deadline and the death of the libusb event loop may
come at any of them. `request_cancel` and `close` are split at their own critical
sections. Reads are one call to the backend, which answers or is interrupted in the
ways `process_read_raw` and `State::read` of the libusb runtime allow; what a ring's
backend accepts and completes is likewise taken from that runtime's `submit` and
`process_one_raw`, whose event thread is not modelled.
A history variable says whether an operation left the pipe between two messages.
A ring's `cancel_wait` on
its provider is not tracked: the transport is closed in the same step.

**UdpFastboot.** `exchange_message` is split where it calls the socket: head of an
attempt, send, receive. The network holds datagrams that may arrive any number of
times or never; each ages by one whenever the host moves to a new sequence number
and is gone after `Lifetime` of them. The target is external: it takes the sequence
number it expects, repeats its last answer to the one before, and answers with any
payload, continuation or error. Units are numbered, so that a unit taken twice, out
of order or not at all is visible. The caller stops after a result in doubt, as
`FastbootSession` does.

**ReconnectCoordinator.** One action per step of a round: scan, selection, exclusive
open, verification, publication, backoff. Discovery returns any set of devices; a
device at the selected port may have been replaced, or changed its mode, when it is
opened. Deadline and attempt limits are arguments, each of which may be absent, as in
the public interface's defaults. With a deadline the clock takes any reading up to it;
without one only the order of two readings in a row matters, and that is all that is
kept. An `open` that reports a certainty outside of the enumeration is included.

## The runs

| run | shows |
|---|---|
| `operation` | type invariant; a hook is called at most once and never after its registration is reset; a terminal operation has no task and no running hook; a cancelled operation that reports NOT_SENT never entered its task; the contract is implemented; a cancelled operation ends, waiting threads and the destructor return |
| `budget` | counter equals the charges and the peak covers it, live storage is charged, no observer registered before a release is missed |
| `scheduler` | over four fleets: every byte is remaining, permitted or gone; a waiting ring is overtaken a bounded number of times; a sleeping ring always has something to wait for; a flow with an unknown outcome, or whose canceller has returned, is granted nothing more; every ring ends |
| `session` | a Ready session is at a command boundary with its device; outbound and inbound certainty are true of what arrived; every operation returns |
| `session_inbound` | finding 4 below |
| `ring` | bytes given back as unsent were not sent; the reported certainty is true; progress is a delivered prefix; each permit settles once |
| `usb` | a write's certainty is true on every way out; an open transport has nothing in flight; a cancelled write says so, unless the caller's observer failed or the write was turned away on entry; every read and write returns, though the backend never answers |
| `usb_source_failure` | finding 1 below |
| `udp` | each unit is taken once and in order in both directions, host and target agree on the next sequence number, one number never stands for two datagrams, a write's certainty is true, and every call returns, though nothing arrives or the target announces more for ever |
| `udp_unacknowledged` | finding 2 below |
| `reconnect` | a published session is the device asked for; after an open that sent bytes only a known device is retried; an error after an open carries its certainty, but for the head of a round that follows a probe of the original device; a reconnect with a deadline ends though attempts are unlimited, one without ends once cancelled |
| `reconnect_certainty` | finding 3 below |

Bounds. Two calling threads and two hooks let every pair of calls meet around a
running hook. A limit of 5 with requests 0, 2 and 3 lets two leases live together,
with and without room to spare, acquisitions conflict, fill the budget exactly and be
refused. Two rings of sizes 2 and 3 with chunk and
depth 2 reach partial grants, a full pipeline and an exhausted budget, with a
canceller for one of them. The same two with 1 and 2 bytes and one permit each meet an
outside user of the budget and a deadline; a single ring meets that user, its
canceller, its retirement and its deadline together. Three flows on two controllers,
dispatched without rings, are the least in which a controller's turn passes.
Commands of 2 units and
payloads of 0 to 3 with a limit of 2 reach empty, cut, exact and oversized
transfers. The ring's totals 0, 3 and 4 with chunks of 2 give an empty transfer, a
short last chunk and an exact division. The USB write of 3 units in chunks of 2 has
a full and a short chunk in flight together, and two operations show what the first
leaves to the second. For UDP three sequence numbers, starting from the last, wrap
within one operation, and a lifetime of one lets every datagram arrive once more
after its exchange; a write of 2 units takes one or two fragments, as negotiated,
and a read is one piece, with or without a continuation: at most one inbound unit is
in question at a time, so it is for writes that the order of units is put to the test.
The reconnect's deadline of 4 with waits of 1 to 3 allows several rounds and a last
wait that is cut. It is checked alone, with 2 scans, with 2 opens, with a limit of zero,
which is refused, and against a call with neither deadline nor limits.

Fairness. The worker, a thread inside `cancel()`, a thread that is awake in
`wait()` and the destructor's join are scheduled fairly by the operating system.
A task is assumed to return once stop is requested, which every task in
`kairosboot.cpp` does through its hook and its transport timeouts; it need not
return otherwise. A ring's own steps and a canceller's are fair, an added flow is
given its provider, and other users of the budget return what they took. They may
take it again, so where they exist `RingsEnd` claims an end only for rings that are
cancelled or late. A session's operation is fair because each
transport call is bounded by its timeout; nothing is assumed of the device. In the
transports the calling thread runs and deadlines pass; completions, datagrams and
the target owe nothing. The coordinator's own steps are fair. Its clock advances
because a wait that elapses without doing so is an error; nobody is assumed to
cancel.

## What is proved

`OperationStateProofs` proves, for any sets of threads and hooks, the invariants
of the run `operation` and the refinement. The assumptions are those of the
module: the owner is not a caller and `NoHook` is not a hook.

No property is inductive alone. `HookCalledAtMostOnce` needs to know that at most
one thread ever holds a copied hook (`OneCanceller`: `cancel_requested` is set in
the critical section that copies it), that the registered hook was never called
(`Uncalled`), and that the hook a worker is about to call itself was never
registered (`HookFollowsWorker`). `TerminalIsQuiescent` needs the phase to follow
the worker's position (`PhaseFollowsWorker`), and `NotSentMeansNotEntered` needs
the places an error with NOT_SENT can come from (`NotSentSource`). Their
conjunction `IInv` holds initially and is preserved by every action; the lemma
has one step per action and one per conjunct the action disturbs. The refinement
follows from `IInv` and one step per action, most of which stutter.

Only model-checked: all liveness properties (proofs under fairness are out of the
prover's reach), and every property of the other modules so far.

## Findings

1. `usb_source_failure`: when the first buffer has to be waited for and the source
   then fails, nothing is in flight, yet the write waits for a completion until its
   deadline and reports Timeout; the test of a failing source expects IoError.
2. `udp_unacknowledged`: a retransmission refused by the socket ends the exchange
   without poisoning the transport, although the first copy is unacknowledged; the
   loopback test says such a session is poisoned. The layer above stops because the
   certainty is PartialOrUnknown, which is why the run `udp` assumes that it does.
3. `reconnect_certainty`: after a round that probed a device still in its previous
   mode, an error at the head of the next round (cancellation, deadline, a limit, a
   clock that went back) is reported as NotTransferred, though
   `reconnect_coordinator.hpp:265-267` says that errors keep the certainty of the last
   open. `RoundKeepsCertainty` shows that this is the only exception.
4. `session_inbound`: when a receive has stored all its data and its final response
   fails, the returned error has the inbound outcome but the recorded one has not, so
   the Poisoned error of a later call says that no data were expected or stored;
   `fastboot_protocol.hpp:114-116` says that `inbound_expected` is set once a DATA
   response was accepted. `CertaintyTrue` shows that this is the only such error.

Two more behaviours are modelled as they are. A task that throws after sending is reported with `KB_TRANSFER_NOT_SENT`, so
`NotSentMeansNotEntered` is about cancelled operations only. After
`request_cancel` a USB write starved of budget returns at its deadline, because the
backend is stopped but not closed.

## Not modelled

Native libusb, sockets, files and USB topology are input and output: their
results appear as choices where the modelled code calls them. Message texts,
native error codes, telemetry and logging are left out. Descriptor, manifest and
image parsing is byte-level. `UsbFastbootTransport::open` and `adopt_verified`, UDP
endpoint parsing and name resolution, and the diagnostic fields of a reconnect error
are left out. Process termination on a failed allocation inside a
`noexcept` function is not modelled.

## Plan

1. `LibusbBackend` (event thread, zero packet, drain and quarantine), composed
   with the transport; `TcpFastboot`.
2. `UpdateExecutor` and the session actor of `PrimitiveUpdateDevice` over the
   coordinator; `FileReceive` with a crash between its steps; `DeviceLease`.
3. Pure algorithms: sparse splitting, slot planning, the adaptive tuner.
4. Proofs: the budget's accounting and limit, the ring's certainty, the session's
   command boundary, UDP's sequence agreement for every modulus, the coordinator's
   publication, and the type invariants of each.
