------------------------ MODULE UsbFastbootTransport ------------------------
(***************************************************************************)
(* UsbFastbootTransport (src/transport/usb_fastboot.cpp): serialized reads   *)
(* and writes over one claimed interface.  Every write runs a TransferRing   *)
(* of its own against the same backend, while other threads may cancel or    *)
(* close the transport, the deadline may pass and the event loop may die.    *)
(*                                                                         *)
(* The ring's members and the backend are those of module TransferRing; a    *)
(* step of pump() is a step of the writing thread here.                      *)
(***************************************************************************)
EXTENDS TransferRing

CONSTANT MaxOperations      \* bound on the reads and writes of one behaviour

ASSUME OperationBound == MaxOperations \in Nat

VARIABLES
    open, cancellation_requested,
    permit_provider,        \* a permit provider is configured
    permits_cancelled,      \* its cancel_wait() was called
    accepting, closed,      \* the backend takes submissions; it was stopped
    event_terminal,         \* the libusb event loop has died
    expired,                \* the deadline has passed
    pc,                     \* the thread inside read() or write()
    use_provider,           \* this write's snapshot of the provider
    previous_watermark,
    result,
    operations,
    canceller, closer,      \* positions in request_cancel() and close()
    dirty                   \* history: an operation left the pipe between messages

flags == <<open, cancellation_requested, permits_cancelled, accepting, closed>>
provision == <<permit_provider, use_provider>>
outside == <<event_terminal, expired>>
threads == <<canceller, closer>>
usbVars == <<vars, flags, provision, outside, pc, previous_watermark, result, operations, threads,
             dirty>>

NoResult == [op |-> "none", status |-> "Ok", certainty |-> "FullyTransferred"]

UsbInit ==
    /\ Init
    /\ open = TRUE /\ cancellation_requested = FALSE /\ permits_cancelled = FALSE
    /\ accepting = TRUE /\ closed = FALSE
    /\ permit_provider \in BOOLEAN /\ use_provider = FALSE
    /\ event_terminal = FALSE /\ expired = FALSE
    /\ pc = "idle" /\ previous_watermark = 0 /\ result = NoResult /\ operations = 0
    /\ canceller = 0 /\ closer = 0 /\ dirty = FALSE

-----------------------------------------------------------------------------
(* From a ring's error to a result.                                        *)

transfer_certainty(c) ==
    CASE c = "not_sent" -> "NotTransferred"
      [] c = "fully_transferred" -> "FullyTransferred"
      [] c = "partial_or_unknown" -> "PartialOrUnknown"

\* The ring's kinds "submit" and "completion" stand for several native codes.
transport_status(kind) ==
    CASE kind = "submit" -> {"Disconnected", "IoError"}
      [] kind = "completion" -> {"Disconnected", "Timeout", "IoError"}
      [] kind = "user_cancelled" -> {"Cancelled"}
      [] OTHER -> {"IoError"}

\* Defect of ring_certainty: without an error nothing is known to be sent.
MutSilentRingSentNothing(r) ==
    IF r.completion_watermark = 0 THEN "NotTransferred"
    ELSE IF r.error.kind = "none" THEN "FullyTransferred"
    ELSE transfer_certainty(r.error.certainty)

\* Defect of ring_certainty: the ring's own vocabulary leaks out.
MutUntranslated(r) == r.error.certainty

ring_certainty(r) ==
    IF r.error.kind # "none" THEN transfer_certainty(r.error.certainty)
    ELSE IF r.completion_watermark = 0 THEN "NotTransferred" ELSE "PartialOrUnknown"

ring_status(r, fallback) ==
    IF r.error.kind = "none" THEN {fallback} ELSE transport_status(r.error.kind)

observer_cancel_certainty(r) ==
    IF r.total_bytes # 0 /\ r.completion_watermark = r.total_bytes THEN "FullyTransferred"
    ELSE IF r.next_offset = 0 THEN "NotTransferred" ELSE "PartialOrUnknown"

\* Defect of classify_requested_cancellation: the ring's status stands.
MutKeepRingStatus(status) == status

classify_requested_cancellation(status) == IF cancellation_requested THEN "Cancelled" ELSE status

Return(op, status, certainty) ==
    /\ pc' = "idle"
    /\ result' = [op |-> op, status |-> status, certainty |-> certainty]

\* Defect of poison_and_stop: the transport stays open.
MutStopOnly ==
    /\ accepting' = FALSE /\ closed' = TRUE
    /\ backend' \in {backend, {}}
    /\ UNCHANGED open

\* stop() drains the backend, or gives up and quarantines it.
poison_and_stop ==
    /\ open' = FALSE /\ accepting' = FALSE /\ closed' = TRUE
    /\ backend' \in {backend, {}}

\* A failed write: the ring r is destroyed after the backend has been stopped.
WriteFails(r, status, certainty) ==
    /\ Return("write", status, certainty)
    /\ poison_and_stop
    /\ ring' = [r EXCEPT !.state = "destroyed", !.in_flight = {}]
    /\ pumping' = FALSE /\ held' = 0
    /\ dirty' = (dirty \/ accepted # {})
    /\ UNCHANGED <<accepted, delivered, requeued, cancellation_requested, permits_cancelled,
                   provision, outside, previous_watermark, operations, threads>>

-----------------------------------------------------------------------------
(* write() and write_source().                                             *)

\* Up to the first step of the ring.
BeginWrite ==
    /\ pc = "idle" /\ operations < MaxOperations
    /\ operations' = operations + 1
    /\ ring' = NewRing /\ accepted' = {} /\ delivered' = {} /\ requeued' = {}
    /\ \/ /\ ~open /\ pc' = "refused_write"
          /\ UNCHANGED <<backend, flags, use_provider, result, dirty>>
       \/ /\ \/ Return("write", "IoError", "NotTransferred")      \* no memory, or null source
             \/ open /\ Return("write", "Ok", "FullyTransferred") \* empty source
          /\ UNCHANGED <<backend, flags, use_provider, dirty>>
       \/ /\ open /\ expired
          /\ Return("write", "Timeout", "NotTransferred") /\ poison_and_stop
          /\ UNCHANGED <<cancellation_requested, permits_cancelled, use_provider, dirty>>
       \/ /\ open /\ ~expired /\ pc' = "start"
          /\ use_provider' \in {FALSE, permit_provider}
          /\ UNCHANGED <<backend, flags, result, dirty>>
    /\ UNCHANGED <<pumping, held, permit_provider, outside, previous_watermark, threads>>

\* The refusal reads the cancellation flag after it has read open.
Refused(op) ==
    /\ Return(op, IF cancellation_requested THEN "Cancelled" ELSE "Disconnected", "NotTransferred")
    /\ UNCHANGED <<vars, flags, provision, outside, previous_watermark, operations, threads, dirty>>

StartRing ==
    /\ pc = "start"
    /\ start /\ ring'.state # "completed"
    /\ pc' = "started"
    /\ UNCHANGED <<flags, provision, outside, previous_watermark, result, operations, threads, dirty>>

\* Who may grant and who may accept while a step of pump() runs.
GrantPossible == use_provider => ~permits_cancelled

Pumping ==
    /\ pc \in {"started", "pumped", "permit", "observe"}
    /\ \/ PumpStops
       \/ PumpFails /\ GrantPossible
       \/ PumpSubmits /\ GrantPossible /\ accepting
       \/ PumpRejected /\ GrantPossible
       \/ PumpThrows /\ GrantPossible /\ (accepting \/ backend' = backend)
    /\ UNCHANGED <<flags, provision, outside, pc, previous_watermark, result, operations, threads,
                   dirty>>

\* std::bad_alloc out of the ring.
OutOfMemory ==
    /\ pumping
    /\ WriteFails(ring, classify_requested_cancellation("IoError"),
                  IF ring.next_offset # 0 THEN "PartialOrUnknown" ELSE "NotTransferred")

Goto(place) ==
    /\ pc' = place
    /\ UNCHANGED <<vars, flags, provision, outside, previous_watermark, result, operations, threads,
                   dirty>>

\* start() returned false, or the loop's condition is tested.
Started ==
    /\ pc = "started" /\ ~pumping
    /\ Goto(IF ring.state \in {"running", "completed"} THEN "loop" ELSE "ended")

\* The head of the loop.  An empty pipeline is pumped again, a full one waits.
Loop ==
    /\ pc = "loop"
    /\ \/ ring.state # "running" /\ Goto("ended")
       \/ ring.state = "running" /\ ring.in_flight # {} /\ Goto("wait")
       \/ /\ ring.in_flight = {} /\ pump /\ pc' = "pumped"
          /\ UNCHANGED <<flags, provision, outside, previous_watermark, result, operations, threads,
                         dirty>>

\* Only a ring that still runs without a chunk in flight looks for a permit; one
\* that failed in this pump() goes on to the completion wait.
Pumped ==
    /\ pc = "pumped" /\ ~pumping
    /\ Goto(IF ring.in_flight = {} /\ ring.state = "running" THEN "starved" ELSE "wait")

\* wait_for_permit_until: ready pumps, anything else is examined.
PermitWait ==
    /\ pc = "starved" /\ use_provider
    /\ \/ /\ ~permits_cancelled /\ pump /\ pc' = "permit"
          /\ UNCHANGED <<flags, provision, outside, previous_watermark, result, operations, threads,
                         dirty>>
       \/ (permits_cancelled \/ expired) /\ Goto("permit")

submitted == Cardinality(ring.in_flight) > (IF ring.error.kind = "submit_io" THEN 1 ELSE 0)

\* A wait that brought nothing is repeated unless cancelled or too late.
PermitReturned ==
    LET given_up == ~submitted /\ (cancellation_requested \/ expired)
    IN /\ pc = "permit" /\ ~pumping
       /\ \/ ~given_up /\ Goto("loop")
          \/ given_up /\ WriteFails(cancelled(ring),
                                    IF cancellation_requested THEN "Cancelled" ELSE "Timeout",
                                    ring_certainty(cancelled(ring)))

\* Defect of BudgetPoll: the poll has no deadline.
MutPollForever == pc = "starved" /\ ~use_provider /\ Goto("loop")

\* Without a provider the budget is polled until the deadline.
BudgetPoll ==
    /\ pc = "starved" /\ ~use_provider
    /\ \/ ~expired /\ Goto("loop")
       \/ expired /\ WriteFails(cancelled(ring), classify_requested_cancellation("Timeout"),
                                ring_certainty(cancelled(ring)))

\* wait_for_completion returns a completion.
CompletionArrives ==
    /\ pc = "wait" /\ handle_completion
    /\ previous_watermark' = ring.completion_watermark /\ pc' = "observe"
    /\ UNCHANGED <<flags, provision, outside, result, operations, threads, dirty>>

\* It returns without one: too late, stopped, or the event loop is dead.
WaitFails ==
    /\ pc = "wait"
    /\ \E status \in (IF expired THEN {"Timeout"} ELSE {})
                         \cup (IF closed \/ event_terminal THEN {"IoError"} ELSE {}) :
         WriteFails(cancelled(ring), classify_requested_cancellation(status),
                    ring_certainty(cancelled(ring)))

\* The progress observer, called when the watermark has moved.
Observe ==
    /\ pc = "observe" /\ ~pumping
    /\ \/ Goto("loop")
       \/ /\ ring.completion_watermark > previous_watermark
          /\ \/ WriteFails(cancelled(ring), "IoError", ring_certainty(cancelled(ring)))
             \/ WriteFails(cancelled(ring), "Cancelled",
                           observer_cancel_certainty(cancelled(ring)))

\* After the loop.
Ended ==
    /\ pc = "ended"
    /\ \/ /\ ring.state = "completed" /\ Return("write", "Ok", "FullyTransferred")
          /\ UNCHANGED <<vars, flags, provision, outside, previous_watermark, operations, threads,
                         dirty>>
       \/ /\ ring.state # "completed"
          /\ \E status \in ring_status(ring, "IoError") :
               WriteFails(ring, classify_requested_cancellation(status), ring_certainty(ring))

write_source_impl ==
    \/ pc = "refused_write" /\ Refused("write")
    \/ StartRing \/ Pumping \/ OutOfMemory \/ Started \/ Loop \/ Pumped \/ PermitWait
    \/ PermitReturned \/ BudgetPoll \/ WaitFails \/ Observe \/ Ended

-----------------------------------------------------------------------------
(* read() and read_data().                                                 *)

BeginRead ==
    /\ pc = "idle" /\ operations < MaxOperations
    /\ operations' = operations + 1
    /\ \/ /\ ~open /\ pc' = "refused_read"
          /\ UNCHANGED <<backend, flags, result, dirty>>
       \/ /\ open /\ expired
          /\ Return("read", "Timeout", "NotTransferred") /\ poison_and_stop
          /\ UNCHANGED <<cancellation_requested, permits_cancelled, dirty>>
       \/ /\ open /\ ~expired /\ pc' = "read"
          /\ UNCHANGED <<backend, flags, result, dirty>>
    /\ UNCHANGED <<ringVars, accepted, delivered, permitVars, provision, outside,
                   previous_watermark, threads>>

\* The backend's answer: how the read ended, whether it returns bytes, whether the
\* message was cut at the end of the destination.
read_result(code, moved, truncated) ==
    [status |-> IF code = "success" THEN "Ok" ELSE code,
     certainty |-> CASE code = "success" -> "FullyTransferred"
                     [] code # "success" /\ ~moved -> "NotTransferred"
                     [] code # "success" /\ moved -> "PartialOrUnknown",
     closes |-> code # "success" \/ truncated]

ReadReturns(code, moved, truncated) ==
    LET answer == read_result(code, moved, truncated)
    IN /\ pc = "read"
       /\ Return("read", answer.status, answer.certainty)
       /\ \/ answer.closes /\ poison_and_stop
          \/ ~answer.closes /\ UNCHANGED <<open, accepting, closed, backend>>
       /\ dirty' = (dirty \/ truncated \/ code # "success")
       /\ UNCHANGED <<ringVars, accepted, delivered, permitVars, cancellation_requested,
                      permits_cancelled, provision, outside, previous_watermark, operations, threads>>

\* The device answers, in full or with more than there is room for, or the transfer
\* fails.  (A zero-length packet by itself is read over.)
ReadEnds ==
    \/ ReadReturns("success", TRUE, FALSE)
    \/ ReadReturns("IoError", TRUE, TRUE)
    \/ \E code \in {"Disconnected", "IoError"}, moved \in BOOLEAN : ReadReturns(code, moved, FALSE)

\* The deadline, a stopped backend or a dead event loop ends the read; what the
\* transfer brings after that is lost.
ReadInterrupted ==
    \/ \E moved \in BOOLEAN :
         \/ expired /\ ReadReturns("Timeout", moved, FALSE)
         \/ ~accepting /\ ReadReturns("Cancelled", moved, FALSE)
    \/ ~accepting /\ ReadReturns("Disconnected", FALSE, FALSE)
    \/ event_terminal /\ ReadReturns("IoError", FALSE, FALSE)

read ==
    \/ ReadEnds \/ ReadInterrupted
    \/ pc = "refused_read" /\ Refused("read")

-----------------------------------------------------------------------------
(* Other threads and the world.                                            *)

Elsewhere == <<vars, outside, pc, previous_watermark, result, operations>>

\* Four steps of another thread; none of them waits for the operation.
request_cancel ==
    /\ canceller < 4
    /\ canceller' = canceller + 1
    /\ \/ canceller = 0 /\ cancellation_requested' = TRUE
            /\ UNCHANGED <<open, permits_cancelled, accepting>>
       \/ canceller = 1 /\ open' = FALSE
            /\ UNCHANGED <<cancellation_requested, permits_cancelled, accepting>>
       \/ canceller = 2 /\ permits_cancelled' = permit_provider
            /\ UNCHANGED <<open, cancellation_requested, accepting>>
       \/ canceller = 3 /\ accepting' = FALSE
            /\ UNCHANGED <<open, cancellation_requested, permits_cancelled>>
    /\ UNCHANGED <<Elsewhere, closed, provision, closer, dirty>>

\* close() from another thread; completions already queued stay to be taken.
close ==
    /\ closer < 2
    /\ closer' = closer + 1
    /\ \/ closer = 0 /\ open' = FALSE /\ UNCHANGED <<accepting, closed>>
       \/ closer = 1 /\ accepting' = FALSE /\ closed' = TRUE /\ UNCHANGED open
    /\ UNCHANGED <<Elsewhere, cancellation_requested, permits_cancelled, provision, canceller, dirty>>

configure_transfer_permits ==
    /\ pc = "idle" /\ open /\ ~permit_provider
    /\ permit_provider' = TRUE
    /\ UNCHANGED <<Elsewhere, flags, use_provider, threads, dirty>>

\* The event loop's error also ends the acceptance of submissions.
EventLoopDies ==
    /\ ~event_terminal /\ event_terminal' = TRUE /\ accepting' = FALSE
    /\ UNCHANGED <<vars, open, cancellation_requested, permits_cancelled, closed, provision, expired,
                   pc, previous_watermark, result, operations, threads, dirty>>

DeadlinePasses ==
    /\ ~expired /\ expired' = TRUE
    /\ UNCHANGED <<vars, flags, provision, event_terminal, pc, previous_watermark, result,
                   operations, threads, dirty>>

AllDone == pc = "idle" /\ operations = MaxOperations /\ UNCHANGED usbVars

UsbNext ==
    \/ BeginWrite \/ write_source_impl \/ CompletionArrives \/ BeginRead \/ read
    \/ request_cancel \/ close \/ configure_transfer_permits
    \/ EventLoopDies \/ DeadlinePasses \/ AllDone

UsbSpec == UsbInit /\ [][UsbNext]_usbVars

\* The calling thread runs, and deadlines pass.  Neither the device nor the
\* backend has to answer.
UsbFairSpec ==
    /\ UsbSpec
    /\ WF_usbVars(write_source_impl) /\ WF_usbVars(ReadInterrupted)
    /\ WF_usbVars(pc = "refused_read" /\ Refused("read"))
    /\ WF_usbVars(DeadlinePasses)

-----------------------------------------------------------------------------
(* Properties.                                                             *)

\* Every variable has its type, those of the ring included.
UsbTypeOK ==
    /\ TypeOK
    /\ \A b \in {open, cancellation_requested, permit_provider, permits_cancelled, accepting, closed,
                 event_terminal, expired, use_provider, dirty, pumping} : b \in BOOLEAN
    /\ pc \in {"idle", "refused_write", "refused_read", "start", "started", "loop", "pumped",
               "starved", "permit", "wait", "observe", "ended", "read"}
    /\ result.status \in {"Ok", "Timeout", "Cancelled", "Disconnected", "IoError"}
    /\ result.certainty \in {"NotTransferred", "FullyTransferred", "PartialOrUnknown"}
    /\ operations \in 0..MaxOperations /\ canceller \in 0..4 /\ closer \in 0..2

\* What a write reports is what happened, on every way out of the loop:
\* NotTransferred means the backend took charge of no byte, FullyTransferred that
\* every byte was confirmed (write_source_impl, ring_failure).
WriteCertaintyTrue ==
    (pc = "idle" /\ result.op = "write") =>
        /\ result.certainty = "NotTransferred" => accepted = {}
        /\ result.certainty = "FullyTransferred" => delivered = Span(0, ring.total_bytes)
        /\ result.status = "Ok" => result.certainty = "FullyTransferred"

\* An open transport between two operations owes the device nothing and has nothing
\* in flight.  The next ring numbers its chunks from 1 again, so a completion left
\* over would be taken for one of its own (poison_and_stop on every failing path).
OpenMeansClean == (pc = "idle" /\ open) => backend = {} /\ ~dirty

\* A write that fails after request_cancel() has begun says so: no Timeout, IoError or
\* Disconnected hides the cancellation (classify_requested_cancellation and its
\* callers).  Two exceptions: the caller's own observer failed, which is an IoError
\* (usb_fastboot.cpp:580-590); or the write was turned away on entry, for want of
\* memory, of a source or of time, with nothing of it submitted (lines 386-397, 428-436,
\* 449-458).
CancelledWriteSaysSo ==
    [][(/\ pc' = "idle" /\ (pc # "idle" \/ operations' # operations)
        /\ result'.op = "write" /\ result'.status # "Ok" /\ cancellation_requested)
         => \/ result'.status = "Cancelled"
            \/ pc = "observe" /\ result'.status = "IoError"
            \/ /\ pc = "idle" /\ accepted' = {} /\ result'.certainty = "NotTransferred"
               /\ result'.status = "IoError" \/ (expired /\ result'.status = "Timeout")]_usbVars

\* Every read and write returns, though neither device nor backend may ever answer
\* (the deadline in every wait of write_source_impl and read).
OperationsReturn == []<>(pc = "idle")

\* A source that cannot be read is an IoError, unless cancelled: the expectation of
\* test_usb_source_read_failure_poison_and_certainty.
SourceFailureIsIoError ==
    (/\ pc = "idle" /\ result.op = "write" /\ ring.error.kind = "source_read"
     /\ ~cancellation_requested) => result.status = "IoError"
=============================================================================
