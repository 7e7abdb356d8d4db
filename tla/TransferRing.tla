---------------------------- MODULE TransferRing ----------------------------
(***************************************************************************)
(* The bulk OUT pipeline (src/transport/transfer_ring.cpp): a source is cut  *)
(* into chunks, each under a permit, with up to Depth of them in flight.      *)
(*                                                                         *)
(* The ring runs on one thread.  pump() is one step per chunk, since permits *)
(* and the backend change between two of them; the other calls are one step. *)
(* The backend accepts, rejects or throws, and completes what it accepted in  *)
(* any order, once, with any outcome, or never.                              *)
(***************************************************************************)
EXTENDS Naturals, FiniteSets, FiniteSetsExt

CONSTANTS Totals,       \* sizes of the source
          ChunkSize, Depth

ASSUME RingAssumption ==
    Totals \subseteq Nat /\ ChunkSize \in Nat \ {0} /\ Depth \in Nat \ {0}

VARIABLES
    ring,          \* the members of TransferRing
    pumping,       \* pump() is between two chunks
    backend,       \* identifiers the backend has yet to complete
    accepted,      \* history: source bytes the backend took charge of
    delivered,     \* history: source bytes a completion confirmed
    requeued,      \* history: source bytes whose permit settled as not_submitted
    held           \* permit bytes granted and not yet settled

ringVars == <<ring, pumping>>
backendVars == <<backend, accepted, delivered>>
permitVars == <<requeued, held>>
vars == <<ringVars, backendVars, permitVars>>

InFlightBytes == MapThenSumSet(LAMBDA e : e.bytes, ring.in_flight)

NoError == [kind |-> "none", certainty |-> "not_sent"]

Span(offset, n) == {b \in offset..(offset + n) : b < offset + n}

NewRing == [state |-> "idle", error |-> NoError, total_bytes |-> 0, next_offset |-> 0,
            next_id |-> 1, in_flight |-> {}, successful_segments |-> {},
            completed_bytes |-> 0, completion_watermark |-> 0]

Init ==
    /\ ring = NewRing
    /\ pumping = FALSE
    /\ backend = {} /\ accepted = {} /\ delivered = {}
    /\ requeued = {} /\ held = 0

-----------------------------------------------------------------------------
(* What the calls make of the ring's members                               *)

\* Defect of current_certainty.
MutNotSentUntilConfirmed(r) ==
    IF r.total_bytes # 0 /\ r.completion_watermark = r.total_bytes THEN "fully_transferred"
    ELSE IF r.completion_watermark = 0 THEN "not_sent"
    ELSE "partial_or_unknown"

current_certainty(r) ==
    IF r.total_bytes # 0 /\ r.completion_watermark = r.total_bytes THEN "fully_transferred"
    ELSE IF r.next_offset = 0 THEN "not_sent"
    ELSE "partial_or_unknown"

settle_terminal_state(r) ==
    LET Ended(s) == [r EXCEPT !.state = s, !.error.certainty = current_certainty(r)]
    IN CASE r.in_flight # {} -> r
         [] r.state = "running" /\ r.next_offset = r.total_bytes -> [r EXCEPT !.state = "completed"]
         [] r.state = "cancelling" -> Ended("cancelled")
         [] r.state = "draining_failure" -> Ended("failed")
         [] OTHER -> r

begin_failure(r, kind) ==
    LET first == [kind |-> kind, certainty |-> current_certainty(r)]
    IN settle_terminal_state(
         [r EXCEPT !.error = IF @.kind = "none" THEN first ELSE @,
                   !.state = IF @ = "running" THEN "draining_failure" ELSE @])

\* The watermark moves to the first byte that no successful segment covers.
record_success(r, offset, n) ==
    LET segments == r.successful_segments \cup {[offset |-> offset, bytes |-> n]}
        covered == UNION {Span(s.offset, s.bytes) : s \in segments}
        watermark == Min({b \in r.completion_watermark..r.total_bytes : b \notin covered})
    IN [r EXCEPT !.successful_segments = {s \in segments : s.offset >= watermark},
                 !.completed_bytes = @ + n,
                 !.completion_watermark = watermark]

-----------------------------------------------------------------------------
(* start, pump, cancel, the destructor                                     *)

\* A configuration the ring cannot run fails it before anything is sent.
start ==
    /\ ring.state = "idle"
    /\ \/ /\ ring' = [ring EXCEPT !.state = "failed",
                                  !.error = [kind |-> "invalid_configuration",
                                             certainty |-> "not_sent"]]
          /\ UNCHANGED pumping
       \/ \E n \in Totals :
            /\ ring' = [ring EXCEPT !.total_bytes = n,
                                    !.state = IF n = 0 THEN "completed" ELSE "running"]
            /\ pumping' = (n # 0)
    /\ UNCHANGED <<backendVars, permitVars>>

\* Also the retry of wait_for_permit_until.
pump ==
    /\ ~pumping /\ ring.state = "running"
    /\ pumping' = TRUE
    /\ UNCHANGED <<ring, backendVars, permitVars>>

maximum_chunk == Min({ring.total_bytes - ring.next_offset, ChunkSize})

MorePermitted ==
    /\ ring.state = "running" /\ Cardinality(ring.in_flight) < Depth
    /\ ring.next_offset < ring.total_bytes

PumpEnds(r) == pumping' = FALSE /\ ring' = settle_terminal_state(r)

\* The loop's condition fails, or no permit is to be had.
PumpStops ==
    /\ pumping
    /\ PumpEnds(ring)
    /\ UNCHANGED <<backendVars, permitVars>>

\* The provider grants nothing or too much, or the source cannot be read: the
\* permit goes back unused.
PumpFails ==
    /\ pumping /\ MorePermitted
    /\ \E kind \in {"invalid_configuration", "source_read"} : PumpEnds(begin_failure(ring, kind))
    /\ requeued' = requeued \cup Span(ring.next_offset, maximum_chunk)
    /\ UNCHANGED <<backendVars, held>>

Submission(n) == [id |-> ring.next_id, offset |-> ring.next_offset, bytes |-> n]

WithEntry(n) == [ring EXCEPT !.next_id = @ + 1, !.in_flight = @ \cup {Submission(n)}]

Accept(n) ==
    /\ backend' = backend \cup {ring.next_id}
    /\ accepted' = accepted \cup Span(ring.next_offset, n)
    /\ UNCHANGED delivered

PumpSubmits ==
    /\ pumping /\ MorePermitted
    /\ \E n \in 1..maximum_chunk :
         /\ Accept(n)
         /\ ring' = [WithEntry(n) EXCEPT !.next_offset = @ + n]
         /\ held' = held + n
    /\ UNCHANGED <<pumping, requeued>>

\* Defect of PumpRejected.
MutRejectedStaysInFlight ==
    /\ pumping /\ MorePermitted
    /\ \E n \in 1..maximum_chunk :
         /\ PumpEnds(begin_failure(WithEntry(n), "submit"))
         /\ requeued' = requeued \cup Span(ring.next_offset, n)
    /\ UNCHANGED <<backendVars, held>>

PumpRejected ==
    /\ pumping /\ MorePermitted
    /\ \E n \in 1..maximum_chunk :
         /\ PumpEnds(begin_failure([ring EXCEPT !.next_id = @ + 1], "submit"))
         /\ requeued' = requeued \cup Span(ring.next_offset, n)
    /\ UNCHANGED <<backendVars, held>>

\* Defect of PumpThrows.
MutThrowMeansRejected ==
    /\ pumping /\ MorePermitted
    /\ \E n \in 1..maximum_chunk :
         /\ Accept(n) \/ UNCHANGED backendVars
         /\ PumpEnds(begin_failure([ring EXCEPT !.next_id = @ + 1], "submit_io"))
         /\ requeued' = requeued \cup Span(ring.next_offset, n)
    /\ UNCHANGED held

\* submit() throws, before or after the backend took the chunk: the entry stays
\* in flight.
PumpThrows ==
    /\ pumping /\ MorePermitted
    /\ \E n \in 1..maximum_chunk :
         /\ Accept(n) \/ UNCHANGED backendVars
         /\ PumpEnds(begin_failure([WithEntry(n) EXCEPT !.next_offset = @ + n], "submit_io"))
         /\ held' = held + n
    /\ UNCHANGED requeued

cancelled(r) ==
    IF r.state # "running" THEN r
    ELSE settle_terminal_state(
           [r EXCEPT !.state = "cancelling",
                     !.error = [kind |-> "user_cancelled", certainty |-> current_certainty(r)]])

cancel ==
    /\ ~pumping /\ ring.state = "running"
    /\ ring' = cancelled(ring)
    /\ UNCHANGED <<pumping, backendVars, permitVars>>

\* The permits still in flight settle as partial_or_unknown.
Destroy ==
    /\ ~pumping /\ ring.state \notin {"idle", "destroyed"}
    /\ ring' = [ring EXCEPT !.state = "destroyed", !.in_flight = {}]
    /\ held' = held - InFlightBytes
    /\ UNCHANGED <<pumping, backendVars, requeued>>

-----------------------------------------------------------------------------
(* handle_completion                                                       *)

\* What a completion says of n bytes; a count above n is invalid.
Completion(n) ==
    [code : {"success", "cancelled", "error"}, transferred_bytes : 0..(n + 1)]

\* Defect of After.
MutShortSuccessCounts(r, e, done) ==
    IF done.transferred_bytes > e.bytes THEN begin_failure(r, "invalid_completion")
    ELSE IF done.code = "success" THEN record_success(r, e.offset, e.bytes)
    ELSE IF done.code = "cancelled" /\ r.state \in {"cancelling", "draining_failure"} THEN r
    ELSE begin_failure(r, "completion")

After(r, e, done) ==
    IF done.transferred_bytes > e.bytes THEN begin_failure(r, "invalid_completion")
    ELSE IF done.code = "success" /\ done.transferred_bytes = e.bytes
    THEN record_success(r, e.offset, e.bytes)
    ELSE IF done.code = "success" THEN begin_failure(r, "partial_transfer")
    ELSE IF done.code = "cancelled" /\ r.state \in {"cancelling", "draining_failure"} THEN r
    ELSE begin_failure(r, "completion")

\* A completion of no entry of the ring is dropped.
handle_completion ==
    /\ ~pumping
    /\ \E id \in backend :
         /\ backend' = backend \ {id}
         /\ \/ /\ \A e \in ring.in_flight : e.id # id
               /\ UNCHANGED <<ring, pumping, delivered, held>>
            \/ \E e \in ring.in_flight : \E done \in Completion(e.bytes) :
                 LET r == After([ring EXCEPT !.in_flight = @ \ {e}], e, done)
                 IN /\ e.id = id
                    /\ delivered' = IF done.transferred_bytes > e.bytes THEN delivered
                                    ELSE delivered \cup Span(e.offset, done.transferred_bytes)
                    /\ held' = held - e.bytes
                    /\ pumping' = (r.state = "running")
                    /\ ring' = IF pumping' THEN r ELSE settle_terminal_state(r)
    /\ UNCHANGED <<accepted, requeued>>

-----------------------------------------------------------------------------
PumpStep == PumpStops \/ PumpFails \/ PumpSubmits \/ PumpRejected \/ PumpThrows

\* The ring is gone and the backend owes it nothing.
Terminated == ring.state = "destroyed" /\ backend = {} /\ UNCHANGED vars

Next == start \/ pump \/ PumpStep \/ cancel \/ handle_completion \/ Destroy \/ Terminated

Spec == Init /\ [][Next]_vars

-----------------------------------------------------------------------------
(* Properties                                                              *)

States == {"idle", "running", "cancelling", "draining_failure", "completed", "cancelled",
           "failed", "destroyed"}
Terminal == {"completed", "cancelled", "failed"}

\* Every member has its type, and no more than Depth chunks are in flight.
TypeOK ==
    /\ ring.state \in States
    /\ ring.error.certainty \in {"not_sent", "partial_or_unknown", "fully_transferred"}
    /\ ring.total_bytes \in Totals \cup {0} /\ ring.next_offset \in 0..ring.total_bytes
    /\ ring.completion_watermark \in 0..ring.next_offset
    /\ ring.completed_bytes \in 0..ring.next_offset
    /\ Cardinality(ring.in_flight) \in 0..Depth
    /\ \A e \in ring.in_flight : e.id \in 1..(ring.next_id - 1) /\ e.bytes \in 1..ChunkSize
    /\ pumping \in BOOLEAN /\ held \in Nat

\* The certainty of an error is the truth at any time, drained or not: not_sent
\* means that the backend took charge of no byte, fully_transferred that a
\* completion confirmed every byte (current_certainty, transfer_ring.cpp:501-509).
CertaintyTrue ==
    ring.error.kind # "none" =>
        /\ ring.error.certainty = "not_sent" => accepted = {}
        /\ ring.error.certainty = "fully_transferred" => delivered = Span(0, ring.total_bytes)

\* A completed ring has had all of its source confirmed, and a progress
\* watermark never covers a byte that was not, whatever the order of the
\* completions (record_success, settle_terminal_state).
ProgressTrue ==
    /\ Span(0, ring.completion_watermark) \subseteq delivered
    /\ ring.state = "completed" => ring.completion_watermark = ring.total_bytes

\* Bytes that the scheduler is told to dispatch again were never in the
\* backend's hands (transfer_ring.cpp:372-391).
RequeuedNeverSent == requeued \cap accepted = {}

\* Every permit is settled once: what is held is what is in flight.
PermitsSettleOnce == held = InFlightBytes

=============================================================================
