------------------------ MODULE ControllerScheduler ------------------------
(***************************************************************************)
(* The weighted deficit round-robin scheduler that hands transfer permits   *)
(* to devices (src/fleet/controller_scheduler.cpp), driven by one transfer  *)
(* ring per device the way UsbFastbootTransport::write_source_impl and       *)
(* TransferRing::pump drive their permit provider, over a buffer budget     *)
(* shared with users outside the scheduler.                                 *)
(*                                                                         *)
(* An action is one critical section of the scheduler's mutex, or one step  *)
(* a ring takes outside of it.  The generation counter appears as `fresh`,  *)
(* the devices whose last reading of it is still the current value.          *)
(***************************************************************************)
EXTENDS Naturals, Sequences, FiniteSets, FiniteSetsExt, SequencesExt

CONSTANTS Devices, Controllers,
          Weight,            \* [Devices -> Nat], DeviceFlowSpec::weight
          Depth,             \* TransferRingConfig
          Quantum, Limit,    \* scheduler quantum, budget limit
          Fleets             \* the fleets to look at: see Fleet

\* One fleet: its devices, the controller and bytes_remaining of each, those that
\* next() and finish() dispatch without a ring, a flow's max_outstanding and a ring's
\* chunk, the most bytes that other users of the budget hold, and the devices whose
\* flow is retired directly, whose transport is asked to cancel, whose deadline passes.
Fleet == [devices : SUBSET Devices, controller : [Devices -> Controllers],
          bytes : [Devices -> Nat], legacy : SUBSET Devices,
          max_outstanding : Nat \ {0}, chunk : 1..Limit, outside : Nat,
          may_retire : SUBSET Devices, may_cancel : SUBSET Devices,
          may_expire : SUBSET Devices]

ASSUME ConfigurationAssumption ==
    /\ Quantum \in Nat \ {0} /\ \A d \in Devices : Weight[d] \in Nat \ {0}
    /\ Depth \in Nat \ {0}
    /\ \A f \in Fleets : f \in Fleet /\ f.legacy \in {{}, f.devices}

VARIABLES
    fleet,     \* the one that runs; never changes
    \* guarded by the scheduler's mutex
    flow, order, cursor, controller_order, controller_cursor,
    \* the generation counter, and the budget's
    fresh, used, outside, outside_publishing,
    \* per device: ring position, permits in flight by size, the permit in the
    \* ring's hand, where to go after a refusal or a release
    pc, permits, hand, after,
    \* devices whose deadline passed, whose transport was asked to cancel,
    \* whose provider is cancelled, whose canceller has yet to retire the flow
    expired, cancellation_requested, cancelled, retiring,
    \* history: bytes of each flow that may have left and whether a chunk of it had an
    \* unknown outcome, and what each flow was granted while another was kept waiting
    gone, overtaken

flowVars == <<flow, order, cursor, controller_order, controller_cursor, gone>>
budgetVars == <<used, outside, outside_publishing>>
ringVars == <<pc, permits, hand, after>>
cancelVars == <<expired, cancellation_requested, cancelled, retiring>>
coreVars == <<flowVars, fresh, budgetVars, ringVars, cancelVars>>
vars == <<fleet, coreVars, overtaken>>

ControllerOf == fleet.controller
Bytes == fleet.bytes
Legacy == fleet.legacy
MaxOutstanding == fleet.max_outstanding
ChunkSize == fleet.chunk
OutsideMax == fleet.outside

Flow == [added : BOOLEAN, provider_attached : BOOLEAN, requested : BOOLEAN,
         retired : BOOLEAN, remaining : Nat, deficit : Nat, outstanding_count : Nat]

NoFlow == [added |-> FALSE, provider_attached |-> FALSE, requested |-> FALSE,
           retired |-> FALSE, remaining |-> 0, deficit |-> 0, outstanding_count |-> 0]

Pcs == {"none", "observe", "try", "acquire", "submit", "poll", "wait", "sleep", "check",
        "release", "publish", "abort", "drop", "done", "failed"}

Init ==
    /\ fleet \in Fleets
    /\ flow = [d \in Devices |-> NoFlow]
    /\ order = [c \in Controllers |-> <<>>] /\ cursor = [c \in Controllers |-> 0]
    /\ controller_order = <<>> /\ controller_cursor = 0
    /\ gone = [d \in Devices |-> [bytes |-> 0, unknown |-> FALSE]]
    /\ fresh = {} /\ used = 0 /\ outside = 0 /\ outside_publishing = FALSE
    /\ pc = [d \in Devices |-> "none"]
    /\ permits = [d \in Devices |-> [n \in 1..ChunkSize |-> 0]]
    /\ hand = [d \in Devices |-> 0] /\ after = [d \in Devices |-> "wait"]
    /\ expired = {} /\ cancellation_requested = {} /\ cancelled = {} /\ retiring = {}
    /\ overtaken = [d \in Devices |-> [e \in Devices |-> 0]]

\* signal_change(): the generation moves, so no reading of it is current.
signal_change == fresh' = {}

available == Limit - used
InFlight(d) == MapThenSumSet(LAMBDA n : permits[d][n], 1..ChunkSize)
Goto(d, p) == pc' = [pc EXCEPT ![d] = p]

-----------------------------------------------------------------------------
(* add_flow, make_permit_provider, retire                                  *)

add_flow(d) ==
    /\ d \in fleet.devices /\ ~flow[d].added
    /\ LET c == ControllerOf[d]
       IN /\ controller_order' = IF c \in Range(controller_order) THEN controller_order
                                 ELSE Append(controller_order, c)
          /\ order' = [order EXCEPT ![c] = Append(@, d)]
    /\ flow' = [flow EXCEPT ![d] = [NoFlow EXCEPT !.added = TRUE, !.remaining = Bytes[d]]]
    /\ UNCHANGED <<gone, cursor, controller_cursor, fresh, budgetVars, ringVars, cancelVars>>

\* The provider is handed to a ring, which starts to pump.
make_permit_provider(d) ==
    /\ d \notin Legacy /\ flow[d].added /\ ~flow[d].provider_attached
    /\ flow[d].outstanding_count = 0 /\ ~flow[d].retired
    /\ flow' = [flow EXCEPT ![d].provider_attached = TRUE]
    /\ Goto(d, "observe")
    /\ UNCHANGED <<gone, order, cursor, controller_order, controller_cursor, fresh, budgetVars,
                   permits, hand, after, cancelVars>>

Retired(d) == [flow EXCEPT ![d].retired = TRUE, ![d].requested = FALSE]

retire_flow(d) ==
    /\ d \in fleet.may_retire /\ flow[d].added /\ ~flow[d].retired
    /\ flow' = Retired(d)
    /\ signal_change
    /\ UNCHANGED <<gone, order, cursor, controller_order, controller_cursor, budgetVars,
                   ringVars, cancelVars>>

-----------------------------------------------------------------------------
(* next_for_controller                                                     *)

\* A flow the scan does not pass over.
Eligible(fl, d) ==
    /\ fl[d].remaining # 0 /\ ~fl[d].retired
    /\ fl[d].provider_attached => fl[d].requested
    /\ fl[d].outstanding_count < MaxOutstanding

\* The device at position i of controller c's ring of flows.
FlowAt(c, i) == order[c][1 + (i % Len(order[c]))]

\* Where the scan stops: the first eligible flow from the cursor on.
Scan(fl, c) ==
    CHOOSE i \in cursor[c]..(cursor[c] + Len(order[c]) - 1) :
        /\ Eligible(fl, FlowAt(c, i))
        /\ \A j \in cursor[c]..(i - 1) : ~Eligible(fl, FlowAt(c, j))

Position(c, i) == i % Len(order[c])

\* Defect of Deficit.
MutDeficitAlwaysRefilled(fl, d) == fl[d].deficit + Quantum * Weight[d]

\* The deficit the flow dispatches from: a quantum per unit of weight when it
\* has used up the last.
Deficit(fl, d) == IF fl[d].deficit = 0 THEN Quantum * Weight[d] ELSE fl[d].deficit

\* Defect of DispatchBytes.
MutDispatchIgnoresBudget(fl, d, maximum) ==
    Min({Deficit(fl, d), maximum, fl[d].remaining})

DispatchBytes(fl, d, maximum) ==
    Min({Deficit(fl, d), maximum, available, fl[d].remaining})

\* flows and cursor after device d was granted n bytes at position i.
Granted(fl, d, n) ==
    [fl EXCEPT ![d].outstanding_count = @ + 1,
               ![d].requested = IF fl[d].provider_attached THEN FALSE ELSE @,
               ![d].deficit = Deficit(fl, d) - n,
               ![d].remaining = @ - n]

\* No grant: budget exhausted or nobody eligible leaves everything alone;
\* another device's turn parks the cursor there.
Refused(fl, c, d) ==
    \/ /\ available = 0 \/ \A e \in Range(order[c]) : ~Eligible(fl, e)
       /\ UNCHANGED <<cursor, fresh, used, outside>> /\ flow' = fl
    \/ /\ available # 0 /\ \E e \in Range(order[c]) : Eligible(fl, e)
       /\ FlowAt(c, Scan(fl, c)) # d
       /\ cursor' = [cursor EXCEPT ![c] = Position(c, Scan(fl, c))]
       /\ UNCHANGED <<fresh, used, outside>> /\ flow' = fl

\* Another user of the budget acquires between available() and try_acquire():
\* the cursor has moved and the deficit may have been refilled for nothing.
Raced(fl, c, d, maximum) ==
    \E taken \in 1..OutsideMax, refilled \in BOOLEAN :
        /\ outside + taken <= OutsideMax /\ taken <= available
        /\ IF refilled THEN DispatchBytes(fl, d, maximum) > available - taken
                       ELSE available = taken
        /\ outside' = outside + taken /\ used' = used + taken
        /\ cursor' = [cursor EXCEPT ![c] = Position(c, Scan(fl, c))]
        /\ flow' = IF refilled THEN [fl EXCEPT ![d].deficit = Deficit(fl, d)] ELSE fl
        /\ UNCHANGED fresh

Grant(fl, c, d, maximum) ==
    LET i == Scan(fl, c)
        n == DispatchBytes(fl, d, maximum)
        granted == Granted(fl, d, n)
        spent == granted[d].remaining = 0 \/ granted[d].deficit = 0
    IN /\ flow' = granted
       /\ cursor' = [cursor EXCEPT ![c] = Position(c, IF spent THEN i + 1 ELSE i)]
       /\ used' = used + n
       /\ signal_change
       /\ UNCHANGED outside

Turn(fl, c, d) ==
    /\ available # 0 /\ \E e \in Range(order[c]) : Eligible(fl, e)
    /\ FlowAt(c, Scan(fl, c)) = d

-----------------------------------------------------------------------------
(* acquire_for, through PermitProvider::try_acquire, from TransferRing::pump *)

\* The pump loop: stop at the ring's depth or the end of the source, else read
\* the generation before asking for a permit.
Observe(d) ==
    /\ pc[d] = "observe"
    /\ IF flow[d].remaining = 0 \/ InFlight(d) >= Depth
       THEN Goto(d, IF InFlight(d) = 0 THEN "done" ELSE "poll") /\ UNCHANGED fresh
       ELSE Goto(d, "try") /\ fresh' = fresh \cup {d}
    /\ UNCHANGED <<flowVars, budgetVars, permits, hand, after, cancelVars>>

\* A refused ring polls its own completions, or has none and waits.
Denied(d) ==
    /\ Goto(d, IF InFlight(d) = 0 THEN after[d] ELSE "poll")
    /\ after' = [after EXCEPT ![d] = "wait"]
    /\ UNCHANGED hand

\* PermitProvider::try_acquire looks at cancelled_ before acquire_for takes the mutex.
try_acquire(d) ==
    /\ pc[d] = "try"
    /\ IF d \in cancelled THEN Denied(d) ELSE Goto(d, "acquire") /\ UNCHANGED <<hand, after>>
    /\ UNCHANGED <<flowVars, fresh, budgetVars, permits, cancelVars>>

acquire_for(d) ==
    /\ pc[d] = "acquire"
    /\ LET c == ControllerOf[d]
           asked == [flow EXCEPT ![d].requested = TRUE]
           refused == flow[d].retired \/ flow[d].remaining = 0
           full == flow[d].outstanding_count >= MaxOutstanding
       IN \/ /\ refused \/ full
             /\ flow' = IF refused THEN flow ELSE asked
             /\ Denied(d) /\ UNCHANGED <<cursor, fresh, used, outside>>
          \/ /\ ~refused /\ ~full
             /\ Denied(d)
             /\ \/ Refused(asked, c, d)
                \/ Turn(asked, c, d) /\ Raced(asked, c, d, ChunkSize)
          \/ /\ ~refused /\ ~full /\ Turn(asked, c, d)
             /\ Grant(asked, c, d, ChunkSize)
             /\ hand' = [hand EXCEPT ![d] = DispatchBytes(asked, d, ChunkSize)]
             /\ Goto(d, "submit") /\ UNCHANGED after
    /\ UNCHANGED <<gone, order, controller_order, controller_cursor, outside_publishing,
                   permits, cancelVars>>

\* backend_.submit accepts the chunk; the pump loop goes round.
Submit(d) ==
    /\ pc[d] = "submit"
    /\ permits' = [permits EXCEPT ![d][hand[d]] = @ + 1]
    /\ hand' = [hand EXCEPT ![d] = 0]
    /\ after' = [after EXCEPT ![d] = "wait"]
    /\ Goto(d, "observe")
    /\ UNCHANGED <<flowVars, fresh, budgetVars, cancelVars>>

-----------------------------------------------------------------------------
(* settle, then the release of the lease, then the signal                  *)

Outcome(g, n, result) ==
    [bytes |-> IF result = "not_submitted" THEN g.bytes ELSE g.bytes + n,
     unknown |-> g.unknown \/ result = "partial_or_unknown"]

\* Defect of settle.
MutSettleRequeuesUnknown(d, n, result) ==
    /\ flow' = [flow EXCEPT
           ![d].outstanding_count = @ - 1,
           ![d].remaining = IF result # "fully_transferred" THEN @ + n ELSE @,
           ![d].retired = @ \/ result = "partial_or_unknown",
           ![d].requested = @ /\ result # "partial_or_unknown"]
    /\ gone' = [gone EXCEPT ![d] = Outcome(@, n, result)]

\* settle() of one permit of d by n bytes; it signals nothing.
settle(d, n, result) ==
    /\ flow' = [flow EXCEPT
           ![d].outstanding_count = @ - 1,
           ![d].remaining = IF result = "not_submitted" THEN @ + n ELSE @,
           ![d].retired = @ \/ result = "partial_or_unknown",
           ![d].requested = @ /\ result # "partial_or_unknown"]
    /\ gone' = [gone EXCEPT ![d] = Outcome(@, n, result)]

ThenRelease(d, n, next) ==
    /\ hand' = [hand EXCEPT ![d] = n]
    /\ after' = [after EXCEPT ![d] = next]
    /\ Goto(d, "release")

\* backend_.submit rejects the chunk: nothing was sent, the ring fails.
Reject(d) ==
    /\ pc[d] = "submit"
    /\ settle(d, hand[d], "not_submitted")
    /\ ThenRelease(d, hand[d], "abort")
    /\ UNCHANGED <<order, cursor, controller_order, controller_cursor, fresh, budgetVars,
                   permits, cancelVars>>

\* A completion of one chunk: in full, or not, which fails the ring.
Complete(d) ==
    /\ pc[d] = "poll"
    /\ \E n \in 1..ChunkSize, result \in {"fully_transferred", "partial_or_unknown"} :
         /\ permits[d][n] # 0
         /\ permits' = [permits EXCEPT ![d][n] = @ - 1]
         /\ settle(d, n, result)
         /\ ThenRelease(d, n, IF result = "fully_transferred" THEN "observe" ELSE "abort")
    /\ UNCHANGED <<order, cursor, controller_order, controller_cursor, fresh, budgetVars,
                   cancelVars>>

\* The lease returns its charge, then calls on_buffer_budget_available.
ReleaseLease(d) ==
    /\ pc[d] = "release"
    /\ used' = used - hand[d]
    /\ hand' = [hand EXCEPT ![d] = 0]
    /\ Goto(d, "publish")
    /\ UNCHANGED <<flowVars, fresh, outside, outside_publishing, permits, after, cancelVars>>

\* Defect of PublishRelease.
MutPublishWithoutSignal(d) ==
    /\ pc[d] = "publish"
    /\ Goto(d, after[d])
    /\ after' = [after EXCEPT ![d] = "wait"]
    /\ UNCHANGED <<flowVars, fresh, budgetVars, permits, hand, cancelVars>>

PublishRelease(d) ==
    /\ pc[d] = "publish"
    /\ signal_change
    /\ Goto(d, after[d])
    /\ after' = [after EXCEPT ![d] = "wait"]
    /\ UNCHANGED <<flowVars, budgetVars, permits, hand, cancelVars>>

-----------------------------------------------------------------------------
(* wait_for_ready, and the loop around it in write_source_impl             *)

BeginWait(d) ==
    /\ pc[d] = "wait"
    /\ Goto(d, IF flow[d].retired THEN "check" ELSE "sleep")
    /\ UNCHANGED <<flowVars, fresh, budgetVars, permits, hand, after, cancelVars>>

\* The generation moved: ready, and the ring pumps, or retired meanwhile.
Wake(d) ==
    /\ pc[d] = "sleep" /\ d \notin fresh
    /\ Goto(d, IF flow[d].retired THEN "check" ELSE "observe")
    /\ after' = [after EXCEPT ![d] = "check"]
    /\ UNCHANGED <<flowVars, fresh, budgetVars, permits, hand, cancelVars>>

\* The deadline: a request still standing is withdrawn, which is signalled
\* because the cursor may be parked on it.
WaitTimeout(d) ==
    /\ pc[d] = "sleep" /\ d \in fresh /\ d \in expired
    /\ flow' = [flow EXCEPT ![d].requested = FALSE]
    /\ IF flow[d].requested THEN signal_change ELSE UNCHANGED fresh
    /\ Goto(d, "check")
    /\ UNCHANGED <<gone, order, cursor, controller_order, controller_cursor, budgetVars,
                   permits, hand, after, cancelVars>>

\* Not ready: give up when cancelled or late, else pump again.
CheckWait(d) ==
    /\ pc[d] = "check"
    /\ Goto(d, IF d \in cancellation_requested \cup expired THEN "abort" ELSE "observe")
    /\ after' = [after EXCEPT ![d] = "wait"]
    /\ UNCHANGED <<flowVars, fresh, budgetVars, permits, hand, cancelVars>>

\* wait_for_completion returns without one: stopped, or the deadline.
PollStops(d) ==
    /\ pc[d] = "poll" /\ d \in cancellation_requested \cup expired
    /\ Goto(d, "abort")
    /\ UNCHANGED <<flowVars, fresh, budgetVars, permits, hand, after, cancelVars>>

\* ring.cancel() or begin_failure(): cancel_wait retires the flow unless the
\* canceller got there first.
Abort(d) ==
    /\ pc[d] = "abort"
    /\ IF d \in cancelled THEN UNCHANGED <<flow, fresh>> ELSE flow' = Retired(d) /\ signal_change
    /\ cancelled' = cancelled \cup {d}
    /\ Goto(d, "drop")
    /\ UNCHANGED <<gone, order, cursor, controller_order, controller_cursor, budgetVars,
                   permits, hand, after, expired, cancellation_requested, retiring>>

\* After the backend stopped, the ring's destructor drops accepted permits.
DropPermits(d) ==
    /\ pc[d] = "drop"
    /\ IF InFlight(d) = 0
       THEN Goto(d, "failed") /\ UNCHANGED <<flow, gone, permits, hand, after>>
       ELSE \E n \in 1..ChunkSize :
              /\ permits[d][n] # 0
              /\ permits' = [permits EXCEPT ![d][n] = @ - 1]
              /\ settle(d, n, "partial_or_unknown")
              /\ ThenRelease(d, n, "drop")
    /\ UNCHANGED <<order, cursor, controller_order, controller_cursor, fresh, budgetVars,
                   cancelVars>>

-----------------------------------------------------------------------------
(* The canceller thread, the clock, legacy dispatch, other budget users    *)

\* UsbFastbootTransport::request_cancel sets its flag before anything else.
RequestCancel(d) ==
    /\ d \in fleet.may_cancel /\ flow[d].provider_attached /\ d \notin cancellation_requested
    /\ cancellation_requested' = cancellation_requested \cup {d}
    /\ UNCHANGED <<flowVars, fresh, budgetVars, ringVars, expired, cancelled, retiring>>

\* cancel_wait(): the exchange on cancelled_, then retire().
CancelWait(d) ==
    /\ d \in cancellation_requested /\ d \notin cancelled
    /\ cancelled' = cancelled \cup {d}
    /\ retiring' = retiring \cup {d}
    /\ UNCHANGED <<flowVars, fresh, budgetVars, ringVars, expired, cancellation_requested>>

\* Defect of CancelRetires: the request is withdrawn and cancelled_ left to keep the
\* ring out.
MutCancelWithdrawsOnly(d) ==
    /\ d \in retiring
    /\ flow' = [flow EXCEPT ![d].requested = FALSE]
    /\ signal_change
    /\ retiring' = retiring \ {d}
    /\ UNCHANGED <<gone, order, cursor, controller_order, controller_cursor, budgetVars,
                   ringVars, expired, cancellation_requested, cancelled>>

\* Defect of CancelRetires.
MutCancelWithoutSignal(d) ==
    /\ d \in retiring
    /\ flow' = Retired(d)
    /\ retiring' = retiring \ {d}
    /\ UNCHANGED <<gone, order, cursor, controller_order, controller_cursor, fresh, budgetVars,
                   ringVars, expired, cancellation_requested, cancelled>>

CancelRetires(d) ==
    /\ d \in retiring
    /\ flow' = Retired(d)
    /\ signal_change
    /\ retiring' = retiring \ {d}
    /\ UNCHANGED <<gone, order, cursor, controller_order, controller_cursor, budgetVars,
                   ringVars, expired, cancellation_requested, cancelled>>

DeadlinePasses(d) ==
    /\ d \in fleet.may_expire /\ flow[d].provider_attached /\ d \notin expired
    /\ expired' = expired \cup {d}
    /\ UNCHANGED <<flowVars, fresh, budgetVars, ringVars, cancellation_requested, cancelled,
                   retiring>>

\* The controller that is first in turn after the one at i.
NextController(i) == (i + 1) % Len(controller_order)

\* next(): the first controller in turn with an eligible flow dispatches it.
\* (A race for the budget inside it leaves what the next call would do first.)
next ==
    /\ Legacy # {} /\ available # 0
    /\ \E i \in controller_cursor..(controller_cursor + Len(controller_order) - 1) :
         LET At(j) == controller_order[1 + (j % Len(controller_order))]
             Has(c) == \E d \in Range(order[c]) : Eligible(flow, d)
             d == FlowAt(At(i), Scan(flow, At(i)))
             n == DispatchBytes(flow, d, ChunkSize)
         IN /\ Has(At(i)) /\ \A j \in controller_cursor..(i - 1) : ~Has(At(j))
            /\ controller_cursor' = NextController(i)
            /\ Grant(flow, At(i), d, ChunkSize)
            /\ permits' = [permits EXCEPT ![d][n] = @ + 1]
    /\ UNCHANGED <<gone, order, controller_order, outside_publishing, pc, hand, after, cancelVars>>

\* finish(): settle a dispatch, then release its lease.
finish(d) ==
    /\ d \in Legacy /\ pc[d] = "none"
    /\ \E n \in 1..ChunkSize,
          result \in {"fully_transferred", "not_submitted", "partial_or_unknown"} :
         /\ permits[d][n] # 0
         /\ permits' = [permits EXCEPT ![d][n] = @ - 1]
         /\ settle(d, n, result)
         /\ ThenRelease(d, n, "none")
    /\ UNCHANGED <<order, cursor, controller_order, controller_cursor, fresh, budgetVars,
                   cancelVars>>

\* Other users of the budget take and return bytes one at a time; a return
\* notifies the scheduler after the charge is gone.
OutsideAcquire ==
    /\ outside < OutsideMax /\ available # 0
    /\ outside' = outside + 1 /\ used' = used + 1
    /\ UNCHANGED <<flowVars, fresh, outside_publishing, ringVars, cancelVars>>

OutsideRelease ==
    /\ outside # 0 /\ ~outside_publishing
    /\ outside' = outside - 1 /\ used' = used - 1
    /\ outside_publishing' = TRUE
    /\ UNCHANGED <<flowVars, fresh, ringVars, cancelVars>>

OutsidePublish ==
    /\ outside_publishing
    /\ outside_publishing' = FALSE
    /\ signal_change
    /\ UNCHANGED <<flowVars, used, outside, ringVars, cancelVars>>

-----------------------------------------------------------------------------
RingStep(d) ==
    \/ Observe(d) \/ try_acquire(d) \/ acquire_for(d) \/ Submit(d) \/ Reject(d) \/ Complete(d)
    \/ ReleaseLease(d) \/ PublishRelease(d) \/ BeginWait(d) \/ Wake(d) \/ WaitTimeout(d)
    \/ CheckWait(d) \/ PollStops(d) \/ Abort(d) \/ DropPermits(d)

CancelStep(d) == CancelWait(d) \/ CancelRetires(d)

Step ==
    \/ \E d \in Devices :
         \/ add_flow(d) \/ make_permit_provider(d) \/ retire_flow(d) \/ finish(d)
         \/ RingStep(d) \/ RequestCancel(d) \/ CancelStep(d) \/ DeadlinePasses(d)
    \/ next \/ OutsideAcquire \/ OutsideRelease \/ OutsidePublish

\* Every ring has returned and every dispatch is finished.
Finished ==
    /\ \A d \in fleet.devices : flow[d].added /\ pc[d] \in {"done", "failed", "none"}
    /\ UNCHANGED vars

\* History, for each device d that stays eligible: the bytes each other device of its
\* controller was granted since d was.
TrackOvertaking ==
    LET IsGranted(e) == flow'[e].outstanding_count > flow[e].outstanding_count
        Resets(d) == ~Eligible(flow, d) \/ ~Eligible(flow', d) \/ IsGranted(d)
        Increase(d, e) ==
            IF IsGranted(e) /\ ControllerOf[d] = ControllerOf[e]
            THEN flow[e].remaining - flow'[e].remaining ELSE 0
    IN overtaken' = [d \in Devices |-> [e \in Devices |->
           IF Resets(d) THEN 0 ELSE overtaken[d][e] + Increase(d, e)]]

Next == (Step /\ TrackOvertaking /\ UNCHANGED fleet) \/ Finished

Spec == Init /\ [][Next]_vars

\* Every flow gets its provider, ring threads run, backends complete what they
\* accepted, whoever cancels goes through with it, and other users of the
\* budget give it back.
Fairness ==
    /\ \A d \in Devices :
         /\ WF_coreVars(make_permit_provider(d) \/ RingStep(d))
         /\ WF_coreVars(CancelStep(d))
    /\ WF_coreVars(OutsideRelease \/ OutsidePublish)

FairSpec == Spec /\ Fairness

-----------------------------------------------------------------------------
(* Properties                                                              *)

\* Every variable has its type, and the budget stays within its limit.
TypeOK ==
    /\ fleet \in Fleets
    /\ flow \in [Devices -> Flow]
    /\ \A c \in Controllers : order[c] \in Seq(Devices) /\ cursor[c] \in 0..Cardinality(Devices)
    /\ controller_order \in Seq(Controllers) /\ controller_cursor \in 0..Cardinality(Controllers)
    /\ fresh \subseteq Devices /\ used \in 0..Limit /\ outside \in 0..OutsideMax
    /\ outside_publishing \in BOOLEAN
    /\ pc \in [Devices -> Pcs] /\ after \in [Devices -> Pcs]
    /\ permits \in [Devices -> [1..ChunkSize -> Nat]] /\ hand \in [Devices -> 0..ChunkSize]
    /\ expired \subseteq Devices /\ cancellation_requested \subseteq Devices
    /\ cancelled \subseteq Devices /\ retiring \subseteq cancelled
    /\ gone \in [Devices -> [bytes : Nat, unknown : BOOLEAN]]
    /\ overtaken \in [Devices -> [Devices -> Nat]]

PermitBytes(d) == MapThenSumSet(LAMBDA n : n * permits[d][n], 1..ChunkSize)

\* Every byte of a flow is in one place: still to be granted, in flight, or
\* gone, so that only what was not submitted is granted again ("only the latter
\* is safely requeued", controller_scheduler.hpp:86); outstanding_count counts
\* exactly the permits that live, and the budget exactly the leases.
BudgetMatchesPermits ==
    /\ used = outside + MapThenSumSet(LAMBDA d : PermitBytes(d) + hand[d], Devices)
    /\ \A d \in Devices :
         /\ flow[d].outstanding_count =
                InFlight(d) + IF pc[d] = "submit" THEN 1 ELSE 0
         /\ flow[d].added =>
                Bytes[d] = gone[d].bytes + flow[d].remaining + PermitBytes(d)
                           + (IF pc[d] = "submit" THEN hand[d] ELSE 0)

\* Weighted fairness: while a device of a controller has a request that could
\* be granted, no other device of that controller is granted more than its
\* own quantum times its weight (controller_scheduler.cpp:221-251).
BoundedOvertaking ==
    \A d, e \in Devices : overtaken[d][e] <= Quantum * Weight[e]

\* "Retired/cancelled flows receive no new grants" (controller_scheduler.hpp:101): a
\* flow of which a chunk ended with an unknown outcome, and one whose canceller has
\* returned from cancel_wait, is granted nothing more, even where its ring had passed
\* the look at cancelled_ before (try_acquire, acquire_for, settle, cancel_wait).
NoGrantAfterEnd ==
    [][\A d \in Devices : gone[d].unknown \/ d \in cancelled \ retiring =>
           flow'[d].outstanding_count <= flow[d].outstanding_count]_vars

\* A flow that will act, or that has no provider yet: the round robin counts the
\* latter as having a request.
Busy(e) ==
    \/ pc[e] = "none" /\ flow[e].added /\ ~flow[e].retired
    \/ pc[e] = "sleep" /\ (e \notin fresh \/ e \in expired)
    \/ pc[e] \notin {"none", "sleep", "done", "failed"}

\* A ring that waits for a permit in vain has something to wait for: an
\* unpublished release, bytes held outside, a cancellation under way, its
\* deadline, or another flow (wait_for_ready and signal_change lose no wakeup).
WaitIsJustified ==
    \A d \in Devices : pc[d] = "sleep" /\ d \in fresh =>
        \/ d \in expired \/ outside # 0 \/ outside_publishing \/ retiring # {}
        \/ \E e \in Devices \ {d} : Busy(e)

\* No ring is left waiting for a permit forever when nobody else uses the budget: it
\* ends, unless its flow was retired from outside while nobody asks the transport to
\* stop. One whose provider was cancelled by another thread, or whose deadline has
\* passed, ends whoever uses the budget, although it may be about to wait
\* (wait_for_ready, PermitProvider::cancel_wait, request_cancel).
RingsEnd ==
    \A d \in Devices :
        /\ []<>(pc[d] \in {"none", "done", "failed"} \/ flow[d].retired \/ OutsideMax # 0)
        /\ []<>(d \notin cancelled \cup expired \/ pc[d] \in {"done", "failed"})

=============================================================================
