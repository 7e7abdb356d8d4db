--------------------------- MODULE OperationState ---------------------------
(***************************************************************************)
(* The asynchronous operation primitive (src/api/operation_state.cpp): one *)
(* worker thread that runs a task once, threads that hold the handle and   *)
(* call start, cancel and wait on it, and an owner that destroys it.        *)
(*                                                                         *)
(* Every action is one critical section of mutex_, or one step taken       *)
(* outside of it (request_stop, a hook call, a notify_all).  A thread      *)
(* blocked on a condition variable is in `asleep` until it is notified.     *)
(***************************************************************************)
EXTENDS Naturals, FiniteSets

CONSTANTS Callers,   \* threads calling start, cancel, wait and wait_for
          Owner,     \* the thread that destroys the handle
          Hooks,     \* cancellation hooks the task may register, each once
          NoHook

ASSUME ThreadsAssumption == Owner \notin Callers
ASSUME HooksAssumption == NoHook \notin Hooks

VARIABLES
    \* fields guarded by mutex_
    phase, error, started, cancel_requested, cancellation_hook,
    hook_invocations_in_flight,
    \* cancellation_, the std::stop_source
    stop_requested,
    \* the handle's threads: where each is, and the hook a cancel() copied
    pc, hook,
    \* the worker: where it is, the hook it registers or releases, the task's
    \* outcome, whether the task's captures are alive
    wpc, whook, registration, outcome, captures,
    \* threads asleep on state_changed_; TRUE when the worker is asleep on
    \* hook_finished_
    asleep, worker_asleep,
    \* history: calls made to each hook, hooks whose registration was reset,
    \* whether the task's body was entered
    calls, released, body_entered

handleVars == <<phase, error, started, cancel_requested, cancellation_hook,
                hook_invocations_in_flight, stop_requested>>
threadVars == <<pc, hook, asleep>>
workerVars == <<wpc, whook, registration, outcome, captures, worker_asleep>>
historyVars == <<calls, released, body_entered>>
vars == <<handleVars, threadVars, workerVars, historyVars>>

Threads == Callers \cup {Owner}
OperationPhase == {"Created", "Running", "Succeeded", "Failed", "Cancelled"}
terminal(p) == p \in {"Succeeded", "Failed", "Cancelled"}

\* What the error payload tells apart: a default cancellation (NOT_SENT), a
\* cancellation after the work was done (FULLY_TRANSFERRED), what the task
\* itself reported, an internal failure.
ErrorPayload == {"none", "not_sent", "completed", "task", "internal"}
OperationOutcome == [phase : OperationPhase, error : {"none", "not_sent", "task", "internal"}]

CallerPcs == {"idle", "stop", "hook", "finish", "notify_hook", "notify_state", "wait", "wait_for",
              "join", "destroyed"}
WorkerPcs == {"none", "begin", "check", "task", "invoke", "unregister", "release",
              "clear", "drain", "publish", "notify", "done"}

Init ==
    /\ phase = "Created" /\ error = "none" /\ started = FALSE
    /\ cancel_requested = FALSE /\ stop_requested = FALSE
    /\ cancellation_hook = NoHook /\ hook_invocations_in_flight = 0
    /\ pc = [t \in Threads |-> "idle"]
    /\ hook = [t \in Threads |-> NoHook]
    /\ wpc = "none" /\ whook = NoHook /\ registration = NoHook
    /\ outcome = [phase |-> "Failed", error |-> "none"]
    /\ captures = TRUE
    /\ asleep = {} /\ worker_asleep = FALSE
    /\ calls = [h \in Hooks |-> 0] /\ released = {} /\ body_entered = FALSE

\* The handle may be used until its destructor begins.
CanCall(t) == t \in Callers /\ pc[t] = "idle" /\ pc[Owner] = "idle"

\* Where a thread goes when cancel() returns: the destructor goes on to join.
Returned(t) == IF t = Owner THEN "join" ELSE "idle"

-----------------------------------------------------------------------------
(* start, cancel, wait, wait_for and the destructor                        *)

start(t) ==
    /\ CanCall(t)
    /\ ~started /\ phase = "Created" /\ ~cancel_requested
    /\ started' = TRUE
    /\ wpc' = "begin"
    /\ UNCHANGED <<phase, error, cancel_requested, cancellation_hook,
                   hook_invocations_in_flight, stop_requested, threadVars, whook,
                   registration, outcome, captures, worker_asleep, historyVars>>

\* Defect of cancel.
MutCancelRepeats(t) ==
    IF terminal(phase)
    THEN /\ pc' = [pc EXCEPT ![t] = Returned(t)]
         /\ UNCHANGED <<handleVars, hook>>
    ELSE /\ cancel_requested' = TRUE
         /\ pc' = [pc EXCEPT ![t] = "stop"]
         /\ IF ~started
            THEN /\ phase' = "Cancelled" /\ error' = "not_sent"
                 /\ UNCHANGED <<hook, hook_invocations_in_flight>>
            ELSE /\ hook' = [hook EXCEPT ![t] = cancellation_hook]
                 /\ hook_invocations_in_flight' = hook_invocations_in_flight
                        + IF cancellation_hook = NoHook THEN 0 ELSE 1
                 /\ UNCHANGED <<phase, error>>
         /\ UNCHANGED <<started, cancellation_hook, stop_requested>>

\* cancel(), the critical section of lines 95-110.
cancel(t) ==
    IF terminal(phase) \/ cancel_requested
    THEN /\ pc' = [pc EXCEPT ![t] = Returned(t)]
         /\ UNCHANGED <<handleVars, hook>>
    ELSE /\ cancel_requested' = TRUE
         /\ pc' = [pc EXCEPT ![t] = "stop"]
         /\ IF ~started
            THEN /\ phase' = "Cancelled" /\ error' = "not_sent"
                 /\ UNCHANGED <<hook, hook_invocations_in_flight>>
            ELSE /\ hook' = [hook EXCEPT ![t] = cancellation_hook]
                 /\ hook_invocations_in_flight' = hook_invocations_in_flight
                        + IF cancellation_hook = NoHook THEN 0 ELSE 1
                 /\ UNCHANGED <<phase, error>>
         /\ UNCHANGED <<started, cancellation_hook, stop_requested>>

Cancel(t) ==
    /\ CanCall(t)
    /\ cancel(t)
    /\ UNCHANGED <<asleep, workerVars, historyVars>>

\* cancellation_.request_stop(), after the lock is dropped.
RequestStop(t) ==
    /\ pc[t] = "stop"
    /\ stop_requested' = TRUE
    /\ pc' = [pc EXCEPT ![t] = IF hook[t] # NoHook THEN "hook"
                               ELSE IF ~started THEN "notify_state"
                               ELSE Returned(t)]
    /\ UNCHANGED <<phase, error, started, cancel_requested, cancellation_hook,
                   hook_invocations_in_flight, hook, asleep, workerVars, historyVars>>

\* The hook runs unlocked from here until HookReturns.
InvokeHook(t) ==
    /\ pc[t] = "hook"
    /\ calls' = [calls EXCEPT ![hook[t]] = @ + 1]
    /\ pc' = [pc EXCEPT ![t] = "finish"]
    /\ UNCHANGED <<handleVars, hook, asleep, workerVars, released, body_entered>>

\* The hook returns (or throws) and finish_hook_invocation() counts it out.
finish_hook_invocation(t) ==
    /\ pc[t] = "finish"
    /\ hook_invocations_in_flight' =
           IF hook_invocations_in_flight # 0 THEN hook_invocations_in_flight - 1 ELSE 0
    /\ hook' = [hook EXCEPT ![t] = NoHook]
    /\ pc' = [pc EXCEPT ![t] = "notify_hook"]
    /\ UNCHANGED <<phase, error, started, cancel_requested, cancellation_hook,
                   stop_requested, asleep, workerVars, historyVars>>

\* Defect of NotifyHookFinished.
MutNotifyHookLost(t) ==
    /\ pc[t] = "notify_hook"
    /\ pc' = [pc EXCEPT ![t] = Returned(t)]
    /\ UNCHANGED <<handleVars, hook, asleep, workerVars, historyVars>>

NotifyHookFinished(t) ==
    /\ pc[t] = "notify_hook"
    /\ worker_asleep' = FALSE
    /\ pc' = [pc EXCEPT ![t] = Returned(t)]
    /\ UNCHANGED <<handleVars, hook, asleep, wpc, whook, registration, outcome,
                   captures, historyVars>>

NotifyStateChanged(t) ==
    /\ pc[t] = "notify_state"
    /\ asleep' = {}
    /\ pc' = [pc EXCEPT ![t] = Returned(t)]
    /\ UNCHANGED <<handleVars, hook, workerVars, historyVars>>

\* A program whose every thread waits for an operation that none of them has
\* started is stuck by its own doing; some other thread stays free to act.
MayBlock(t, kind) ==
    kind = "wait" /\ ~started => \E u \in Callers \ {t} : pc[u] # "wait"

\* wait() and wait_for(): test the phase under the lock, sleep if not terminal.
wait(t, kind) ==
    /\ \/ CanCall(t) /\ MayBlock(t, kind)
       \/ pc[t] = kind /\ t \notin asleep
    /\ pc' = [pc EXCEPT ![t] = IF terminal(phase) THEN "idle" ELSE kind]
    /\ asleep' = IF terminal(phase) THEN asleep ELSE asleep \cup {t}
    /\ UNCHANGED <<handleVars, hook, workerVars, historyVars>>

\* wait_for's deadline passes: it reports Timeout unless the phase is terminal.
WaitTimeout(t) ==
    /\ pc[t] = "wait_for" /\ t \in asleep
    /\ pc' = [pc EXCEPT ![t] = "idle"]
    /\ asleep' = asleep \ {t}
    /\ UNCHANGED <<handleVars, hook, workerVars, historyVars>>

\* ~OperationState: cancel(), then join the worker if there is one.
Destroy ==
    /\ \A t \in Threads : pc[t] = "idle"
    /\ cancel(Owner)
    /\ UNCHANGED <<asleep, workerVars, historyVars>>

Join ==
    /\ pc[Owner] = "join"
    /\ wpc \in {"none", "done"}
    /\ pc' = [pc EXCEPT ![Owner] = "destroyed"]
    /\ UNCHANGED <<handleVars, hook, asleep, workerVars, historyVars>>

-----------------------------------------------------------------------------
(* The worker thread: run(), and the hooks its task registers              *)

RunBegin ==
    /\ wpc = "begin"
    /\ IF phase = "Created"
       THEN phase' = "Running" /\ wpc' = "check"
       ELSE phase' = phase /\ wpc' = "done"
    /\ UNCHANGED <<error, started, cancel_requested, cancellation_hook,
                   hook_invocations_in_flight, stop_requested, threadVars, whook,
                   registration, outcome, captures, worker_asleep, historyVars>>

\* notify_all, then the stop token decides whether the task runs at all.
RunCheck ==
    /\ wpc = "check"
    /\ asleep' = {}
    /\ IF stop_requested
       THEN /\ outcome' = [phase |-> "Cancelled", error |-> "not_sent"]
            /\ wpc' = "release"
            /\ UNCHANGED body_entered
       ELSE /\ body_entered' = TRUE
            /\ wpc' = "task"
            /\ UNCHANGED outcome
    /\ UNCHANGED <<handleVars, pc, hook, whook, registration, captures,
                   worker_asleep, calls, released>>

\* register_cancellation_hook: called by the task with a hook of its own.
register_cancellation_hook(h) ==
    /\ wpc = "task" /\ calls[h] = 0 /\ h \notin released \cup {registration}
    /\ IF cancel_requested
       THEN /\ whook' = h /\ wpc' = "invoke"
            /\ UNCHANGED <<cancellation_hook, registration>>
       ELSE /\ cancellation_hook = NoHook
            /\ cancellation_hook' = h /\ registration' = h
            /\ UNCHANGED <<whook, wpc>>
    /\ UNCHANGED <<phase, error, started, cancel_requested, hook_invocations_in_flight,
                   stop_requested, threadVars, outcome, captures, worker_asleep,
                   historyVars>>

\* Cancelled before the hook was registered: the worker calls it itself.
InvokeNow ==
    /\ wpc = "invoke"
    /\ calls' = [calls EXCEPT ![whook] = @ + 1]
    /\ released' = released \cup {whook}
    /\ whook' = NoHook
    /\ wpc' = "task"
    /\ UNCHANGED <<handleVars, threadVars, registration, outcome, captures,
                   worker_asleep, body_entered>>

\* Defect of HookFinishedWait.
MutHookNotAwaited(waiting, next) == wpc' = next /\ worker_asleep' = FALSE

\* hook_finished_.wait: go on when no invocation is in flight, or sleep.
HookFinishedWait(waiting, next) ==
    IF hook_invocations_in_flight = 0
    THEN wpc' = next /\ worker_asleep' = FALSE
    ELSE wpc' = waiting /\ worker_asleep' = TRUE

\* Defect of DropRegistration.
MutDropAtOnce == registration' = NoHook /\ released' = released \cup {registration}

\* The registration is gone once the wait is over.
DropRegistration ==
    IF hook_invocations_in_flight = 0
    THEN registration' = NoHook /\ released' = released \cup {registration}
    ELSE UNCHANGED <<registration, released>>

\* CancellationRegistration::reset(), by the task or as its frame unwinds:
\* forget the hook, then wait until no invocation is in flight.
unregister_cancellation_hook ==
    /\ wpc = "task" /\ registration # NoHook
    /\ cancellation_hook' =
           IF cancellation_hook = registration THEN NoHook ELSE cancellation_hook
    /\ HookFinishedWait("unregister", "task")
    /\ DropRegistration
    /\ UNCHANGED <<phase, error, started, cancel_requested, hook_invocations_in_flight,
                   stop_requested, threadVars, whook, outcome, captures, calls,
                   body_entered>>

Unregistered ==
    /\ wpc = "unregister" /\ ~worker_asleep
    /\ HookFinishedWait("unregister", "task")
    /\ DropRegistration
    /\ UNCHANGED <<handleVars, threadVars, whook, outcome, captures, calls,
                   body_entered>>

\* The task returns any outcome, or throws; a registration it moved out of its
\* frame stays active.
TaskReturns ==
    /\ wpc = "task"
    /\ outcome' \in [phase : OperationPhase, error : {"none", "task"}]
                      \cup {[phase |-> "Failed", error |-> "internal"]}
    /\ wpc' = "release"
    /\ UNCHANGED <<handleVars, threadVars, whook, registration, captures, worker_asleep,
                   historyVars>>

\* task = {}: leases and other captures go before the drain.
ReleaseTask ==
    /\ wpc = "release"
    /\ captures' = FALSE
    /\ wpc' = "clear"
    /\ UNCHANGED <<handleVars, threadVars, whook, registration, outcome, worker_asleep,
                   historyVars>>

clear_cancellation_hook_before_terminal ==
    /\ wpc = "clear"
    /\ cancellation_hook' = NoHook
    /\ HookFinishedWait("drain", "publish")
    /\ UNCHANGED <<phase, error, started, cancel_requested, hook_invocations_in_flight,
                   stop_requested, threadVars, whook, registration, outcome, captures,
                   historyVars>>

Drained ==
    /\ wpc = "drain" /\ ~worker_asleep
    /\ HookFinishedWait("drain", "publish")
    /\ UNCHANGED <<handleVars, threadVars, whook, registration, outcome, captures,
                   historyVars>>

\* Defect of Normalised.
MutSuccessHidesCancel(o) ==
    CASE ~terminal(o.phase) -> [phase |-> "Failed", error |-> "internal"]
      [] o.phase = "Succeeded" -> [o EXCEPT !.error = "none"]
      [] o.phase = "Cancelled" /\ o.error = "none" -> [o EXCEPT !.error = "not_sent"]
      [] o.phase = "Failed" /\ o.error = "none" -> [o EXCEPT !.error = "internal"]
      [] OTHER -> o

\* Defect of Normalised.
MutCancelledMeansNotSent(o) ==
    CASE ~terminal(o.phase) -> [phase |-> "Failed", error |-> "internal"]
      [] o.phase = "Succeeded" /\ cancel_requested ->
            [phase |-> "Cancelled", error |-> "not_sent"]
      [] o.phase = "Succeeded" /\ ~cancel_requested -> [o EXCEPT !.error = "none"]
      [] o.phase = "Cancelled" /\ o.error = "none" -> [o EXCEPT !.error = "not_sent"]
      [] o.phase = "Failed" /\ o.error = "none" -> [o EXCEPT !.error = "internal"]
      [] OTHER -> o

\* The outcome that publish_terminal settles on.
Normalised(o) ==
    CASE ~terminal(o.phase) -> [phase |-> "Failed", error |-> "internal"]
      [] o.phase = "Succeeded" /\ cancel_requested ->
            [phase |-> "Cancelled", error |-> "completed"]
      [] o.phase = "Succeeded" /\ ~cancel_requested -> [o EXCEPT !.error = "none"]
      [] o.phase = "Cancelled" /\ o.error = "none" -> [o EXCEPT !.error = "not_sent"]
      [] o.phase = "Failed" /\ o.error = "none" -> [o EXCEPT !.error = "internal"]
      [] OTHER -> o

publish_terminal ==
    /\ wpc = "publish"
    /\ IF phase = "Running"
       THEN phase' = Normalised(outcome).phase /\ error' = Normalised(outcome).error
       ELSE UNCHANGED <<phase, error>>
    /\ wpc' = "notify"
    /\ UNCHANGED <<started, cancel_requested, cancellation_hook,
                   hook_invocations_in_flight, stop_requested, threadVars, whook,
                   registration, outcome, captures, worker_asleep, historyVars>>

NotifyTerminal ==
    /\ wpc = "notify"
    /\ asleep' = {}
    /\ wpc' = "done"
    /\ UNCHANGED <<handleVars, pc, hook, whook, registration, outcome, captures,
                   worker_asleep, historyVars>>

-----------------------------------------------------------------------------
RunStep ==
    \/ RunBegin \/ RunCheck \/ InvokeNow \/ Unregistered \/ ReleaseTask
    \/ clear_cancellation_hook_before_terminal \/ Drained \/ publish_terminal
    \/ NotifyTerminal

TaskStep ==
    \/ \E h \in Hooks : register_cancellation_hook(h)
    \/ unregister_cancellation_hook
    \/ TaskReturns

\* The steps a thread owes once it is inside cancel() or woken inside wait().
CancelStep(t) ==
    \/ RequestStop(t) \/ InvokeHook(t) \/ finish_hook_invocation(t)
    \/ NotifyHookFinished(t) \/ NotifyStateChanged(t)

CallStep(t) == start(t) \/ Cancel(t) \/ WaitTimeout(t) \/ \E k \in {"wait", "wait_for"} : wait(t, k)

Destroyed == pc[Owner] = "destroyed" /\ UNCHANGED vars

Next ==
    \/ RunStep \/ TaskStep
    \/ \E t \in Threads : CancelStep(t)
    \/ \E t \in Callers : CallStep(t)
    \/ Destroy \/ Join \/ Destroyed

Spec == Init /\ [][Next]_vars

\* Threads that can run do run; a hook returns; a task returns once its stop
\* token is set, since every transport polls it or is woken by the hook.  No
\* caller is obliged to call anything.
Fairness ==
    /\ WF_vars(RunStep)
    /\ WF_vars(stop_requested /\ (TaskReturns \/ unregister_cancellation_hook))
    /\ \A t \in Threads : WF_vars(CancelStep(t))
    /\ \A t \in Callers : WF_vars(t \notin asleep /\ pc[t] = "wait" /\ wait(t, "wait"))
    /\ WF_vars(Join)

FairSpec == Spec /\ Fairness

-----------------------------------------------------------------------------
(* Properties                                                              *)

\* Every member of OperationState, and every thread, holds a value of its type.
TypeOK ==
    /\ phase \in OperationPhase /\ error \in ErrorPayload
    /\ started \in BOOLEAN /\ cancel_requested \in BOOLEAN /\ stop_requested \in BOOLEAN
    /\ cancellation_hook \in Hooks \cup {NoHook}
    /\ hook_invocations_in_flight \in 0..1
    /\ pc \in [Threads -> CallerPcs] /\ hook \in [Threads -> Hooks \cup {NoHook}]
    /\ wpc \in WorkerPcs
    /\ whook \in Hooks \cup {NoHook} /\ registration \in Hooks \cup {NoHook}
    /\ outcome \in OperationOutcome
    /\ captures \in BOOLEAN /\ asleep \subseteq Threads /\ worker_asleep \in BOOLEAN
    /\ calls \in [Hooks -> Nat] /\ released \subseteq Hooks /\ body_entered \in BOOLEAN

\* Thread t holds a copy of a hook that it is about to call or is calling.
Invoking(t) == pc[t] \in {"stop", "hook", "finish"} /\ hook[t] # NoHook

\* "An active cancellation hook is invoked at most once"
\* (operation_state.hpp:117), whoever gets to call it: cancel() by any
\* thread, the destructor, or the worker that registers it too late.
HookCalledAtMostOnce == \A h \in Hooks : calls[h] <= 1

\* Once reset() of a registration has returned, no thread is calling or can
\* still call its hook: the hook refers to objects in the task's frame that
\* are destroyed right after (kairosboot.cpp:2481).
NoCallAfterReset ==
    \A t \in Threads : Invoking(t) => hook[t] \notin released

\* A terminal phase is visible only when no hook call is pending or running,
\* none is installed and the task's captures (the device lease) are gone:
\* whoever sees it may start the next operation on the device at once.
TerminalIsQuiescent ==
    terminal(phase) =>
        /\ \A t \in Threads : ~Invoking(t)
        /\ cancellation_hook = NoHook
        /\ started => ~captures

\* A cancellation that says nothing was sent comes from an operation whose
\* task was never entered, unless the task itself said so; one that completed
\* its work first says that everything was transferred.
NotSentMeansNotEntered ==
    phase = "Cancelled" /\ error = "not_sent" =>
        \/ ~body_entered
        \/ outcome = [phase |-> "Cancelled", error |-> "none"]

Contract == INSTANCE OperationContract

\* Refinement: what callers see of an operation is its contract, in which it
\* begins, is cancelled and ends in one step each (operation_state.cpp:92-420).
ImplementsContract == Contract!ContractSpec

\* Every call returns. A cancelled operation ends, whichever of the worker and the
\* canceller is ahead. No wakeup is lost: a thread blocked in wait() returns once the
\* operation has ended. ~OperationState joins the worker and returns, although
\* the worker may be waiting for a hook that another thread is calling.
CallsReturn ==
    /\ cancel_requested ~> terminal(phase)
    /\ \A t \in Callers : (pc[t] = "wait" /\ terminal(phase)) ~> pc[t] = "idle"
    /\ pc[Owner] # "idle" ~> pc[Owner] = "destroyed"
=============================================================================
