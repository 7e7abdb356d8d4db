------------------------ MODULE OperationStateProofs ------------------------
(***************************************************************************)
(* Proofs about OperationState for any number of callers and hooks: its     *)
(* invariants, and that it implements OperationContract.                     *)
(***************************************************************************)
EXTENDS OperationState, TLAPS

\* Thread t is between the locked part of cancel() and the end of its hook call.
Cancelling(t) == pc[t] \in {"stop", "hook", "finish"}

\* cancel() gets past its guard once: one thread at most is inside it, and the
\* count of invocations in flight says whether that thread has a hook.
OneCanceller ==
    /\ \A t \in Threads : Cancelling(t) => cancel_requested
    /\ \A t, u \in Threads : Cancelling(t) /\ Cancelling(u) => t = u
    /\ \A t \in Threads : pc[t] \in {"hook", "finish"} => hook[t] # NoHook
    /\ \A t \in Threads : hook[t] # NoHook => Cancelling(t) /\ hook_invocations_in_flight = 1
    /\ (\A t \in Threads : hook[t] = NoHook) => hook_invocations_in_flight = 0

\* The worker's position determines the phase.
PhaseFollowsWorker ==
    /\ wpc = "none" <=> ~started
    /\ wpc = "none" => phase \in {"Created", "Cancelled"} /\ hook_invocations_in_flight = 0
    /\ wpc = "none" /\ phase = "Cancelled" => cancel_requested
    /\ wpc = "begin" => phase = "Created"
    /\ wpc \in {"check", "task", "invoke", "unregister", "release", "clear", "drain", "publish"}
         => phase = "Running"
    /\ wpc \in {"notify", "done"} => terminal(phase)
    /\ wpc \in {"clear", "drain", "publish", "notify", "done"} => ~captures

\* Which hook is installed, and who is responsible for it.
HookFollowsWorker ==
    /\ wpc \in {"none", "begin", "check"} =>
           cancellation_hook = NoHook /\ registration = NoHook
    /\ wpc \in {"task", "invoke"} => cancellation_hook = registration
    /\ cancellation_hook # NoHook => cancellation_hook = registration
    /\ wpc \in {"unregister", "drain", "publish", "notify", "done"} => cancellation_hook = NoHook
    /\ wpc = "unregister" => registration # NoHook
    /\ wpc \in {"publish", "notify", "done"} => hook_invocations_in_flight = 0
    /\ \A t \in Threads : hook[t] # NoHook => hook[t] = registration
    /\ registration \notin released

\* A hook that may still be called has not been called.
Uncalled ==
    /\ cancellation_hook # NoHook /\ ~cancel_requested => calls[cancellation_hook] = 0
    /\ \A t \in Threads : hook[t] # NoHook /\ pc[t] \in {"stop", "hook"} => calls[hook[t]] = 0
    /\ wpc = "invoke" =>
           /\ whook # NoHook /\ whook # registration /\ calls[whook] = 0

\* Where a NOT_SENT error comes from.
NotSentSource ==
    /\ wpc \in {"none", "begin", "check"} => ~body_entered
    /\ wpc \in {"none", "begin", "check", "task", "invoke", "unregister"} =>
           outcome.error = "none"
    /\ outcome.error = "not_sent" => ~body_entered

IInv ==
    /\ TypeOK /\ OneCanceller /\ PhaseFollowsWorker /\ HookFollowsWorker
    /\ Uncalled /\ HookCalledAtMostOnce /\ NotSentSource /\ NotSentMeansNotEntered

-----------------------------------------------------------------------------
\* The initial state of a new handle satisfies the inductive invariant.
LEMMA InitEstablishes == Init => IInv
  <1>. SUFFICES ASSUME Init PROVE IInv
    OBVIOUS
  <1>. USE ThreadsAssumption, HooksAssumption DEF Init
  <1>1. started \in BOOLEAN /\ cancel_requested \in BOOLEAN /\ stop_requested \in BOOLEAN
          /\ captures \in BOOLEAN /\ worker_asleep \in BOOLEAN /\ body_entered \in BOOLEAN
    BY Zenon
  <1>2. TypeOK
    BY <1>1 DEF TypeOK, OperationPhase, ErrorPayload, OperationOutcome, CallerPcs, WorkerPcs, Threads
  <1>3. OneCanceller /\ PhaseFollowsWorker /\ HookFollowsWorker
    BY DEF OneCanceller, PhaseFollowsWorker, HookFollowsWorker, Cancelling, terminal
  <1>4. Uncalled /\ HookCalledAtMostOnce
    BY DEF Uncalled, HookCalledAtMostOnce
  <1>5. NotSentSource /\ NotSentMeansNotEntered
    BY DEF NotSentSource, NotSentMeansNotEntered
  <1>. QED
    BY <1>2, <1>3, <1>4, <1>5 DEF IInv

\* Every step of every thread preserves the inductive invariant.
LEMMA StepPreserves == IInv /\ [Next]_vars => IInv'
  <1>. SUFFICES ASSUME IInv, [Next]_vars PROVE IInv'
    OBVIOUS
  <1>. USE ThreadsAssumption, HooksAssumption
       DEF IInv, TypeOK, OneCanceller, PhaseFollowsWorker, HookFollowsWorker, Uncalled,
         HookCalledAtMostOnce, NotSentSource, NotSentMeansNotEntered, Cancelling, Threads,
         OperationPhase, ErrorPayload, OperationOutcome, CallerPcs, WorkerPcs, terminal, Returned,
         handleVars, threadVars, workerVars, historyVars
  <1>1. ASSUME NEW t \in Callers, start(t) PROVE IInv'
    <2>1. TypeOK'
      BY <1>1 DEF start, CanCall
    <2>2. OneCanceller'
      BY <1>1 DEF start, CanCall
    <2>3. PhaseFollowsWorker'
      BY <1>1 DEF start, CanCall
    <2>4. HookFollowsWorker'
      BY <1>1 DEF start, CanCall
    <2>5. Uncalled'
      BY <1>1 DEF start, CanCall
    <2>6. HookCalledAtMostOnce'
      BY <1>1 DEF start, CanCall
    <2>7. NotSentSource'
      BY <1>1 DEF start, CanCall
    <2>8. NotSentMeansNotEntered'
      BY <1>1 DEF start, CanCall
    <2>. QED BY <2>1, <2>2, <2>3, <2>4, <2>5, <2>6, <2>7, <2>8
  <1>2. ASSUME NEW t \in Threads, cancel(t), UNCHANGED <<asleep, workerVars, historyVars>>, pc[t] = "idle" PROVE IInv'
    <2>0. cancel_requested' \in BOOLEAN
      BY <1>2, Zenon DEF cancel
    <2>1. TypeOK'
      BY <1>2, <2>0 DEF cancel
    <2>2. OneCanceller'
      BY <1>2 DEF cancel
    <2>3. PhaseFollowsWorker'
      BY <1>2 DEF cancel
    <2>4. HookFollowsWorker'
      BY <1>2 DEF cancel
    <2>5. Uncalled'
      BY <1>2 DEF cancel
    <2>6. HookCalledAtMostOnce'
      BY <1>2 DEF cancel
    <2>7. NotSentSource'
      BY <1>2 DEF cancel
    <2>8. NotSentMeansNotEntered'
      BY <1>2 DEF cancel
    <2>. QED BY <2>1, <2>2, <2>3, <2>4, <2>5, <2>6, <2>7, <2>8
  <1>3. ASSUME NEW t \in Threads, RequestStop(t) PROVE IInv'
    <2>1. TypeOK'
      BY <1>3 DEF RequestStop
    <2>2. OneCanceller'
      BY <1>3 DEF RequestStop
    <2>3. PhaseFollowsWorker'
      BY <1>3 DEF RequestStop
    <2>4. HookFollowsWorker'
      BY <1>3 DEF RequestStop
    <2>5. Uncalled'
      BY <1>3 DEF RequestStop
    <2>6. HookCalledAtMostOnce'
      BY <1>3 DEF RequestStop
    <2>7. NotSentSource'
      BY <1>3 DEF RequestStop
    <2>8. NotSentMeansNotEntered'
      BY <1>3 DEF RequestStop
    <2>. QED BY <2>1, <2>2, <2>3, <2>4, <2>5, <2>6, <2>7, <2>8
  <1>4. ASSUME NEW t \in Threads, InvokeHook(t) PROVE IInv'
    <2>1. TypeOK'
      BY <1>4 DEF InvokeHook
    <2>2. OneCanceller'
      BY <1>4 DEF InvokeHook
    <2>3. PhaseFollowsWorker'
      BY <1>4 DEF InvokeHook
    <2>4. HookFollowsWorker'
      BY <1>4 DEF InvokeHook
    <2>5. Uncalled'
      BY <1>4 DEF InvokeHook
    <2>6. HookCalledAtMostOnce'
      BY <1>4 DEF InvokeHook
    <2>7. NotSentSource'
      BY <1>4 DEF InvokeHook
    <2>8. NotSentMeansNotEntered'
      BY <1>4 DEF InvokeHook
    <2>. QED BY <2>1, <2>2, <2>3, <2>4, <2>5, <2>6, <2>7, <2>8
  <1>5. ASSUME NEW t \in Threads, finish_hook_invocation(t) PROVE IInv'
    <2>1. TypeOK'
      BY <1>5 DEF finish_hook_invocation
    <2>2. OneCanceller'
      BY <1>5 DEF finish_hook_invocation
    <2>3. PhaseFollowsWorker'
      BY <1>5 DEF finish_hook_invocation
    <2>4. HookFollowsWorker'
      BY <1>5 DEF finish_hook_invocation
    <2>5. Uncalled'
      BY <1>5 DEF finish_hook_invocation
    <2>6. HookCalledAtMostOnce'
      BY <1>5 DEF finish_hook_invocation
    <2>7. NotSentSource'
      BY <1>5 DEF finish_hook_invocation
    <2>8. NotSentMeansNotEntered'
      BY <1>5 DEF finish_hook_invocation
    <2>. QED BY <2>1, <2>2, <2>3, <2>4, <2>5, <2>6, <2>7, <2>8
  <1>6. ASSUME NEW t \in Threads, NotifyHookFinished(t) PROVE IInv'
    <2>0. worker_asleep' \in BOOLEAN
      BY <1>6, Zenon DEF NotifyHookFinished
    <2>1. TypeOK'
      BY <1>6, <2>0 DEF NotifyHookFinished
    <2>2. OneCanceller'
      BY <1>6 DEF NotifyHookFinished
    <2>3. PhaseFollowsWorker'
      BY <1>6 DEF NotifyHookFinished
    <2>4. HookFollowsWorker'
      BY <1>6 DEF NotifyHookFinished
    <2>5. Uncalled'
      BY <1>6 DEF NotifyHookFinished
    <2>6. HookCalledAtMostOnce'
      BY <1>6 DEF NotifyHookFinished
    <2>7. NotSentSource'
      BY <1>6 DEF NotifyHookFinished
    <2>8. NotSentMeansNotEntered'
      BY <1>6 DEF NotifyHookFinished
    <2>. QED BY <2>1, <2>2, <2>3, <2>4, <2>5, <2>6, <2>7, <2>8
  <1>7. ASSUME NEW t \in Threads, NotifyStateChanged(t) PROVE IInv'
    <2>1. TypeOK'
      BY <1>7 DEF NotifyStateChanged
    <2>2. OneCanceller'
      BY <1>7 DEF NotifyStateChanged
    <2>3. PhaseFollowsWorker'
      BY <1>7 DEF NotifyStateChanged
    <2>4. HookFollowsWorker'
      BY <1>7 DEF NotifyStateChanged
    <2>5. Uncalled'
      BY <1>7 DEF NotifyStateChanged
    <2>6. HookCalledAtMostOnce'
      BY <1>7 DEF NotifyStateChanged
    <2>7. NotSentSource'
      BY <1>7 DEF NotifyStateChanged
    <2>8. NotSentMeansNotEntered'
      BY <1>7 DEF NotifyStateChanged
    <2>. QED BY <2>1, <2>2, <2>3, <2>4, <2>5, <2>6, <2>7, <2>8
  <1>8. ASSUME NEW t \in Callers, NEW k \in {"wait", "wait_for"}, wait(t, k) PROVE IInv'
    <2>1. TypeOK'
      BY <1>8 DEF wait, CanCall
    <2>2. OneCanceller'
      BY <1>8 DEF wait, CanCall
    <2>3. PhaseFollowsWorker'
      BY <1>8 DEF wait, CanCall
    <2>4. HookFollowsWorker'
      BY <1>8 DEF wait, CanCall
    <2>5. Uncalled'
      BY <1>8 DEF wait, CanCall
    <2>6. HookCalledAtMostOnce'
      BY <1>8 DEF wait, CanCall
    <2>7. NotSentSource'
      BY <1>8 DEF wait, CanCall
    <2>8. NotSentMeansNotEntered'
      BY <1>8 DEF wait, CanCall
    <2>. QED BY <2>1, <2>2, <2>3, <2>4, <2>5, <2>6, <2>7, <2>8
  <1>9. ASSUME NEW t \in Callers, WaitTimeout(t) PROVE IInv'
    <2>1. TypeOK'
      BY <1>9 DEF WaitTimeout
    <2>2. OneCanceller'
      BY <1>9 DEF WaitTimeout
    <2>3. PhaseFollowsWorker'
      BY <1>9 DEF WaitTimeout
    <2>4. HookFollowsWorker'
      BY <1>9 DEF WaitTimeout
    <2>5. Uncalled'
      BY <1>9 DEF WaitTimeout
    <2>6. HookCalledAtMostOnce'
      BY <1>9 DEF WaitTimeout
    <2>7. NotSentSource'
      BY <1>9 DEF WaitTimeout
    <2>8. NotSentMeansNotEntered'
      BY <1>9 DEF WaitTimeout
    <2>. QED BY <2>1, <2>2, <2>3, <2>4, <2>5, <2>6, <2>7, <2>8
  <1>10. ASSUME Join PROVE IInv'
    <2>1. TypeOK'
      BY <1>10 DEF Join
    <2>2. OneCanceller'
      BY <1>10 DEF Join
    <2>3. PhaseFollowsWorker'
      BY <1>10 DEF Join
    <2>4. HookFollowsWorker'
      BY <1>10 DEF Join
    <2>5. Uncalled'
      BY <1>10 DEF Join
    <2>6. HookCalledAtMostOnce'
      BY <1>10 DEF Join
    <2>7. NotSentSource'
      BY <1>10 DEF Join
    <2>8. NotSentMeansNotEntered'
      BY <1>10 DEF Join
    <2>. QED BY <2>1, <2>2, <2>3, <2>4, <2>5, <2>6, <2>7, <2>8
  <1>11. ASSUME RunBegin PROVE IInv'
    <2>1. TypeOK'
      BY <1>11 DEF RunBegin
    <2>2. OneCanceller'
      BY <1>11 DEF RunBegin
    <2>3. PhaseFollowsWorker'
      BY <1>11 DEF RunBegin
    <2>4. HookFollowsWorker'
      BY <1>11 DEF RunBegin
    <2>5. Uncalled'
      BY <1>11 DEF RunBegin
    <2>6. HookCalledAtMostOnce'
      BY <1>11 DEF RunBegin
    <2>7. NotSentSource'
      BY <1>11 DEF RunBegin
    <2>8. NotSentMeansNotEntered'
      BY <1>11 DEF RunBegin
    <2>. QED BY <2>1, <2>2, <2>3, <2>4, <2>5, <2>6, <2>7, <2>8
  <1>12. ASSUME RunCheck PROVE IInv'
    <2>0. body_entered' \in BOOLEAN
      BY <1>12, Zenon DEF RunCheck
    <2>1. TypeOK'
      BY <1>12, <2>0 DEF RunCheck
    <2>2. OneCanceller'
      BY <1>12 DEF RunCheck
    <2>3. PhaseFollowsWorker'
      BY <1>12 DEF RunCheck
    <2>4. HookFollowsWorker'
      BY <1>12 DEF RunCheck
    <2>5. Uncalled'
      BY <1>12 DEF RunCheck
    <2>6. HookCalledAtMostOnce'
      BY <1>12 DEF RunCheck
    <2>7. NotSentSource'
      BY <1>12 DEF RunCheck
    <2>8. NotSentMeansNotEntered'
      BY <1>12 DEF RunCheck
    <2>. QED BY <2>1, <2>2, <2>3, <2>4, <2>5, <2>6, <2>7, <2>8
  <1>13. ASSUME NEW h \in Hooks, register_cancellation_hook(h) PROVE IInv'
    <2>1. TypeOK'
      BY <1>13 DEF register_cancellation_hook
    <2>2. OneCanceller'
      BY <1>13 DEF register_cancellation_hook
    <2>3. PhaseFollowsWorker'
      BY <1>13 DEF register_cancellation_hook
    <2>4. HookFollowsWorker'
      BY <1>13 DEF register_cancellation_hook
    <2>5. Uncalled'
      BY <1>13 DEF register_cancellation_hook
    <2>6. HookCalledAtMostOnce'
      BY <1>13 DEF register_cancellation_hook
    <2>7. NotSentSource'
      BY <1>13 DEF register_cancellation_hook
    <2>8. NotSentMeansNotEntered'
      BY <1>13 DEF register_cancellation_hook
    <2>. QED BY <2>1, <2>2, <2>3, <2>4, <2>5, <2>6, <2>7, <2>8
  <1>14. ASSUME InvokeNow PROVE IInv'
    <2>1. TypeOK'
      BY <1>14 DEF InvokeNow
    <2>2. OneCanceller'
      BY <1>14 DEF InvokeNow
    <2>3. PhaseFollowsWorker'
      BY <1>14 DEF InvokeNow
    <2>4. HookFollowsWorker'
      BY <1>14 DEF InvokeNow
    <2>5. Uncalled'
      BY <1>14 DEF InvokeNow
    <2>6. HookCalledAtMostOnce'
      BY <1>14 DEF InvokeNow
    <2>7. NotSentSource'
      BY <1>14 DEF InvokeNow
    <2>8. NotSentMeansNotEntered'
      BY <1>14 DEF InvokeNow
    <2>. QED BY <2>1, <2>2, <2>3, <2>4, <2>5, <2>6, <2>7, <2>8
  <1>15. ASSUME unregister_cancellation_hook PROVE IInv'
    <2>0. worker_asleep' \in BOOLEAN
      BY <1>15, Zenon DEF unregister_cancellation_hook, HookFinishedWait, DropRegistration
    <2>1. TypeOK'
      BY <1>15, <2>0 DEF unregister_cancellation_hook, HookFinishedWait, DropRegistration
    <2>2. OneCanceller'
      BY <1>15 DEF unregister_cancellation_hook, HookFinishedWait, DropRegistration
    <2>3. PhaseFollowsWorker'
      BY <1>15 DEF unregister_cancellation_hook, HookFinishedWait, DropRegistration
    <2>4. HookFollowsWorker'
      BY <1>15 DEF unregister_cancellation_hook, HookFinishedWait, DropRegistration
    <2>5. Uncalled'
      BY <1>15 DEF unregister_cancellation_hook, HookFinishedWait, DropRegistration
    <2>6. HookCalledAtMostOnce'
      BY <1>15 DEF unregister_cancellation_hook, HookFinishedWait, DropRegistration
    <2>7. NotSentSource'
      BY <1>15 DEF unregister_cancellation_hook, HookFinishedWait, DropRegistration
    <2>8. NotSentMeansNotEntered'
      BY <1>15 DEF unregister_cancellation_hook, HookFinishedWait, DropRegistration
    <2>. QED BY <2>1, <2>2, <2>3, <2>4, <2>5, <2>6, <2>7, <2>8
  <1>16. ASSUME Unregistered PROVE IInv'
    <2>0. worker_asleep' \in BOOLEAN
      BY <1>16, Zenon DEF Unregistered, HookFinishedWait, DropRegistration
    <2>1. TypeOK'
      BY <1>16, <2>0 DEF Unregistered, HookFinishedWait, DropRegistration
    <2>2. OneCanceller'
      BY <1>16 DEF Unregistered, HookFinishedWait, DropRegistration
    <2>3. PhaseFollowsWorker'
      BY <1>16 DEF Unregistered, HookFinishedWait, DropRegistration
    <2>4. HookFollowsWorker'
      BY <1>16 DEF Unregistered, HookFinishedWait, DropRegistration
    <2>5. Uncalled'
      BY <1>16 DEF Unregistered, HookFinishedWait, DropRegistration
    <2>6. HookCalledAtMostOnce'
      BY <1>16 DEF Unregistered, HookFinishedWait, DropRegistration
    <2>7. NotSentSource'
      BY <1>16 DEF Unregistered, HookFinishedWait, DropRegistration
    <2>8. NotSentMeansNotEntered'
      BY <1>16 DEF Unregistered, HookFinishedWait, DropRegistration
    <2>. QED BY <2>1, <2>2, <2>3, <2>4, <2>5, <2>6, <2>7, <2>8
  <1>17. ASSUME TaskReturns PROVE IInv'
    <2>1. TypeOK'
      BY <1>17 DEF TaskReturns
    <2>2. OneCanceller'
      BY <1>17 DEF TaskReturns
    <2>3. PhaseFollowsWorker'
      BY <1>17 DEF TaskReturns
    <2>4. HookFollowsWorker'
      BY <1>17 DEF TaskReturns
    <2>5. Uncalled'
      BY <1>17 DEF TaskReturns
    <2>6. HookCalledAtMostOnce'
      BY <1>17 DEF TaskReturns
    <2>7. NotSentSource'
      BY <1>17 DEF TaskReturns
    <2>8. NotSentMeansNotEntered'
      BY <1>17 DEF TaskReturns
    <2>. QED BY <2>1, <2>2, <2>3, <2>4, <2>5, <2>6, <2>7, <2>8
  <1>18. ASSUME ReleaseTask PROVE IInv'
    <2>0. captures' \in BOOLEAN
      BY <1>18, Zenon DEF ReleaseTask
    <2>1. TypeOK'
      BY <1>18, <2>0 DEF ReleaseTask
    <2>2. OneCanceller'
      BY <1>18 DEF ReleaseTask
    <2>3. PhaseFollowsWorker'
      BY <1>18 DEF ReleaseTask
    <2>4. HookFollowsWorker'
      BY <1>18 DEF ReleaseTask
    <2>5. Uncalled'
      BY <1>18 DEF ReleaseTask
    <2>6. HookCalledAtMostOnce'
      BY <1>18 DEF ReleaseTask
    <2>7. NotSentSource'
      BY <1>18 DEF ReleaseTask
    <2>8. NotSentMeansNotEntered'
      BY <1>18 DEF ReleaseTask
    <2>. QED BY <2>1, <2>2, <2>3, <2>4, <2>5, <2>6, <2>7, <2>8
  <1>19. ASSUME clear_cancellation_hook_before_terminal PROVE IInv'
    <2>0. worker_asleep' \in BOOLEAN
      BY <1>19, Zenon DEF clear_cancellation_hook_before_terminal, HookFinishedWait
    <2>1. TypeOK'
      BY <1>19, <2>0 DEF clear_cancellation_hook_before_terminal, HookFinishedWait
    <2>2. OneCanceller'
      BY <1>19 DEF clear_cancellation_hook_before_terminal, HookFinishedWait
    <2>3. PhaseFollowsWorker'
      BY <1>19 DEF clear_cancellation_hook_before_terminal, HookFinishedWait
    <2>4. HookFollowsWorker'
      BY <1>19 DEF clear_cancellation_hook_before_terminal, HookFinishedWait
    <2>5. Uncalled'
      BY <1>19 DEF clear_cancellation_hook_before_terminal, HookFinishedWait
    <2>6. HookCalledAtMostOnce'
      BY <1>19 DEF clear_cancellation_hook_before_terminal, HookFinishedWait
    <2>7. NotSentSource'
      BY <1>19 DEF clear_cancellation_hook_before_terminal, HookFinishedWait
    <2>8. NotSentMeansNotEntered'
      BY <1>19 DEF clear_cancellation_hook_before_terminal, HookFinishedWait
    <2>. QED BY <2>1, <2>2, <2>3, <2>4, <2>5, <2>6, <2>7, <2>8
  <1>20. ASSUME Drained PROVE IInv'
    <2>0. worker_asleep' \in BOOLEAN
      BY <1>20, Zenon DEF Drained, HookFinishedWait
    <2>1. TypeOK'
      BY <1>20, <2>0 DEF Drained, HookFinishedWait
    <2>2. OneCanceller'
      BY <1>20 DEF Drained, HookFinishedWait
    <2>3. PhaseFollowsWorker'
      BY <1>20 DEF Drained, HookFinishedWait
    <2>4. HookFollowsWorker'
      BY <1>20 DEF Drained, HookFinishedWait
    <2>5. Uncalled'
      BY <1>20 DEF Drained, HookFinishedWait
    <2>6. HookCalledAtMostOnce'
      BY <1>20 DEF Drained, HookFinishedWait
    <2>7. NotSentSource'
      BY <1>20 DEF Drained, HookFinishedWait
    <2>8. NotSentMeansNotEntered'
      BY <1>20 DEF Drained, HookFinishedWait
    <2>. QED BY <2>1, <2>2, <2>3, <2>4, <2>5, <2>6, <2>7, <2>8
  <1>21. ASSUME publish_terminal PROVE IInv'
    <2>1. TypeOK'
      BY <1>21 DEF publish_terminal, Normalised
    <2>2. OneCanceller'
      BY <1>21 DEF publish_terminal, Normalised
    <2>3. PhaseFollowsWorker'
      BY <1>21 DEF publish_terminal, Normalised
    <2>4. HookFollowsWorker'
      BY <1>21 DEF publish_terminal, Normalised
    <2>5. Uncalled'
      BY <1>21 DEF publish_terminal, Normalised
    <2>6. HookCalledAtMostOnce'
      BY <1>21 DEF publish_terminal, Normalised
    <2>7. NotSentSource'
      BY <1>21 DEF publish_terminal, Normalised
    <2>8. NotSentMeansNotEntered'
      BY <1>21 DEF publish_terminal, Normalised
    <2>. QED BY <2>1, <2>2, <2>3, <2>4, <2>5, <2>6, <2>7, <2>8
  <1>22. ASSUME NotifyTerminal PROVE IInv'
    <2>1. TypeOK'
      BY <1>22 DEF NotifyTerminal
    <2>2. OneCanceller'
      BY <1>22 DEF NotifyTerminal
    <2>3. PhaseFollowsWorker'
      BY <1>22 DEF NotifyTerminal
    <2>4. HookFollowsWorker'
      BY <1>22 DEF NotifyTerminal
    <2>5. Uncalled'
      BY <1>22 DEF NotifyTerminal
    <2>6. HookCalledAtMostOnce'
      BY <1>22 DEF NotifyTerminal
    <2>7. NotSentSource'
      BY <1>22 DEF NotifyTerminal
    <2>8. NotSentMeansNotEntered'
      BY <1>22 DEF NotifyTerminal
    <2>. QED BY <2>1, <2>2, <2>3, <2>4, <2>5, <2>6, <2>7, <2>8
  <1>23. CASE UNCHANGED vars
    BY <1>23 DEF vars
  <1>. HIDE DEF IInv, TypeOK, OneCanceller, PhaseFollowsWorker, HookFollowsWorker, Uncalled,
         HookCalledAtMostOnce, NotSentSource, NotSentMeansNotEntered, Cancelling, Threads,
         OperationPhase, ErrorPayload, OperationOutcome, CallerPcs, WorkerPcs, terminal, Returned,
         handleVars, threadVars, workerVars, historyVars
  <1>24. CASE RunStep
    BY <1>24, <1>11, <1>12, <1>14, <1>16, <1>18, <1>19, <1>20, <1>21, <1>22 DEF RunStep
  <1>25. CASE TaskStep
    BY <1>25, <1>13, <1>15, <1>17 DEF TaskStep
  <1>26. CASE \E t \in Threads : CancelStep(t)
    BY <1>26, <1>3, <1>4, <1>5, <1>6, <1>7 DEF CancelStep
  <1>27. CASE \E t \in Callers : CallStep(t)
    <2>1. ASSUME NEW t \in Callers, Cancel(t) PROVE IInv'
      BY <2>1, <1>2 DEF Cancel, CanCall, Threads
    <2>. QED
      BY <1>27, <2>1, <1>1, <1>8, <1>9 DEF CallStep
  <1>28. CASE Destroy
    BY <1>28, <1>2 DEF Destroy, Threads
  <1>. QED
    BY <1>10, <1>23, <1>24, <1>25, <1>26, <1>27, <1>28 DEF Next, Destroyed

-----------------------------------------------------------------------------
\* Type correctness and the invariants that runs check, for any callers and
\* hooks: every reachable state satisfies the inductive invariant.
THEOREM Invariance == Spec => []IInv
  BY InitEstablishes, StepPreserves, PTL DEF Spec

\* Every reachable state is well typed; in particular at most one hook
\* invocation is ever in flight (operation_state.cpp:101-107).
THEOREM TypeCorrect == Spec => []TypeOK
  <1>1. IInv => TypeOK
    BY DEF IInv
  <1>. QED
    BY <1>1, Invariance, PTL

\* A cancellation hook is called at most once, by whichever thread.
THEOREM HookOnce == Spec => []HookCalledAtMostOnce
  <1>1. IInv => HookCalledAtMostOnce
    BY DEF IInv
  <1>. QED
    BY <1>1, Invariance, PTL

\* After reset() of a registration no thread is calling its hook or will.
THEOREM ResetIsFinal == Spec => []NoCallAfterReset
  <1>1. IInv => NoCallAfterReset
    BY DEF IInv, HookFollowsWorker, NoCallAfterReset, Invoking
  <1>. QED
    BY <1>1, Invariance, PTL

\* A terminal phase is published only over a quiescent operation.
THEOREM QuiescentAtEnd == Spec => []TerminalIsQuiescent
  <1>. SUFFICES ASSUME IInv, terminal(phase) PROVE
         /\ \A t \in Threads : ~Invoking(t)
         /\ cancellation_hook = NoHook
         /\ started => ~captures
    <2>1. IInv => TerminalIsQuiescent
      BY DEF TerminalIsQuiescent
    <2>. QED
      BY <2>1, Invariance, PTL
  <1>1. wpc \in {"none", "notify", "done"}
    BY DEF IInv, PhaseFollowsWorker, TypeOK, WorkerPcs, terminal
  <1>2. hook_invocations_in_flight = 0 /\ cancellation_hook = NoHook
    BY <1>1 DEF IInv, PhaseFollowsWorker, HookFollowsWorker
  <1>3. \A t \in Threads : ~Invoking(t)
    BY <1>2 DEF IInv, OneCanceller, Invoking
  <1>4. started => ~captures
    BY <1>1 DEF IInv, PhaseFollowsWorker
  <1>. QED
    BY <1>2, <1>3, <1>4

\* NOT_SENT is reported only for a task that was not entered, or by the task.
THEOREM NotSentIsTrue == Spec => []NotSentMeansNotEntered
  <1>1. IInv => NotSentMeansNotEntered
    BY DEF IInv
  <1>. QED
    BY <1>1, Invariance, PTL

\* Every step of the implementation is a step of the contract, or changes
\* neither the phase nor the cancellation request.
LEMMA StepImplements ==
    IInv /\ [Next]_vars => [Contract!ContractNext]_(Contract!contractVars)
  <1>. SUFFICES ASSUME IInv, [Next]_vars
                PROVE  [Contract!ContractNext]_(Contract!contractVars)
    OBVIOUS
  <1>. USE DEF Contract!ContractNext, Contract!contractVars
  <1>1. ASSUME NEW t \in Threads, cancel(t) PROVE [Contract!ContractNext]_(Contract!contractVars)
    <2>1. CASE terminal(phase) \/ cancel_requested
      BY <1>1, <2>1 DEF cancel, handleVars
    <2>2. CASE ~(terminal(phase) \/ cancel_requested)
      <3>1. ~Contract!terminal(phase) /\ ~cancel_requested
        BY <2>2 DEF Contract!terminal, terminal
      <3>2. cancel_requested' = TRUE
        BY <1>1, <2>2 DEF cancel
      <3>3. phase' \in IF phase = "Created" THEN {phase, "Cancelled"} ELSE {phase}
        BY <1>1, <2>2 DEF cancel, IInv, PhaseFollowsWorker, terminal
      <3>. QED
        BY <3>1, <3>2, <3>3 DEF Contract!Request
    <2>. QED BY <2>1, <2>2
  <1>2. CASE RunBegin
    BY <1>2 DEF RunBegin, Contract!Begin
  <1>3. CASE publish_terminal
    <2>1. phase = "Running" /\ phase' = Normalised(outcome).phase
      BY <1>3 DEF publish_terminal, IInv, PhaseFollowsWorker
    <2>2. Normalised(outcome).phase \in
            {"Failed", "Cancelled"} \cup IF cancel_requested THEN {} ELSE {"Succeeded"}
      BY DEF Normalised, IInv, TypeOK, OperationOutcome, OperationPhase, terminal
    <2>. QED
      BY <1>3, <2>1, <2>2 DEF publish_terminal, Contract!Publish
  <1>4. CASE UNCHANGED <<phase, cancel_requested>>
    BY <1>4
  <1>5. ASSUME NEW t \in Threads, CancelStep(t) PROVE UNCHANGED <<phase, cancel_requested>>
    BY <1>5 DEF CancelStep, RequestStop, InvokeHook, finish_hook_invocation,
                NotifyHookFinished, NotifyStateChanged, handleVars
  <1>6. ASSUME RunStep, ~RunBegin, ~publish_terminal PROVE UNCHANGED <<phase, cancel_requested>>
    BY <1>6 DEF RunStep, RunCheck, InvokeNow, Unregistered, ReleaseTask,
                clear_cancellation_hook_before_terminal, Drained, NotifyTerminal, handleVars
  <1>7. ASSUME TaskStep PROVE UNCHANGED <<phase, cancel_requested>>
    BY <1>7 DEF TaskStep, register_cancellation_hook, unregister_cancellation_hook,
                TaskReturns, handleVars
  <1>8. ASSUME NEW t \in Callers, CallStep(t), ~Cancel(t)
        PROVE  UNCHANGED <<phase, cancel_requested>>
    BY <1>8 DEF CallStep, start, wait, WaitTimeout, handleVars
  <1>9. CASE UNCHANGED vars
    BY <1>9, <1>4 DEF vars, handleVars
  <1>10. CASE Join
    BY <1>10, <1>4 DEF Join, handleVars
  <1>11. CASE \E t \in Callers : CallStep(t)
    BY <1>11, <1>1, <1>4, <1>8 DEF Cancel, Threads
  <1>12. CASE Destroy
    BY <1>12, <1>1 DEF Destroy, Threads
  <1>. QED
    BY <1>2, <1>3, <1>4, <1>5, <1>6, <1>7, <1>9, <1>10, <1>11, <1>12 DEF Next, Destroyed

\* The operation implements its contract: the phase moves forward once, and a
\* cancellation that was accepted is never answered with success.
THEOREM Refinement == Spec => ImplementsContract
  <1>1. Init => Contract!ContractInit
    BY DEF Init, Contract!ContractInit
  <1>. QED
    BY <1>1, StepImplements, Invariance, PTL DEF Spec, ImplementsContract, Contract!ContractSpec
=============================================================================
