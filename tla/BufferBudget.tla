---------------------------- MODULE BufferBudget ----------------------------
(***************************************************************************)
(* The process-wide buffer budget (src/transport/buffer_budget.cpp):        *)
(* threads reserve bytes with a compare-and-swap loop, hold storage for     *)
(* them, and give storage and charge back; every release then calls the     *)
(* registered availability observers (the controller schedulers).           *)
(*                                                                         *)
(* A thread runs one acquire/release cycle at a time; an action is one      *)
(* atomic access or one critical section of availability_mutex.             *)
(***************************************************************************)
EXTENDS Naturals, Sequences, FiniteSets, FiniteSetsExt, SequencesExt

CONSTANTS Threads, Observers,
          Limit,       \* BufferBudgetState::limit
          Requests     \* sizes that a thread may ask for

ASSUME LimitAssumption == Limit \in Nat
ASSUME RequestsAssumption == Requests \subseteq Nat

VARIABLES
    used, peak,                 \* the two atomics
    availability_observers,     \* the registry: a sequence of weak pointers
    owned,                      \* observers whose owner is alive
    pc, bytes, current,         \* per thread: position, request, CAS operand
    callback_capacity, callbacks, next_callback,
    storage,                    \* bytes allocated by each thread's lease
    owed                        \* history: observers a release must call

budgetVars == <<used, peak>>
registryVars == <<availability_observers, owned>>
threadVars == <<pc, bytes, current, callback_capacity, callbacks, next_callback, storage, owed>>
vars == <<budgetVars, registryVars, threadVars>>

Pcs == {"idle", "try", "peak", "allocate", "holding", "uncharge", "count", "collect", "notify"}

\* A weak pointer is expired when neither its owner nor a release in progress
\* holds the observer.
expired(o) == o \notin owned /\ \A t \in Threads : o \notin Range(callbacks[t])

Live(registry) == SelectSeq(registry, LAMBDA o : ~expired(o))

Init ==
    /\ used = 0 /\ peak = 0
    /\ availability_observers = <<>> /\ owned = {}
    /\ pc = [t \in Threads |-> "idle"]
    /\ bytes = [t \in Threads |-> 0]
    /\ current = [t \in Threads |-> 0]
    /\ callback_capacity = [t \in Threads |-> 0]
    /\ callbacks = [t \in Threads |-> <<>>]
    /\ next_callback = [t \in Threads |-> 1]
    /\ storage = [t \in Threads |-> 0]
    /\ owed = [t \in Threads |-> {}]

Goto(t, p) == pc' = [pc EXCEPT ![t] = p]

-----------------------------------------------------------------------------
(* try_acquire                                                             *)

\* A request of zero bytes charges nothing and cannot fail for lack of budget.
try_acquire(t, n) ==
    /\ pc[t] = "idle"
    /\ bytes' = [bytes EXCEPT ![t] = n]
    /\ current' = [current EXCEPT ![t] = used]
    /\ Goto(t, IF n = 0 THEN "allocate" ELSE "try")
    /\ UNCHANGED <<budgetVars, registryVars, callback_capacity, callbacks,
                   next_callback, storage, owed>>

\* Defect of CompareExchange.
MutLimitExceeded(t) ==
    /\ pc[t] = "try"
    /\ IF current[t] > Limit
       THEN Goto(t, "idle") /\ UNCHANGED <<used, current>>
       ELSE IF used = current[t]
       THEN used' = current[t] + bytes[t] /\ Goto(t, "peak") /\ UNCHANGED current
       ELSE current' = [current EXCEPT ![t] = used] /\ UNCHANGED <<used, pc>>
    /\ UNCHANGED <<peak, registryVars, bytes, callback_capacity, callbacks,
                   next_callback, storage, owed>>

\* One turn of the loop: refuse on the value last read, else swap it in; a
\* failed swap reads the current value and turns again.
CompareExchange(t) ==
    /\ pc[t] = "try"
    /\ IF current[t] > Limit \/ bytes[t] > Limit - current[t]
       THEN Goto(t, "idle") /\ UNCHANGED <<used, current>>
       ELSE IF used = current[t]
       THEN used' = current[t] + bytes[t] /\ Goto(t, "peak") /\ UNCHANGED current
       ELSE current' = [current EXCEPT ![t] = used] /\ UNCHANGED <<used, pc>>
    /\ UNCHANGED <<peak, registryVars, bytes, callback_capacity, callbacks,
                   next_callback, storage, owed>>

\* The second loop raises peak to what this acquisition reached.
RaisePeak(t) ==
    /\ pc[t] = "peak"
    /\ peak' = IF peak < current[t] + bytes[t] THEN current[t] + bytes[t] ELSE peak
    /\ Goto(t, "allocate")
    /\ UNCHANGED <<used, registryVars, bytes, current, callback_capacity, callbacks,
                   next_callback, storage, owed>>

\* Defect of Allocate.
MutAllocationFailureLeaks(t) ==
    /\ pc[t] = "allocate"
    /\ \/ storage' = [storage EXCEPT ![t] = bytes[t]] /\ Goto(t, "holding")
       \/ UNCHANGED storage /\ Goto(t, "idle")
    /\ UNCHANGED <<budgetVars, registryVars, bytes, current, callback_capacity,
                   callbacks, next_callback, owed>>

\* make_shared<BufferLeaseStorage>; when it throws, a charge is given back.
Allocate(t) ==
    /\ pc[t] = "allocate"
    /\ \/ storage' = [storage EXCEPT ![t] = bytes[t]] /\ Goto(t, "holding")
       \/ UNCHANGED storage /\ Goto(t, IF bytes[t] = 0 THEN "idle" ELSE "uncharge")
    /\ UNCHANGED <<budgetVars, registryVars, bytes, current, callback_capacity,
                   callbacks, next_callback, owed>>

-----------------------------------------------------------------------------
(* ~BufferLeaseStorage and release_charge                                  *)

\* Defect of FreeStorage.
MutStorageFreedLate(t) ==
    /\ pc[t] = "holding"
    /\ Goto(t, "uncharge")
    /\ UNCHANGED <<budgetVars, registryVars, bytes, current, callback_capacity,
                   callbacks, next_callback, storage, owed>>

\* The vector is freed before the charge is returned.
FreeStorage(t) ==
    /\ pc[t] = "holding"
    /\ storage' = [storage EXCEPT ![t] = 0]
    /\ Goto(t, "uncharge")
    /\ UNCHANGED <<budgetVars, registryVars, bytes, current, callback_capacity,
                   callbacks, next_callback, owed>>

Uncharge(t) ==
    /\ pc[t] = "uncharge"
    /\ used' = used - bytes[t]
    /\ owed' = [owed EXCEPT ![t] = Range(availability_observers) \cap owned]
    /\ Goto(t, "count")
    /\ UNCHANGED <<peak, registryVars, bytes, current, callback_capacity, callbacks,
                   next_callback, storage>>

CountObservers(t) ==
    /\ pc[t] = "count"
    /\ callback_capacity' = [callback_capacity EXCEPT ![t] = Len(availability_observers)]
    /\ Goto(t, "collect")
    /\ UNCHANGED <<budgetVars, registryVars, bytes, current, callbacks, next_callback,
                   storage, owed>>

\* The reserved room bounds how many registered observers are called.
CollectCallbacks(t) ==
    /\ pc[t] = "collect"
    /\ LET n == Min({callback_capacity[t], Len(availability_observers)})
       IN callbacks' = [callbacks EXCEPT ![t] = Live(SubSeq(availability_observers, 1, n))]
    /\ availability_observers' = Live(availability_observers)
    /\ Goto(t, "notify")
    /\ UNCHANGED <<budgetVars, owned, bytes, current, callback_capacity, next_callback,
                   storage, owed>>

\* Call each observer in turn; drop the references after the last.
Notify(t) ==
    /\ pc[t] = "notify"
    /\ IF next_callback[t] <= Len(callbacks[t])
       THEN /\ owed' = [owed EXCEPT ![t] = @ \ {callbacks[t][next_callback[t]]}]
            /\ next_callback' = [next_callback EXCEPT ![t] = @ + 1]
            /\ UNCHANGED <<callbacks, pc>>
       ELSE /\ callbacks' = [callbacks EXCEPT ![t] = <<>>]
            /\ next_callback' = [next_callback EXCEPT ![t] = 1]
            /\ Goto(t, "idle")
            /\ UNCHANGED owed
    /\ UNCHANGED <<budgetVars, registryVars, bytes, current, callback_capacity, storage>>

-----------------------------------------------------------------------------
(* The registry                                                            *)

\* Defect of Registered.
MutRegisteredFirst(o) ==
    <<o>> \o SelectSeq(availability_observers, LAMBDA p : p # o /\ ~expired(p))

\* The registry after observe_availability(o): expired entries are erased up
\* to o's own entry, which is replaced in place; a new observer goes last.
Registered(o) ==
    IF o \in Range(availability_observers)
    THEN LET i == CHOOSE j \in DOMAIN availability_observers : availability_observers[j] = o
         IN Live(SubSeq(availability_observers, 1, i))
              \o SubSeq(availability_observers, i + 1, Len(availability_observers))
    ELSE Append(Live(availability_observers), o)

\* A scheduler registers itself when it is made, and may do so again.
observe_availability(o) ==
    /\ o \in owned \/ (expired(o) /\ o \notin Range(availability_observers))
    /\ owned' = owned \cup {o}
    /\ availability_observers' = Registered(o)
    /\ UNCHANGED <<budgetVars, threadVars>>

\* The owner of a scheduler drops it; nobody is owed a call any more.
DropObserver(o) ==
    /\ o \in owned
    /\ owned' = owned \ {o}
    /\ owed' = [t \in Threads |-> owed[t] \ {o}]
    /\ UNCHANGED <<budgetVars, availability_observers, pc, bytes, current,
                   callback_capacity, callbacks, next_callback, storage>>

-----------------------------------------------------------------------------
ReleaseStep(t) ==
    \/ FreeStorage(t) \/ Uncharge(t) \/ CountObservers(t) \/ CollectCallbacks(t) \/ Notify(t)

AcquireStep(t) == CompareExchange(t) \/ RaisePeak(t) \/ Allocate(t)

Next ==
    \/ \E t \in Threads :
         \/ \E n \in Requests : try_acquire(t, n)
         \/ AcquireStep(t) \/ ReleaseStep(t)
    \/ \E o \in Observers : observe_availability(o) \/ DropObserver(o)

Spec == Init /\ [][Next]_vars

-----------------------------------------------------------------------------
(* Properties                                                              *)

\* Every variable has its type, and the counter stays within the limit.
TypeOK ==
    /\ used \in 0..Limit /\ peak \in 0..Limit
    /\ availability_observers \in Seq(Observers) /\ owned \subseteq Observers
    /\ pc \in [Threads -> Pcs]
    /\ bytes \in [Threads -> Requests \cup {0}] /\ current \in [Threads -> 0..Limit]
    /\ callback_capacity \in [Threads -> Nat]
    /\ callbacks \in [Threads -> Seq(Observers)] /\ next_callback \in [Threads -> Nat]
    /\ storage \in [Threads -> Nat] /\ owed \in [Threads -> SUBSET Observers]

\* Threads whose acquisition has been charged and not yet given back.
Charged == {t \in Threads : pc[t] \in {"peak", "allocate", "holding", "uncharge"}}

Total(f, S) == MapThenSumSet(LAMBDA t : f[t], S)

\* The shared counter is exactly the sum of the charges outstanding, through
\* failed swaps and failed allocations, so it never drifts (buffer_budget.cpp:282-308),
\* and peak covers it once the acquisitions that raised it have recorded it.
AccountingExact ==
    /\ used = Total(bytes, Charged)
    /\ (\A t \in Threads : pc[t] # "peak") => used <= peak

\* Storage that exists is always covered by the counter, so another thread
\* "cannot observe returned budget while the corresponding allocation is still
\* live" (buffer_budget.cpp:116).
StorageCovered == Total(storage, Threads) <= used

\* A release has called every observer that was registered when it returned
\* its charge and is still owned, however registrations, expiries and other
\* releases reshape the registry between its two looks at it.
NoObserverMissed == \A t \in Threads : pc[t] = "idle" => owed[t] = {}
=============================================================================
