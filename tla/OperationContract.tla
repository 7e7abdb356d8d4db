------------------------- MODULE OperationContract -------------------------
(***************************************************************************)
(* What an asynchronous operation promises to the holder of its handle     *)
(* (src/api/operation_state.hpp): a phase that moves forward once, and a    *)
(* cancellation request that is never answered with success.               *)
(***************************************************************************)
VARIABLES phase, cancel_requested

contractVars == <<phase, cancel_requested>>

OperationPhase == {"Created", "Running", "Succeeded", "Failed", "Cancelled"}

terminal(p) == p \in {"Succeeded", "Failed", "Cancelled"}

ContractInit == phase = "Created" /\ cancel_requested = FALSE

\* The worker takes the task up.
Begin ==
    /\ phase = "Created"
    /\ phase' = "Running"
    /\ UNCHANGED cancel_requested

\* The first cancellation of an operation that has not ended; one that was
\* never started ends at once.
Request ==
    /\ ~terminal(phase) /\ ~cancel_requested
    /\ cancel_requested' = TRUE
    /\ phase' \in IF phase = "Created" THEN {phase, "Cancelled"} ELSE {phase}

\* The one outcome, published; success only if nobody asked to cancel.
Publish ==
    /\ phase = "Running"
    /\ phase' \in {"Failed", "Cancelled"}
                    \cup IF cancel_requested THEN {} ELSE {"Succeeded"}
    /\ UNCHANGED cancel_requested

ContractNext == Begin \/ Request \/ Publish

\* Every behaviour of a handle is one of these: the phase moves forward once and
\* success never answers a cancellation request.
ContractSpec == ContractInit /\ [][ContractNext]_contractVars
=============================================================================
