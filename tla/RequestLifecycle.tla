-------------------------- MODULE RequestLifecycle --------------------------
(***************************************************************************)
(* The sequential lifecycle of a request slot, as the executable oracle    *)
(* apply_request_transition of ferric-spec/src/scheduling.rs states it,    *)
(* for a set of independent slots: in every step each slot makes one of    *)
(* the oracle's transitions or none.  The oracle distinguishes work the    *)
(* GPU still executes from the KV work that is mandatory after it, which   *)
(* the slot state alone does not.  Production code never calls the oracle; *)
(* Scheduler.tla is shown to implement this module.                        *)
(*                                                                         *)
(* generation is the slot's generation: the oracle leaves it out, and the  *)
(* scheduler advances it in the step that detaches the KV state.           *)
(***************************************************************************)
EXTENDS Integers

CONSTANT Slots

VARIABLES state, phase, generation

lifecycle == <<state, phase, generation>>

\* Slot s goes from state st1 and phase ph1 to st2 and ph2.
Move(s, st1, ph1, st2, ph2) ==
    /\ state[s] = st1 /\ phase[s] = ph1
    /\ state'[s] = st2 /\ phase'[s] = ph2

SameGeneration(s) == generation'[s] = generation[s]

NextGeneration(s) == generation'[s] = generation[s] + 1

LInit ==
    \A s \in Slots : state[s] = "Vacant" /\ phase[s] = "Idle" /\ generation[s] = 1

LAdmit(s) ==
    Move(s, "Vacant", "Idle", "Ready", "Idle") /\ SameGeneration(s)

LDispatch(s) ==
    Move(s, "Ready", "Idle", "InFlight", "Executing") /\ SameGeneration(s)

LRetire(s) ==
    /\ \/ Move(s, "Ready", "Idle", "Retiring", "RetiringQuiescent")
       \/ Move(s, "InFlight", "AwaitingKv", "Retiring", "RetiringQuiescent")
       \/ Move(s, "InFlight", "Executing", "Retiring", "RetiringExecuting")
    /\ SameGeneration(s)

LCompleteExact(s) ==
    /\ \/ Move(s, "InFlight", "Executing", "InFlight", "AwaitingKv")
       \/ Move(s, "Retiring", "RetiringExecuting", "Retiring", "RetiringQuiescent")
    /\ SameGeneration(s)

LFinalizeKv(s) ==
    Move(s, "InFlight", "AwaitingKv", "Ready", "Idle") /\ SameGeneration(s)

LDetachKv(s) ==
    Move(s, "Retiring", "RetiringQuiescent", "Vacant", "Idle") /\ NextGeneration(s)

\* Scheduler::reincarnate_detached: DetachKv and the Admit of the next
\* generation as one step, without a vacant state in between.
LDetachThenAdmit(s) ==
    Move(s, "Retiring", "RetiringQuiescent", "Ready", "Idle") /\ NextGeneration(s)

LIdle(s) == Move(s, state[s], phase[s], state[s], phase[s]) /\ SameGeneration(s)

LStep(s) ==
    \/ LAdmit(s) \/ LDispatch(s) \/ LRetire(s) \/ LCompleteExact(s)
    \/ LFinalizeKv(s) \/ LDetachKv(s) \/ LDetachThenAdmit(s) \/ LIdle(s)

LNext == \A s \in Slots : LStep(s)

LSpec == LInit /\ [][LNext]_lifecycle

=============================================================================
