------------------------------ MODULE Identity ------------------------------
(***************************************************************************)
(* Generational request handles (ferric-spec/src/identity.rs).             *)
(*                                                                         *)
(* A request is named by the slot it occupies and the generation of that   *)
(* slot.  The slot is reused, the pair never is: both the scheduler and    *)
(* the cache compare the generation before they touch a slot.              *)
(* MaxGeneration stands for u32::MAX and MaxRequestSlots for               *)
(* MAX_REQUEST_SLOTS = 32 (cache.rs).                                      *)
(***************************************************************************)
EXTENDS Integers

CONSTANTS MaxRequestSlots, MaxGeneration

ASSUME IdentityAssumption ==
    /\ MaxRequestSlots \in Nat \ {0}
    /\ MaxGeneration \in Nat \ {0}

RequestSlot == 0 .. (MaxRequestSlots - 1)

Generation == 1 .. MaxGeneration

RequestId == [slot : RequestSlot, generation : Generation]

MinOf(a, b) == IF a <= b THEN a ELSE b

=============================================================================
