-------------------------------- MODULE Ring --------------------------------
(***************************************************************************)
(* The array form of the scheduler's free, reclaim, member and batch rings *)
(* (scheduler.rs): an array of Capacity entries, the index of the first    *)
(* live one and their number.  A push writes at ring_tail and lengthens, a *)
(* pop advances the head; what a pop leaves behind in the array stays      *)
(* there.  The free ring starts full of the slot indices, the others start *)
(* empty over zeroes (for the member and batch rings, the zero entry).     *)
(***************************************************************************)
EXTENDS Naturals, Sequences

CONSTANTS Capacity, Value

ASSUME RingAssumption ==
    /\ Capacity \in Nat \ {0}
    /\ 0 .. (Capacity - 1) \subseteq Value

VARIABLES buf, head, len

ringVars == <<buf, head, len>>

Index == 0 .. (Capacity - 1)

Advance(i) == IF i + 1 = Capacity THEN 0 ELSE i + 1

\* A plausible slip: a wrapped tail is one too far.
RingTailLate(h, l) == IF l < Capacity - h THEN h + l ELSE l - (Capacity - h) + 1

RingTail(h, l) == IF l < Capacity - h THEN h + l ELSE l - (Capacity - h)

RingInit ==
    /\ head = 0
    /\ \/ buf = [i \in Index |-> i] /\ len = Capacity
       \/ buf = [i \in Index |-> 0] /\ len = 0

Push(v) ==
    /\ len < Capacity
    /\ buf' = [buf EXCEPT ![RingTail(head, len)] = v]
    /\ len' = len + 1
    /\ UNCHANGED head

Pop ==
    /\ len > 0
    /\ head' = Advance(head)
    /\ len' = len - 1
    /\ UNCHANGED buf

RingNext == (\E v \in Value : Push(v)) \/ Pop

RingSpec == RingInit /\ [][RingNext]_ringVars

\* The array, the head and the length have their types.
RingTypeOK ==
    /\ buf \in [Index -> Value]
    /\ head \in Index
    /\ len \in 0 .. Capacity

\* The live entries, oldest first.
Contents == [i \in 1 .. len |-> buf[RingTail(head, i - 1)]]

Queue == INSTANCE Fifo WITH queue <- Contents

\* However often the ring has wrapped, its live entries behave as the queue
\* Scheduler.tla uses in its place: ring_tail never lands on a live entry, and
\* advance goes to the next oldest one.
FifoRefined == Queue!FifoSpec

=============================================================================
