----------------------------- MODULE Scheduler ------------------------------
(***************************************************************************)
(* The fixed-capacity generational scheduler of                            *)
(* ferric-engine/src/scheduler.rs: Scheduler<C>.                           *)
(*                                                                         *)
(* C request slots move between a free ring, a reclaim ring and the ring   *)
(* of members of the pending batches.  dispatch_* submits a batch under    *)
(* the next epoch; complete_exact accepts only the exact next epoch and    *)
(* hands out one linear KV-quiescence permit per member; a permit comes    *)
(* back as cache evidence that makes its slot ready again (finalized) or   *)
(* retires the generation (detached).                                      *)
(*                                                                         *)
(* The four rings are sequences here (array, head and length in the code;  *)
(* Ring.tla shows the array form implements the sequence form).            *)
(* permits is the linear authority the scheduler has handed out and not    *)
(* taken back, in the order of issue: a permit is a KvQuiescencePermit, or *)
(* the KvFinalizedRequest / KvDetachedRequest the cache turned it into.    *)
(* origin 0 is KvQuiescenceOrigin::NeverSubmitted, any other value         *)
(* CompletedExact{epoch}.  MaxEpoch stands for u64::MAX.                   *)
(* A call that returns an error before any assignment changes nothing and  *)
(* is a stuttering step.                                                   *)
(***************************************************************************)
EXTENDS Identity, Sequences, FiniteSets

CONSTANTS C, MaxEpoch

ASSUME SchedulerAssumption ==
    /\ C \in Nat \ {0}
    /\ C <= MaxRequestSlots
    /\ MaxEpoch \in Nat \ {0}

VARIABLES slots, free_ring, reclaim_ring, member_ring, batch_ring,
          cursor, submitted, completed, live_count, permits

rings == <<free_ring, reclaim_ring, member_ring, batch_ring>>
scalars == <<cursor, submitted, completed, live_count>>
schedVars == <<slots, rings, scalars, permits>>

SlotIndex == 0 .. (C - 1)

Epoch == 0 .. MaxEpoch

NoEpoch == 0

RequestState == {"Vacant", "Ready", "InFlight", "Retiring"}

Slot == [generation : Generation, state : RequestState,
         active_epoch : Epoch, last_quiescent_epoch : Epoch,
         in_free_ring : BOOLEAN, in_reclaim_ring : BOOLEAN]

Permit == [request : RequestId, origin : Epoch]

BatchRecord == [epoch : Epoch, member_count : 1 .. C]

FreshSlot(g, st, free) ==
    [generation |-> g, state |-> st,
     active_epoch |-> NoEpoch, last_quiescent_epoch |-> NoEpoch,
     in_free_ring |-> free, in_reclaim_ring |-> FALSE]

\* The current handle of slot s.
Handle(s) == [slot |-> s, generation |-> slots[s].generation]

\* Scheduler::state: r is the slot's current generation and not vacant.
Live(r) ==
    /\ r.slot \in SlotIndex
    /\ slots[r.slot].generation = r.generation
    /\ slots[r.slot].state # "Vacant"

\* advance::<C>, generalised to any distance below C.
Wrap(i) == IF i < C THEN i ELSE i - C

\* The sequence without its i-th element.
Without(seq, i) ==
    [j \in 1 .. (Len(seq) - 1) |-> IF j < i THEN seq[j] ELSE seq[j + 1]]

SchedInit ==
    /\ slots = [s \in SlotIndex |-> FreshSlot(1, "Vacant", TRUE)]
    /\ free_ring = [i \in 1 .. C |-> i - 1]
    /\ reclaim_ring = <<>> /\ member_ring = <<>> /\ batch_ring = <<>>
    /\ cursor = 0 /\ submitted = 0 /\ completed = 0 /\ live_count = 0
    /\ permits = <<>>

-----------------------------------------------------------------------------
(* Admission and retirement *)

\* A plausible slip: the flag that mirrors ring membership is left set.
AdmitKeepsFlag ==
    /\ free_ring # <<>>
    /\ slots' = [slots EXCEPT ![Head(free_ring)] = [@ EXCEPT !.state = "Ready"]]
    /\ free_ring' = Tail(free_ring)
    /\ live_count' = live_count + 1
    /\ UNCHANGED <<reclaim_ring, member_ring, batch_ring, cursor, submitted,
                   completed, permits>>

Admit ==
    /\ free_ring # <<>>
    /\ slots' = [slots EXCEPT ![Head(free_ring)] = [@ EXCEPT !.state = "Ready",
                                                             !.in_free_ring = FALSE]]
    /\ free_ring' = Tail(free_ring)
    /\ live_count' = live_count + 1
    /\ UNCHANGED <<reclaim_ring, member_ring, batch_ring, cursor, submitted,
                   completed, permits>>

\* A plausible slip: the slot is not queued for reclamation.
RetireReadyForgets(r) ==
    /\ Live(r)
    /\ slots[r.slot].state = "Ready"
    /\ slots' = [slots EXCEPT ![r.slot] = [@ EXCEPT !.state = "Retiring",
                                                    !.active_epoch = NoEpoch]]
    /\ UNCHANGED <<rings, scalars, permits>>

RetireReady(r) ==
    /\ Live(r)
    /\ slots[r.slot].state = "Ready"
    /\ slots' = [slots EXCEPT ![r.slot] = [@ EXCEPT !.state = "Retiring",
                                                    !.active_epoch = NoEpoch,
                                                    !.in_reclaim_ring = TRUE]]
    /\ reclaim_ring' = Append(reclaim_ring, r.slot)
    /\ UNCHANGED <<free_ring, member_ring, batch_ring, scalars, permits>>

\* A plausible slip: an in-flight request becomes reclaimable at once.
RetireInflightReclaims(r) ==
    /\ Live(r)
    /\ slots[r.slot].state = "InFlight"
    /\ slots' = [slots EXCEPT ![r.slot] = [@ EXCEPT !.state = "Retiring",
                                                    !.active_epoch = NoEpoch,
                                                    !.in_reclaim_ring = TRUE]]
    /\ reclaim_ring' = Append(reclaim_ring, r.slot)
    /\ UNCHANGED <<free_ring, member_ring, batch_ring, scalars, permits>>

\* The request stays attached to its batch; only its state changes.
RetireInflight(r) ==
    /\ Live(r)
    /\ slots[r.slot].state = "InFlight"
    /\ slots' = [slots EXCEPT ![r.slot] = [@ EXCEPT !.state = "Retiring"]]
    /\ UNCHANGED <<rings, scalars, permits>>

Retire(r) == RetireReady(r) \/ RetireInflight(r)

-----------------------------------------------------------------------------
(* Dispatch *)

\* The commit common to both dispatches: the slots of roster, in order, become
\* the members of one batch under the next epoch.
Submit(roster) ==
    /\ slots' = [s \in SlotIndex |->
                    IF \E i \in 1 .. Len(roster) : roster[i] = s
                    THEN [slots[s] EXCEPT !.state = "InFlight",
                                          !.active_epoch = submitted + 1]
                    ELSE slots[s]]
    /\ member_ring' = member_ring \o [i \in 1 .. Len(roster) |-> Handle(roster[i])]
    /\ batch_ring' = Append(batch_ring, [epoch |-> submitted + 1,
                                         member_count |-> Len(roster)])
    /\ submitted' = submitted + 1
    /\ UNCHANGED <<free_ring, reclaim_ring, completed, live_count, permits>>

\* dispatch_scan_commit's loop from the cursor: roster is what it selects when
\* it stops at limit members or after C slots.  at[i] is the scan offset of the
\* i-th selected slot.
ScanSelects(roster, at, limit) ==
    LET k == Len(roster) IN
    /\ \A i \in 1 .. k : /\ roster[i] = Wrap(cursor + at[i])
                         /\ slots[roster[i]].state = "Ready"
    /\ \A i, j \in 1 .. k : i < j => at[i] < at[j]
    /\ \A o \in SlotIndex :
          /\ slots[Wrap(cursor + o)].state = "Ready"
          /\ o < at[k] \/ k < limit
          => \E i \in 1 .. k : at[i] = o

\* A plausible slip: the scan always starts at the same slot.
CursorAfterStays(last, full) == cursor

\* The scan stops just after its last selection when it filled the batch, and
\* comes round to where it started otherwise.
CursorAfter(last, full) == IF full THEN Wrap(cursor + last + 1) ELSE cursor

\* dispatch_ready with room for len members in the caller's output.
DispatchReady(len) ==
    /\ len > 0
    /\ submitted < MaxEpoch
    /\ Len(batch_ring) < C
    /\ Len(member_ring) < C
    /\ LET limit == MinOf(len, C - Len(member_ring)) IN
       \E k \in 1 .. limit :
         \E at \in [1 .. k -> SlotIndex] :
            LET roster == [i \in 1 .. k |-> Wrap(cursor + at[i])] IN
            /\ ScanSelects(roster, at, limit)
            /\ Submit(roster)
            /\ cursor' = CursorAfter(at[k], k = limit)

\* A plausible slip: the roster is not checked for duplicate slots.
ExactRosterUnchecked(roster) ==
    \A i \in 1 .. Len(roster) : slots[roster[i]].state = "Ready"

\* The per-lane checks of dispatch_m1_exact_ready on the named requests, which
\* are given here by their slots (a stale handle is rejected by the lookup).
ExactRoster(roster) ==
    /\ \A i \in 1 .. Len(roster) : slots[roster[i]].state = "Ready"
    /\ \A i, j \in 1 .. Len(roster) : i < j => roster[i] # roster[j]

\* The caller's own lane order; the cursor is not moved.
DispatchExact(roster) ==
    /\ submitted < MaxEpoch
    /\ Len(batch_ring) < C
    /\ Len(roster) <= C - Len(member_ring)
    /\ ExactRoster(roster)
    /\ Submit(roster)
    /\ UNCHANGED cursor

-----------------------------------------------------------------------------
(* Completion and the authority it issues *)

\* completion_preflight and complete_exact: the slots are not touched, the head
\* batch leaves both rings and each member gets its permit.
CompleteExact(observed) ==
    /\ batch_ring # <<>>
    /\ observed = completed + 1
    /\ Head(batch_ring).epoch = observed
    /\ LET n == Head(batch_ring).member_count IN
       /\ permits' = permits \o [i \in 1 .. n |->
                        [request |-> member_ring[i], origin |-> observed]]
       /\ member_ring' = SubSeq(member_ring, n + 1, Len(member_ring))
    /\ batch_ring' = Tail(batch_ring)
    /\ completed' = observed
    /\ UNCHANGED <<slots, free_ring, reclaim_ring, cursor, submitted, live_count>>

\* A plausible slip: the state of the slot is not looked at.
FinalizableAnyState(p) ==
    /\ p.origin # NoEpoch
    /\ slots[p.request.slot].generation = p.request.generation
    /\ slots[p.request.slot].active_epoch # NoEpoch
    /\ slots[p.request.slot].active_epoch <= completed
    /\ slots[p.request.slot].active_epoch = p.origin

\* finalized_origin and finalized_request_preflight.
Finalizable(p) ==
    /\ p.origin # NoEpoch
    /\ slots[p.request.slot].generation = p.request.generation
    /\ slots[p.request.slot].state = "InFlight"
    /\ slots[p.request.slot].active_epoch # NoEpoch
    /\ slots[p.request.slot].active_epoch <= completed
    /\ slots[p.request.slot].active_epoch = p.origin

AcceptFinalized(i) ==
    LET p == permits[i] IN
    /\ Finalizable(p)
    /\ slots' = [slots EXCEPT ![p.request.slot] = [@ EXCEPT !.state = "Ready",
                                                            !.active_epoch = NoEpoch,
                                                            !.last_quiescent_epoch = p.origin]]
    /\ permits' = Without(permits, i)
    /\ UNCHANGED <<rings, scalars>>

TakeRetiringPermit ==
    /\ reclaim_ring # <<>>
    /\ LET s == Head(reclaim_ring) IN
       /\ slots[s].state = "Retiring"
       /\ slots[s].active_epoch = NoEpoch
       /\ slots[s].in_reclaim_ring
       /\ slots' = [slots EXCEPT ![s] = [@ EXCEPT !.in_reclaim_ring = FALSE]]
       /\ permits' = Append(permits, [request |-> Handle(s),
                                      origin |-> slots[s].last_quiescent_epoch])
    /\ reclaim_ring' = Tail(reclaim_ring)
    /\ UNCHANGED <<free_ring, member_ring, batch_ring, scalars>>

OriginMatches(p) ==
    LET slot == slots[p.request.slot] IN
    IF slot.active_epoch = NoEpoch
    THEN slot.last_quiescent_epoch = p.origin
    ELSE p.origin # NoEpoch /\ slot.active_epoch = p.origin /\ p.origin <= completed

\* A plausible slip: the generation is not checked for exhaustion.
DetachableUnbounded(p) ==
    /\ slots[p.request.slot].generation = p.request.generation
    /\ slots[p.request.slot].state = "Retiring"
    /\ ~slots[p.request.slot].in_reclaim_ring
    /\ OriginMatches(p)
    /\ Len(free_ring) # C

\* detached_preflight and reclaim_next_generation.
Detachable(p) ==
    /\ slots[p.request.slot].generation = p.request.generation
    /\ slots[p.request.slot].state = "Retiring"
    /\ ~slots[p.request.slot].in_reclaim_ring
    /\ OriginMatches(p)
    /\ slots[p.request.slot].generation < MaxGeneration
    /\ Len(free_ring) # C

\* reclaim_detached and reclaim_slot.
ReclaimDetached(i) ==
    LET p == permits[i]
        s == p.request.slot IN
    /\ Detachable(p)
    /\ free_ring' = Append(free_ring, s)
    /\ slots' = [slots EXCEPT ![s] = FreshSlot(slots[s].generation + 1, "Vacant", TRUE)]
    /\ live_count' = live_count - 1
    /\ permits' = Without(permits, i)
    /\ UNCHANGED <<reclaim_ring, member_ring, batch_ring, cursor, submitted, completed>>

\* reincarnate_detached: the next generation without a pass through the free
\* ring.  Its precondition is the preflight its caller has already made.
ReincarnateDetached(i) ==
    LET p == permits[i]
        s == p.request.slot IN
    /\ Detachable(p)
    /\ slots' = [slots EXCEPT ![s] = FreshSlot(slots[s].generation + 1, "Ready", FALSE)]
    /\ permits' = Without(permits, i)
    /\ UNCHANGED <<rings, scalars>>

\* A permit, or the evidence made of it, is dropped: the cache refused it, the
\* scheduler refused the evidence, or the owner let go of it.
DropPermit(i) ==
    /\ permits' = Without(permits, i)
    /\ UNCHANGED <<slots, rings, scalars>>

\* Engine::clear_permits.
ClearPermits ==
    /\ permits # <<>>
    /\ permits' = <<>>
    /\ UNCHANGED <<slots, rings, scalars>>

SchedNext ==
    \/ Admit
    \/ \E r \in RequestId : Retire(r)
    \/ \E len \in 1 .. C : DispatchReady(len)
    \/ \E n \in 1 .. C : \E roster \in [1 .. n -> SlotIndex] : DispatchExact(roster)
    \/ \E e \in Epoch : CompleteExact(e)
    \/ TakeRetiringPermit
    \/ \E i \in 1 .. Len(permits) :
          AcceptFinalized(i) \/ ReclaimDetached(i) \/ ReincarnateDetached(i)
          \/ DropPermit(i)
    \/ ClearPermits

SchedSpec == SchedInit /\ [][SchedNext]_schedVars

-----------------------------------------------------------------------------
(* Properties *)

\* The state of the scheduler has its type and no ring exceeds its array of C.
SchedTypeOK ==
    /\ slots \in [SlotIndex -> Slot]
    /\ free_ring \in Seq(SlotIndex) /\ Len(free_ring) <= C
    /\ reclaim_ring \in Seq(SlotIndex) /\ Len(reclaim_ring) <= C
    /\ member_ring \in Seq(RequestId) /\ Len(member_ring) <= C
    /\ batch_ring \in Seq(BatchRecord) /\ Len(batch_ring) <= C
    /\ cursor \in SlotIndex /\ submitted \in Epoch /\ completed \in Epoch
    /\ live_count \in 0 .. C
    /\ permits \in Seq(Permit)

Injective(seq) == \A i, j \in 1 .. Len(seq) : seq[i] = seq[j] => i = j

Holds(ring, s) == \E i \in 1 .. Len(ring) : ring[i] = s

\* The flags of slot s and the rings it is in follow from its state.
Listed(s) ==
    /\ slots[s].in_free_ring <=> slots[s].state = "Vacant"
    /\ slots[s].in_free_ring <=> Holds(free_ring, s)
    /\ slots[s].in_reclaim_ring <=> Holds(reclaim_ring, s)
    /\ slots[s].in_reclaim_ring =>
          slots[s].state = "Retiring" /\ slots[s].active_epoch = NoEpoch

\* A slot is in the free ring exactly when it is vacant, in the reclaim ring
\* only when it was retired with no epoch outstanding and nobody has taken its
\* permit, never twice, and the flags kept in the slot agree: admit never hands
\* out a live slot and no retired slot is reclaimed twice.
RingsExact ==
    /\ Injective(free_ring) /\ Injective(reclaim_ring)
    /\ \A s \in SlotIndex : Listed(s)

\* cut[k] members of the ring belong to the first k batches, and a member in the
\* k-th batch's window executes under that batch's epoch.
Windows(cut) ==
    /\ cut[0] = 0 /\ cut[Len(batch_ring)] = Len(member_ring)
    /\ \A k \in 1 .. Len(batch_ring) :
          cut[k] = cut[k - 1] + batch_ring[k].member_count
    /\ \A j, k \in 0 .. Len(batch_ring) : j <= k => cut[j] <= cut[k]
    /\ \A i \in 1 .. Len(member_ring) : \E k \in 1 .. Len(batch_ring) :
          /\ cut[k - 1] < i /\ i <= cut[k]
          /\ slots[member_ring[i].slot].active_epoch = completed + k

\* r is a handle of the current generation of its slot, which is occupied.
Occupies(r) ==
    /\ r.slot \in SlotIndex
    /\ r = Handle(r.slot)
    /\ slots[r.slot].state \in {"InFlight", "Retiring"}

\* The submitted and not completed epochs are consecutive, one batch each; the
\* member ring is cut into the batches' windows, each member's handle is its
\* slot's current generation, executing under its batch's epoch; no slot is in
\* two places; and every slot with an uncompleted epoch is there.  This is what
\* makes the exact-next completion quiesce exactly the requests it names, and
\* what a cancellation between dispatch and completion must not break.
PendingExact ==
    /\ submitted = completed + Len(batch_ring)
    /\ \A k \in 1 .. Len(batch_ring) : batch_ring[k].epoch = completed + k
    /\ \E cut \in [0 .. Len(batch_ring) -> 0 .. Len(member_ring)] : Windows(cut)
    /\ \A i \in 1 .. Len(member_ring) : Occupies(member_ring[i])
    /\ \A i, j \in 1 .. Len(member_ring) :
        member_ring[i].slot = member_ring[j].slot => i = j
    /\ \A s \in SlotIndex : slots[s].active_epoch > completed =>
        \E i \in 1 .. Len(member_ring) : member_ring[i].slot = s

\* The authority a permit stands for.
PermitSound(p) ==
    /\ Occupies(p.request)
    /\ ~slots[p.request.slot].in_reclaim_ring
    /\ OriginMatches(p)
    /\ slots[p.request.slot].state = "InFlight" =>
          slots[p.request.slot].active_epoch = p.origin

\* An outstanding permit names the current generation of a slot whose last
\* epoch has completed (or that was never submitted), a slot has at most one,
\* and such a slot is neither ready nor vacant nor waiting in the reclaim ring:
\* the KV state a permit lets the cache drop is quiescent and nobody else's.
PermitAuthority ==
    /\ \A i \in 1 .. Len(permits) : PermitSound(permits[i])
    /\ \A i, j \in 1 .. Len(permits) :
        permits[i].request.slot = permits[j].request.slot => i = j

\* How far the rotating scan is from slot s.
Distance(s) == IF s >= cursor THEN s - cursor ELSE s + C - cursor

\* A dispatch_ready that leaves a ready request behind brings the cursor
\* strictly closer to it, so fewer than C such dispatches can pass it over.
BypassStep ==
    (\E len \in 1 .. C : DispatchReady(len)) =>
        \A s \in SlotIndex :
            slots[s].state = "Ready" /\ slots'[s].state = "Ready"
            => Distance(s)' < Distance(s)

BoundedBypass == [][BypassStep]_schedVars

\* Scheduler::slot_model's phase of slot s.
Phase(s) ==
    IF slots[s].state \in {"Vacant", "Ready"} THEN "Idle"
    ELSE IF slots[s].state = "InFlight"
         THEN IF slots[s].active_epoch <= completed THEN "AwaitingKv" ELSE "Executing"
         ELSE IF slots[s].active_epoch <= completed THEN "RetiringQuiescent"
              ELSE "RetiringExecuting"

Lifecycle == INSTANCE RequestLifecycle WITH
    Slots <- SlotIndex,
    state <- [s \in SlotIndex |-> slots[s].state],
    phase <- [s \in SlotIndex |-> Phase(s)],
    generation <- [s \in SlotIndex |-> slots[s].generation]

\* Every slot follows the sequential lifecycle of ferric-spec, whatever the
\* other slots do and however many batches are pending.
LifecycleRefined == Lifecycle!LSpec

=============================================================================
