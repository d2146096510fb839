--------------------------- MODULE SchedulerProofs --------------------------
(***************************************************************************)
(* Proofs about Scheduler, for every capacity C and every bound on epochs  *)
(* and generations.                                                        *)
(*                                                                         *)
(* The safety invariants are proved together, as the inductive invariant   *)
(* SchedInv: each needs the others.  The rings tell whose slot an action   *)
(* touches, the permits and the pending members keep apart the slots whose *)
(* epoch has completed from those it has not, and two facts no property    *)
(* states are needed: how a slot's state restricts its epoch, and that the *)
(* free slots and the live ones make up C.                                 *)
(***************************************************************************)
EXTENDS Scheduler, SequenceTheorems, FiniteSetTheorems, TLAPS

\* A request that is vacant or ready executes nothing, one in flight executes
\* something, and no slot is ahead of the last submission.
SlotEpochs ==
    \A s \in SlotIndex :
        /\ slots[s].state \in {"Vacant", "Ready"} => slots[s].active_epoch = NoEpoch
        /\ slots[s].state = "InFlight" => slots[s].active_epoch # NoEpoch
        /\ slots[s].active_epoch <= submitted

\* Every slot is free or counted live.
SlotsCounted == Len(free_ring) + live_count = C

SchedInv ==
    /\ SchedTypeOK /\ RingsExact /\ PendingExact /\ PermitAuthority
    /\ SlotEpochs /\ SlotsCounted
-----------------------------------------------------------------------------
(* Sequences *)

\* What Without keeps: everything but the i-th element, in order.
LEMMA WithoutProperties ==
    ASSUME NEW S, NEW seq \in Seq(S), NEW i \in 1 .. Len(seq)
    PROVE  /\ Without(seq, i) \in Seq(S)
           /\ Len(Without(seq, i)) = Len(seq) - 1
           /\ \A j \in 1 .. (Len(seq) - 1) :
                 Without(seq, i)[j] = IF j < i THEN seq[j] ELSE seq[j + 1]
<1>1. Len(seq) - 1 \in Nat /\ \A j \in 1 .. Len(seq) : seq[j] \in S
  OBVIOUS
<1>2. Without(seq, i) \in [1 .. (Len(seq) - 1) -> S]
  BY <1>1 DEF Without
<1> QED
  BY <1>1, <1>2 DEF Without

\* Every element of Without(seq, i) is one of seq at another place than i, and
\* distinct places come from distinct places.
LEMMA WithoutElements ==
    ASSUME NEW S, NEW seq \in Seq(S), NEW i \in 1 .. Len(seq)
    PROVE  \E from \in [1 .. (Len(seq) - 1) -> 1 .. Len(seq)] :
              /\ \A j \in 1 .. (Len(seq) - 1) :
                    from[j] # i /\ Without(seq, i)[j] = seq[from[j]]
              /\ \A j, k \in 1 .. (Len(seq) - 1) : from[j] = from[k] => j = k
<1> DEFINE from == [j \in 1 .. (Len(seq) - 1) |-> IF j < i THEN j ELSE j + 1]
<1>1. Len(seq) \in Nat
  OBVIOUS
<1>2. from \in [1 .. (Len(seq) - 1) -> 1 .. Len(seq)]
  BY <1>1
<1>3. \A j \in 1 .. (Len(seq) - 1) :
         from[j] # i /\ Without(seq, i)[j] = seq[from[j]]
  BY <1>1 DEF Without
<1>4. \A j, k \in 1 .. (Len(seq) - 1) : from[j] = from[k] => j = k
  BY <1>1
<1> HIDE DEF from
<1> QED
  BY Zenon, <1>2, <1>3, <1>4

\* A ring that holds no slot twice fits in its array.
LEMMA InjectiveBound ==
    ASSUME NEW seq \in Seq(SlotIndex), Injective(seq)
    PROVE  Len(seq) <= C
<1>1. Len(seq) \in Nat /\ C \in Nat
  BY SchedulerAssumption
<1>2. IsFiniteSet(1 .. Len(seq)) /\ Cardinality(1 .. Len(seq)) = Len(seq)
  BY SMTT(30), <1>1, FS_Interval
<1>3. IsFiniteSet(SlotIndex) /\ Cardinality(SlotIndex) = C
  <2>1. IsFiniteSet(0 .. (C - 1)) /\ Cardinality(0 .. (C - 1)) = C
    BY SchedulerAssumption, FS_Interval
  <2> QED
    BY <2>1 DEF SlotIndex
<1>4. seq \in [1 .. Len(seq) -> SlotIndex]
  OBVIOUS
<1>5. ~(\E x, y \in 1 .. Len(seq) : x # y /\ seq[x] = seq[y])
  BY DEF Injective
<1>6. ~(Cardinality(SlotIndex) < Cardinality(1 .. Len(seq)))
  BY <1>2, <1>3, <1>4, <1>5, FS_PigeonHole
<1> QED
  BY <1>1, <1>2, <1>3, <1>6

\* Pushing a slot that is not in the ring.
LEMMA RingAppend ==
    ASSUME NEW seq \in Seq(SlotIndex), Injective(seq), NEW s \in SlotIndex,
           ~Holds(seq, s)
    PROVE  /\ Append(seq, s) \in Seq(SlotIndex)
           /\ Len(Append(seq, s)) = Len(seq) + 1
           /\ Len(Append(seq, s)) <= C
           /\ Injective(Append(seq, s))
           /\ \A t : Holds(Append(seq, s), t) <=> t = s \/ Holds(seq, t)
<1>1. /\ Append(seq, s) \in Seq(SlotIndex)
      /\ Len(Append(seq, s)) = Len(seq) + 1
      /\ \A i \in 1 .. Len(seq) : Append(seq, s)[i] = seq[i]
      /\ Append(seq, s)[Len(seq) + 1] = s
  BY AppendProperties
<1>2. Len(seq) \in Nat
  OBVIOUS
<1>3. Injective(Append(seq, s))
  BY <1>1, <1>2 DEF Injective, Holds
<1>4. Len(Append(seq, s)) <= C
  BY Zenon, <1>1, <1>3, InjectiveBound
<1>5. \A t : Holds(Append(seq, s), t) <=> t = s \/ Holds(seq, t)
  BY <1>1, <1>2 DEF Holds
<1> QED
  BY <1>1, <1>3, <1>4, <1>5

\* Popping the oldest slot.
LEMMA RingTailOf ==
    ASSUME NEW seq \in Seq(SlotIndex), Injective(seq), seq # <<>>
    PROVE  /\ Head(seq) \in SlotIndex /\ Len(seq) >= 1
           /\ Tail(seq) \in Seq(SlotIndex)
           /\ Len(Tail(seq)) = Len(seq) - 1
           /\ Injective(Tail(seq))
           /\ Holds(seq, Head(seq))
           /\ \A t : Holds(Tail(seq), t) <=> t # Head(seq) /\ Holds(seq, t)
<1>1. /\ Head(seq) \in SlotIndex
      /\ Tail(seq) \in Seq(SlotIndex)
      /\ Len(Tail(seq)) = Len(seq) - 1
      /\ \A i \in 1 .. Len(Tail(seq)) : Tail(seq)[i] = seq[i + 1]
  BY HeadTailProperties
<1>2. Len(seq) \in Nat \ {0} /\ Head(seq) = seq[1]
  BY EmptySeq
<1>3. Injective(Tail(seq))
  BY <1>1, <1>2 DEF Injective
<1>4. ASSUME NEW t
      PROVE  Holds(Tail(seq), t) <=> t # Head(seq) /\ Holds(seq, t)
  <2>1. ASSUME NEW i \in 1 .. Len(Tail(seq)), Tail(seq)[i] = t
        PROVE  t # Head(seq) /\ Holds(seq, t)
    BY <1>1, <1>2, <2>1 DEF Injective, Holds
  <2>2. ASSUME NEW i \in 1 .. Len(seq), seq[i] = t, t # Head(seq)
        PROVE  Holds(Tail(seq), t)
    <3>1. i - 1 \in 1 .. Len(Tail(seq))
      BY <1>1, <1>2, <2>2
    <3>2. Tail(seq)[i - 1] = seq[i]
      BY <1>1, <1>2, <3>1
    <3> QED
      BY <2>2, <3>1, <3>2 DEF Holds
  <2> QED
    BY Zenon, <2>1, <2>2 DEF Holds
<1>5. Holds(seq, Head(seq))
  BY <1>2 DEF Holds
<1> QED
  BY <1>1, <1>2, <1>3, <1>4, <1>5

-----------------------------------------------------------------------------
(* What an action that leaves the pending batches alone may do to the slots *)

\* The pending batches stay exact when the slots that execute an uncompleted
\* epoch keep their handle and epoch, and no other slot comes to execute one.
LEMMA PendingFrame ==
    ASSUME SchedTypeOK, PendingExact,
           UNCHANGED <<member_ring, batch_ring, submitted, completed>>,
           \A s \in SlotIndex : slots[s].active_epoch > completed =>
               /\ slots'[s].generation = slots[s].generation
               /\ slots'[s].active_epoch = slots[s].active_epoch
               /\ slots'[s].state \in {"Retiring", slots[s].state},
           \A s \in SlotIndex : slots'[s].active_epoch > completed =>
               slots[s].active_epoch > completed
    PROVE  PendingExact'
<1>1. PICK cut \in [0 .. Len(batch_ring) -> 0 .. Len(member_ring)] : Windows(cut)
  BY DEF PendingExact
<1>2. completed \in Nat
  BY DEF SchedTypeOK, Epoch
<1>3. ASSUME NEW i \in 1 .. Len(member_ring)
      PROVE  /\ member_ring[i].slot \in SlotIndex
             /\ slots[member_ring[i].slot].active_epoch > completed
  <2>1. member_ring[i].slot \in SlotIndex
    BY DEF PendingExact, Occupies
  <2> QED
    BY <1>1, <1>2, <2>1 DEF Windows
<1>4. \A i \in 1 .. Len(member_ring) :
        /\ slots'[member_ring[i].slot].generation = slots[member_ring[i].slot].generation
        /\ slots'[member_ring[i].slot].active_epoch
              = slots[member_ring[i].slot].active_epoch
        /\ slots'[member_ring[i].slot].state
              \in {"Retiring", slots[member_ring[i].slot].state}
  BY <1>3
<1>5. Windows(cut)'
  BY <1>1, <1>4 DEF Windows
<1>6. (\A i \in 1 .. Len(member_ring) : Occupies(member_ring[i]))'
  <2>1. \A i \in 1 .. Len(member_ring) : Occupies(member_ring[i])
    BY DEF PendingExact
  <2> QED
    BY Zenon, <1>4, <2>1 DEF Occupies, Handle
<1> QED
  BY <1>5, <1>6 DEF PendingExact

\* A permit stays sound when its slot keeps its handle, its epochs and its
\* distance from the reclaim ring, and is at most retired.
LEMMA PermitKept ==
    ASSUME UNCHANGED completed, NEW p, PermitSound(p),
           slots'[p.request.slot].generation = slots[p.request.slot].generation,
           slots'[p.request.slot].active_epoch = slots[p.request.slot].active_epoch,
           slots'[p.request.slot].last_quiescent_epoch
              = slots[p.request.slot].last_quiescent_epoch,
           ~slots'[p.request.slot].in_reclaim_ring,
           slots'[p.request.slot].state \in {"Retiring", slots[p.request.slot].state}
    PROVE  PermitSound(p)'
BY Zenon DEF PermitSound, Occupies, Handle, OriginMatches

\* The permits stay sound when every slot that may have one is kept so.
LEMMA PermitFrame ==
    ASSUME SchedTypeOK, PermitAuthority,
           UNCHANGED <<permits, completed>>,
           \A s \in SlotIndex :
               slots[s].state \in {"InFlight", "Retiring"} /\ ~slots[s].in_reclaim_ring =>
               /\ slots'[s].generation = slots[s].generation
               /\ slots'[s].active_epoch = slots[s].active_epoch
               /\ slots'[s].last_quiescent_epoch = slots[s].last_quiescent_epoch
               /\ ~slots'[s].in_reclaim_ring
               /\ slots'[s].state \in {"Retiring", slots[s].state}
    PROVE  PermitAuthority'
<1>1. ASSUME NEW i \in 1 .. Len(permits) PROVE PermitSound(permits[i])'
  <2>1. PermitSound(permits[i])
    BY DEF PermitAuthority
  <2>2. /\ permits[i].request.slot \in SlotIndex
        /\ slots[permits[i].request.slot].state \in {"InFlight", "Retiring"}
        /\ ~slots[permits[i].request.slot].in_reclaim_ring
    BY <2>1 DEF PermitSound, Occupies
  <2> QED
    BY Zenon, <2>1, <2>2, PermitKept
<1> QED
  BY <1>1 DEF PermitAuthority

\* ... and when the slot of the i-th permit changes as that permit is spent.
LEMMA PermitSpent ==
    ASSUME SchedTypeOK, PermitAuthority, NEW i \in 1 .. Len(permits),
           permits' = Without(permits, i), UNCHANGED completed,
           \A s \in SlotIndex : s # permits[i].request.slot => slots'[s] = slots[s]
    PROVE  PermitAuthority' /\ permits' \in Seq(Permit)
<1>1. permits \in Seq(Permit) /\ Len(permits) \in Nat
  BY DEF SchedTypeOK
<1>2. permits' \in Seq(Permit) /\ Len(permits') = Len(permits) - 1
  BY <1>1, WithoutProperties
<1>3. PICK from \in [1 .. (Len(permits) - 1) -> 1 .. Len(permits)] :
        /\ \A j \in 1 .. (Len(permits) - 1) :
              from[j] # i /\ Without(permits, i)[j] = permits[from[j]]
        /\ \A j, k \in 1 .. (Len(permits) - 1) : from[j] = from[k] => j = k
  BY <1>1, WithoutElements
<1>4. ASSUME NEW j \in 1 .. Len(permits') PROVE PermitSound(permits[j])'
  <2>1. /\ from[j] \in 1 .. Len(permits) /\ from[j] # i
        /\ permits'[j] = permits[from[j]]
    BY Zenon, <1>2, <1>3
  <2>2. PermitSound(permits[from[j]]) /\ PermitSound(permits[i])
    BY <2>1 DEF PermitAuthority
  <2>3. permits[from[j]].request.slot # permits[i].request.slot
    BY <2>1 DEF PermitAuthority
  <2>4. slots'[permits[from[j]].request.slot] = slots[permits[from[j]].request.slot]
    BY Zenon, <2>2, <2>3 DEF PermitSound, Occupies
  <2>5. ~slots[permits[from[j]].request.slot].in_reclaim_ring
    BY Zenon, <2>2 DEF PermitSound
  <2>6. PermitSound(permits'[j])
    BY <2>1, <2>2
  <2> QED
    BY <2>1, <2>4, <2>5, <2>6, PermitKept
<1>5. (\A j, k \in 1 .. Len(permits) :
         permits[j].request.slot = permits[k].request.slot => j = k)'
  <2> SUFFICES ASSUME NEW j \in 1 .. Len(permits'), NEW k \in 1 .. Len(permits'),
                      permits'[j].request.slot = permits'[k].request.slot
               PROVE  j = k
    OBVIOUS
  <2>1. from[j] \in 1 .. Len(permits) /\ from[k] \in 1 .. Len(permits)
        /\ permits'[j] = permits[from[j]] /\ permits'[k] = permits[from[k]]
    BY Zenon, <1>2, <1>3
  <2>2. from[j] = from[k]
    BY Zenon, <2>1 DEF PermitAuthority
  <2> QED
    BY <1>2, <1>3, <2>2
<1> QED
  BY Zenon, <1>2, <1>4, <1>5 DEF PermitAuthority

\* The slot of a permit executes nothing that has not completed.
LEMMA PermitQuiescent ==
    ASSUME SchedTypeOK, NEW p, PermitSound(p)
    PROVE  /\ p.request.slot \in SlotIndex
           /\ slots[p.request.slot].active_epoch <= completed
           /\ ~slots[p.request.slot].in_reclaim_ring
           /\ slots[p.request.slot].state \in {"InFlight", "Retiring"}
BY SMTT(30) DEF SchedTypeOK, PermitSound, Occupies, OriginMatches, NoEpoch, Epoch

-----------------------------------------------------------------------------
(* SchedInv holds initially and is preserved by every action *)

\* Scheduler::new establishes the invariant.
LEMMA InitInv == SchedInit => SchedInv
<1> SUFFICES ASSUME SchedInit PROVE SchedInv
  OBVIOUS
<1>1. C \in Nat \ {0} /\ C <= MaxRequestSlots /\ MaxEpoch \in Nat /\ MaxGeneration \in Nat \ {0}
  BY SchedulerAssumption, IdentityAssumption
<1>2. free_ring \in [1 .. C -> SlotIndex] /\ \A i \in 1 .. C : free_ring[i] = i - 1
  BY <1>1 DEF SchedInit, SlotIndex
<1>3. free_ring \in Seq(SlotIndex) /\ Len(free_ring) = C
  BY <1>1, <1>2
<1>4. slots \in [SlotIndex -> Slot]
  BY <1>1 DEF SchedInit, FreshSlot, Slot, Generation, RequestState, Epoch, NoEpoch
<1>5. SchedTypeOK
  <2>1. \A S : <<>> \in Seq(S)
    BY Zenon, EmptySeq
  <2>2. 0 \in SlotIndex /\ 0 \in Epoch /\ 0 \in 0 .. C
    BY <1>1 DEF SlotIndex, Epoch
  <2>3. reclaim_ring = <<>> /\ member_ring = <<>> /\ batch_ring = <<>> /\ permits = <<>>
        /\ cursor = 0 /\ submitted = 0 /\ completed = 0 /\ live_count = 0
    BY DEF SchedInit
  <2>4. Len(<<>>) = 0
    BY EmptySeq
  <2> QED
    BY <1>1, <1>3, <1>4, <2>1, <2>2, <2>3, <2>4 DEF SchedTypeOK
<1>6. RingsExact
  <2>1. Injective(free_ring) /\ Injective(reclaim_ring)
    BY <1>1, <1>2, <1>3 DEF SchedInit, Injective
  <2>2. ASSUME NEW s \in SlotIndex PROVE Listed(s)
    <3>1. s + 1 \in 1 .. C /\ free_ring[s + 1] = s
      BY <1>1, <1>2 DEF SlotIndex
    <3> QED
      BY <1>1, <1>3, <3>1 DEF SchedInit, FreshSlot, Listed, Holds
  <2> QED
    BY <2>1, <2>2 DEF RingsExact
<1>7. PendingExact
  <2>1. Len(batch_ring) = 0 /\ Len(member_ring) = 0
    BY DEF SchedInit
  <2>2. Windows([k \in 0 .. 0 |-> 0])
    BY <2>1 DEF Windows
  <2>3. \E cut \in [0 .. 0 -> 0 .. 0] : Windows(cut)
    BY <2>2
  <2>4. \A s \in SlotIndex : slots[s].active_epoch = 0
    BY DEF SchedInit, FreshSlot, NoEpoch
  <2>5. submitted = 0 /\ completed = 0
    BY DEF SchedInit
  <2> QED
    BY <2>1, <2>3, <2>4, <2>5 DEF PendingExact
<1>8. PermitAuthority /\ SlotEpochs /\ SlotsCounted
  BY <1>1, <1>3 DEF SchedInit, PermitAuthority, SlotEpochs, SlotsCounted, FreshSlot, NoEpoch
<1> QED
  BY <1>5, <1>6, <1>7, <1>8 DEF SchedInv

\* An assignment to one slot.
LEMMA SlotUpdated ==
    ASSUME slots \in [SlotIndex -> Slot], NEW h \in SlotIndex, NEW x \in Slot,
           slots' = [slots EXCEPT ![h] = x]
    PROVE  /\ slots' \in [SlotIndex -> Slot]
           /\ slots'[h] = x
           /\ \A s \in SlotIndex : s # h => slots'[s] = slots[s]
OBVIOUS

\* admit keeps the invariant.
LEMMA AdmitInv ==
    ASSUME SchedInv, Admit
    PROVE  SchedInv'
<1> DEFINE h == Head(free_ring)
           x == [slots[h] EXCEPT !.state = "Ready", !.in_free_ring = FALSE]
<1>1. SchedTypeOK /\ RingsExact /\ PendingExact /\ PermitAuthority
      /\ SlotEpochs /\ SlotsCounted
  BY DEF SchedInv
<1>2. /\ slots' = [slots EXCEPT ![h] = x]
      /\ free_ring' = Tail(free_ring) /\ live_count' = live_count + 1
      /\ UNCHANGED <<reclaim_ring, member_ring, batch_ring, cursor, submitted,
                     completed, permits>>
  BY DEF Admit
<1>3. /\ h \in SlotIndex /\ Len(free_ring) >= 1 /\ Holds(free_ring, h)
      /\ free_ring' \in Seq(SlotIndex) /\ Len(free_ring') = Len(free_ring) - 1
      /\ Injective(free_ring')
      /\ \A t : Holds(free_ring', t) <=> t # h /\ Holds(free_ring, t)
  <2>1. free_ring \in Seq(SlotIndex) /\ Injective(free_ring) /\ free_ring # <<>>
    BY <1>1 DEF Admit, SchedTypeOK, RingsExact
  <2> QED
    BY <1>2, <2>1, RingTailOf
<1>4. slots[h].state = "Vacant" /\ ~slots[h].in_reclaim_ring
      /\ slots[h].active_epoch = NoEpoch
  <2>1. Listed(h)
    BY <1>1, <1>3 DEF RingsExact
  <2> QED
    BY <1>1, <1>3, <2>1 DEF Listed, SlotEpochs
<1>5. slots \in [SlotIndex -> Slot]
  BY <1>1 DEF SchedTypeOK
<1>6. /\ x \in Slot
      /\ x.state = "Ready" /\ x.in_free_ring = FALSE
      /\ x.generation = slots[h].generation /\ x.active_epoch = slots[h].active_epoch
      /\ x.in_reclaim_ring = slots[h].in_reclaim_ring
  <2>1. slots[h] \in Slot
    BY <1>3, <1>5
  <2> QED
    BY Zenon, <2>1 DEF Slot, RequestState
<1> HIDE DEF h, x
<1>7. /\ slots' \in [SlotIndex -> Slot] /\ slots'[h] = x
      /\ \A s \in SlotIndex : s # h => slots'[s] = slots[s]
  BY <1>2, <1>3, <1>5, <1>6, SlotUpdated
<1>8. SlotsCounted' /\ live_count' \in 0 .. C
  <2>1. Len(free_ring) \in Nat /\ live_count \in Nat /\ C \in Nat
    BY <1>1, SchedulerAssumption DEF SchedTypeOK
  <2> QED
    BY <1>1, <1>2, <1>3, <2>1 DEF SlotsCounted
<1>9. SchedTypeOK'
  <2>1. Len(free_ring) \in Nat /\ Len(free_ring) <= C /\ C \in Nat
    BY <1>1, SchedulerAssumption DEF SchedTypeOK
  <2> QED
    BY <1>1, <1>2, <1>3, <1>7, <1>8, <2>1 DEF SchedTypeOK
<1>10. RingsExact'
  <2>1. ASSUME NEW s \in SlotIndex PROVE Listed(s)'
    <3>1. Listed(s)
      BY <1>1 DEF RingsExact
    <3>2. CASE s = h
      BY <1>2, <1>3, <1>4, <1>6, <1>7, <3>1, <3>2 DEF Listed
    <3>3. CASE s # h
      BY <1>2, <1>3, <1>7, <3>1, <3>3 DEF Listed
    <3> QED
      BY <3>2, <3>3
  <2> QED
    BY <1>1, <1>2, <1>3, <2>1 DEF RingsExact
<1>11. PendingExact'
  <2>1. ~(slots[h].active_epoch > completed) /\ ~(slots'[h].active_epoch > completed)
    BY <1>1, <1>4, <1>6, <1>7 DEF NoEpoch, SchedTypeOK, Epoch
  <2> QED
    BY <1>1, <1>2, <1>7, <2>1, PendingFrame
<1>12. PermitAuthority'
  BY <1>1, <1>2, <1>4, <1>7, PermitFrame
<1>13. SlotEpochs'
  BY <1>1, <1>2, <1>4, <1>6, <1>7 DEF SlotEpochs
<1> QED
  BY <1>8, <1>9, <1>10, <1>11, <1>12, <1>13 DEF SchedInv

\* retire of a ready request keeps the invariant.
LEMMA RetireReadyInv ==
    ASSUME SchedInv, NEW r \in RequestId, RetireReady(r)
    PROVE  SchedInv'
<1> DEFINE h == r.slot
           x == [slots[h] EXCEPT !.state = "Retiring", !.active_epoch = NoEpoch,
                                 !.in_reclaim_ring = TRUE]
<1>1. SchedTypeOK /\ RingsExact /\ PendingExact /\ PermitAuthority
      /\ SlotEpochs /\ SlotsCounted
  BY DEF SchedInv
<1>2. /\ slots' = [slots EXCEPT ![h] = x]
      /\ reclaim_ring' = Append(reclaim_ring, h)
      /\ UNCHANGED <<free_ring, member_ring, batch_ring, cursor, submitted,
                     completed, live_count, permits>>
  BY DEF RetireReady, scalars
<1>3. h \in SlotIndex /\ slots[h].state = "Ready"
  BY DEF RetireReady, Live
<1>4. Listed(h) /\ slots[h].active_epoch = NoEpoch
  BY <1>1, <1>3 DEF RingsExact, SlotEpochs
<1>5. slots \in [SlotIndex -> Slot]
  BY <1>1 DEF SchedTypeOK
<1>6. /\ x \in Slot
      /\ x.state = "Retiring" /\ x.in_free_ring = slots[h].in_free_ring
      /\ x.generation = slots[h].generation /\ x.active_epoch = NoEpoch
      /\ x.in_reclaim_ring = TRUE
  <2>1. slots[h] \in Slot /\ NoEpoch \in Epoch
    BY <1>3, <1>5, SchedulerAssumption DEF NoEpoch, Epoch
  <2> QED
    BY Zenon, <2>1 DEF Slot, RequestState
<1> HIDE DEF h, x
<1>7. /\ slots' \in [SlotIndex -> Slot] /\ slots'[h] = x
      /\ \A s \in SlotIndex : s # h => slots'[s] = slots[s]
  BY <1>2, <1>3, <1>5, <1>6, SlotUpdated
<1>8. /\ reclaim_ring' \in Seq(SlotIndex) /\ Len(reclaim_ring') <= C
      /\ Injective(reclaim_ring')
      /\ \A t : Holds(reclaim_ring', t) <=> t = h \/ Holds(reclaim_ring, t)
  <2>1. reclaim_ring \in Seq(SlotIndex) /\ Injective(reclaim_ring)
    BY <1>1 DEF SchedTypeOK, RingsExact
  <2>2. ~Holds(reclaim_ring, h)
    BY <1>3, <1>4 DEF Listed
  <2> QED
    BY <1>2, <1>3, <2>1, <2>2, RingAppend
<1>9. SchedTypeOK' /\ SlotsCounted'
  BY <1>1, <1>2, <1>7, <1>8 DEF SchedTypeOK, SlotsCounted
<1>10. RingsExact'
  <2>1. ASSUME NEW s \in SlotIndex PROVE Listed(s)'
    <3>1. Listed(s)
      BY <1>1 DEF RingsExact
    <3>2. CASE s = h
      BY <1>2, <1>3, <1>6, <1>7, <1>8, <3>1, <3>2 DEF Listed
    <3>3. CASE s # h
      BY <1>2, <1>7, <1>8, <3>1, <3>3 DEF Listed
    <3> QED
      BY <3>2, <3>3
  <2> QED
    BY <1>1, <1>2, <1>8, <2>1 DEF RingsExact
<1>11. PendingExact'
  <2>1. ~(slots[h].active_epoch > completed) /\ ~(slots'[h].active_epoch > completed)
    BY <1>1, <1>4, <1>6, <1>7 DEF NoEpoch, SchedTypeOK, Epoch
  <2> QED
    BY <1>1, <1>2, <1>7, <2>1, PendingFrame
<1>12. PermitAuthority'
  BY <1>1, <1>2, <1>3, <1>7, PermitFrame
<1>13. SlotEpochs'
  <2>1. slots'[h].active_epoch <= submitted
    BY <1>1, <1>6, <1>7 DEF NoEpoch, SchedTypeOK, Epoch
  <2> QED
    BY <1>1, <1>2, <1>6, <1>7, <2>1 DEF SlotEpochs
<1> QED
  BY <1>9, <1>10, <1>11, <1>12, <1>13 DEF SchedInv

\* retire of a request in flight keeps the invariant: the pending batches and
\* the permits do not look at whether it is retired.
LEMMA RetireInflightInv ==
    ASSUME SchedInv, NEW r \in RequestId, RetireInflight(r)
    PROVE  SchedInv'
<1> DEFINE h == r.slot
           x == [slots[h] EXCEPT !.state = "Retiring"]
<1>1. SchedTypeOK /\ RingsExact /\ PendingExact /\ PermitAuthority
      /\ SlotEpochs /\ SlotsCounted
  BY DEF SchedInv
<1>2. /\ slots' = [slots EXCEPT ![h] = x]
      /\ UNCHANGED <<free_ring, reclaim_ring, member_ring, batch_ring, cursor,
                     submitted, completed, live_count, permits>>
  BY DEF RetireInflight, rings, scalars
<1>3. h \in SlotIndex /\ slots[h].state = "InFlight"
  BY DEF RetireInflight, Live
<1>4. slots \in [SlotIndex -> Slot]
  BY <1>1 DEF SchedTypeOK
<1>5. /\ x \in Slot
      /\ x.state = "Retiring" /\ x.in_free_ring = slots[h].in_free_ring
      /\ x.generation = slots[h].generation /\ x.active_epoch = slots[h].active_epoch
      /\ x.last_quiescent_epoch = slots[h].last_quiescent_epoch
      /\ x.in_reclaim_ring = slots[h].in_reclaim_ring
  <2>1. slots[h] \in Slot
    BY <1>3, <1>4
  <2> QED
    BY <2>1 DEF Slot, RequestState
<1> HIDE DEF h, x
<1>6. /\ slots' \in [SlotIndex -> Slot] /\ slots'[h] = x
      /\ \A s \in SlotIndex : s # h => slots'[s] = slots[s]
  BY <1>2, <1>3, <1>4, <1>5, SlotUpdated
<1>7. SchedTypeOK' /\ SlotsCounted'
  BY <1>1, <1>2, <1>6 DEF SchedTypeOK, SlotsCounted
<1>8. RingsExact'
  <2>1. ASSUME NEW s \in SlotIndex PROVE Listed(s)'
    <3>1. Listed(s)
      BY <1>1 DEF RingsExact
    <3> QED
      BY <1>2, <1>3, <1>5, <1>6, <3>1 DEF Listed
  <2> QED
    BY <1>1, <1>2, <2>1 DEF RingsExact
<1>9. PendingExact'
  BY <1>1, <1>2, <1>5, <1>6, PendingFrame
<1>10. PermitAuthority'
  BY <1>1, <1>2, <1>5, <1>6, PermitFrame
<1>11. SlotEpochs'
  BY <1>1, <1>2, <1>5, <1>6 DEF SlotEpochs
<1> QED
  BY <1>7, <1>8, <1>9, <1>10, <1>11 DEF SchedInv

\* accept_finalized keeps the invariant.
LEMMA AcceptFinalizedInv ==
    ASSUME SchedInv, NEW i \in 1 .. Len(permits), AcceptFinalized(i)
    PROVE  SchedInv'
<1> DEFINE h == permits[i].request.slot
           x == [slots[h] EXCEPT !.state = "Ready", !.active_epoch = NoEpoch,
                                 !.last_quiescent_epoch = permits[i].origin]
<1>1. SchedTypeOK /\ RingsExact /\ PendingExact /\ PermitAuthority
      /\ SlotEpochs /\ SlotsCounted
  BY DEF SchedInv
<1>2. /\ slots' = [slots EXCEPT ![h] = x]
      /\ permits' = Without(permits, i)
      /\ UNCHANGED <<free_ring, reclaim_ring, member_ring, batch_ring, cursor,
                     submitted, completed, live_count>>
  BY DEF AcceptFinalized, rings, scalars
<1>3. /\ h \in SlotIndex /\ slots[h].state = "InFlight"
      /\ ~(slots[h].active_epoch > completed)
  <2>1. PermitSound(permits[i])
    BY <1>1 DEF PermitAuthority
  <2>2. h \in SlotIndex /\ slots[h].active_epoch <= completed
    BY <1>1, <2>1, PermitQuiescent
  <2>3. slots[h] \in Slot /\ completed \in Int
    BY <1>1, <2>2 DEF SchedTypeOK, Epoch
  <2>4. slots[h].active_epoch \in Int
    BY <2>3 DEF Slot, Epoch
  <2> QED
    BY <2>2, <2>3, <2>4 DEF AcceptFinalized, Finalizable
<1>4. slots \in [SlotIndex -> Slot] /\ permits[i].origin \in Epoch
  <2>1. slots \in [SlotIndex -> Slot] /\ permits \in Seq(Permit)
    BY <1>1 DEF SchedTypeOK
  <2>2. permits[i] \in Permit
    BY <2>1
  <2> QED
    BY <2>1, <2>2 DEF Permit
<1>5. /\ x \in Slot
      /\ x.state = "Ready" /\ x.in_free_ring = slots[h].in_free_ring
      /\ x.active_epoch = NoEpoch
      /\ x.in_reclaim_ring = slots[h].in_reclaim_ring
  <2>1. slots[h] \in Slot /\ NoEpoch \in Epoch
    BY <1>3, <1>4, SchedulerAssumption DEF NoEpoch, Epoch
  <2> QED
    BY Zenon, <1>4, <2>1 DEF Slot, RequestState
<1> HIDE DEF x
<1>6. /\ slots' \in [SlotIndex -> Slot] /\ slots'[h] = x
      /\ \A s \in SlotIndex : s # h => slots'[s] = slots[s]
  BY Zenon, <1>2, <1>3, <1>4, <1>5, SlotUpdated
<1>7. PermitAuthority' /\ permits' \in Seq(Permit)
  BY <1>1, <1>2, <1>6, PermitSpent
<1> HIDE DEF h
<1>8. SchedTypeOK' /\ SlotsCounted'
  BY <1>1, <1>2, <1>6, <1>7 DEF SchedTypeOK, SlotsCounted
<1>9. RingsExact'
  <2>1. ASSUME NEW s \in SlotIndex PROVE Listed(s)'
    <3>1. Listed(s)
      BY <1>1 DEF RingsExact
    <3> QED
      BY <1>2, <1>3, <1>5, <1>6, <3>1 DEF Listed
  <2> QED
    BY <1>1, <1>2, <2>1 DEF RingsExact
<1>10. ~(slots'[h].active_epoch > completed) /\ slots'[h].active_epoch <= submitted
  BY <1>1, <1>5, <1>6 DEF NoEpoch, SchedTypeOK, Epoch
<1>11. PendingExact'
  BY <1>1, <1>2, <1>3, <1>6, <1>10, PendingFrame
<1>12. SlotEpochs'
  BY <1>1, <1>2, <1>5, <1>6, <1>10 DEF SlotEpochs
<1> QED
  BY <1>7, <1>8, <1>9, <1>11, <1>12 DEF SchedInv

\* take_retiring_permit keeps the invariant: the slot that leaves the reclaim
\* ring is the one the new permit names.
LEMMA TakeRetiringPermitInv ==
    ASSUME SchedInv, TakeRetiringPermit
    PROVE  SchedInv'
<1> DEFINE h == Head(reclaim_ring)
           x == [slots[h] EXCEPT !.in_reclaim_ring = FALSE]
           p == [request |-> Handle(h), origin |-> slots[h].last_quiescent_epoch]
<1>1. SchedTypeOK /\ RingsExact /\ PendingExact /\ PermitAuthority
      /\ SlotEpochs /\ SlotsCounted
  BY DEF SchedInv
<1>2. /\ slots' = [slots EXCEPT ![h] = x]
      /\ permits' = Append(permits, p)
      /\ reclaim_ring' = Tail(reclaim_ring)
      /\ slots[h].state = "Retiring" /\ slots[h].active_epoch = NoEpoch
      /\ slots[h].in_reclaim_ring
      /\ UNCHANGED <<free_ring, member_ring, batch_ring, cursor, submitted,
                     completed, live_count>>
  BY DEF TakeRetiringPermit, scalars
<1>3. /\ h \in SlotIndex
      /\ reclaim_ring' \in Seq(SlotIndex) /\ Len(reclaim_ring') = Len(reclaim_ring) - 1
      /\ Injective(reclaim_ring')
      /\ \A t : Holds(reclaim_ring', t) <=> t # h /\ Holds(reclaim_ring, t)
  <2>1. reclaim_ring \in Seq(SlotIndex) /\ Injective(reclaim_ring) /\ reclaim_ring # <<>>
    BY <1>1 DEF TakeRetiringPermit, SchedTypeOK, RingsExact
  <2> QED
    BY <1>2, <2>1, RingTailOf
<1>4. slots \in [SlotIndex -> Slot]
  BY <1>1 DEF SchedTypeOK
<1>5. /\ x \in Slot
      /\ x.state = slots[h].state /\ x.in_free_ring = slots[h].in_free_ring
      /\ x.generation = slots[h].generation /\ x.active_epoch = slots[h].active_epoch
      /\ x.last_quiescent_epoch = slots[h].last_quiescent_epoch
      /\ x.in_reclaim_ring = FALSE
  <2>1. slots[h] \in Slot
    BY <1>3, <1>4
  <2> QED
    BY Zenon, <2>1 DEF Slot
<1>6. /\ p \in Permit /\ p.request.slot = h /\ p.request.generation = slots[h].generation
      /\ p.request = [slot |-> h, generation |-> slots[h].generation]
      /\ p.origin = slots[h].last_quiescent_epoch
  <2>1. slots[h].generation \in Generation /\ slots[h].last_quiescent_epoch \in Epoch
    BY <1>3, <1>4 DEF Slot
  <2>2. h \in RequestSlot
    BY <1>3, SchedulerAssumption, IdentityAssumption DEF SlotIndex, RequestSlot
  <2> QED
    BY <2>1, <2>2 DEF Permit, RequestId, Handle
<1> HIDE DEF h, x, p
<1>7. /\ slots' \in [SlotIndex -> Slot] /\ slots'[h] = x
      /\ \A s \in SlotIndex : s # h => slots'[s] = slots[s]
  BY <1>2, <1>3, <1>4, <1>5, SlotUpdated
<1>8. /\ permits' \in Seq(Permit) /\ Len(permits') = Len(permits) + 1
      /\ \A i \in 1 .. Len(permits) : permits'[i] = permits[i]
      /\ permits'[Len(permits) + 1] = p
      /\ Len(permits) \in Nat
  BY SMTT(30), <1>1, <1>2, <1>6, AppendProperties DEF SchedTypeOK
<1>9. SchedTypeOK' /\ SlotsCounted'
  <2>1. Len(reclaim_ring) \in Nat /\ Len(reclaim_ring) <= C /\ C \in Nat
    BY <1>1, SchedulerAssumption DEF SchedTypeOK
  <2>2. Len(reclaim_ring') <= C
    BY <1>3, <2>1
  <2> QED
    BY Zenon, <1>1, <1>2, <1>3, <1>7, <1>8, <2>2 DEF SchedTypeOK, SlotsCounted
<1>10. RingsExact'
  <2>1. ASSUME NEW s \in SlotIndex PROVE Listed(s)'
    <3>1. Listed(s)
      BY <1>1 DEF RingsExact
    <3>2. CASE s = h
      BY <1>2, <1>3, <1>5, <1>7, <3>1, <3>2 DEF Listed
    <3>3. CASE s # h
      BY Zenon, <1>2, <1>3, <1>7, <3>1, <3>3 DEF Listed
    <3> QED
      BY <3>2, <3>3
  <2> QED
    BY <1>1, <1>2, <1>3, <2>1 DEF RingsExact
<1>11. PendingExact'
  BY <1>1, <1>2, <1>5, <1>7, PendingFrame
<1>12. PermitAuthority'
  <2>1. ASSUME NEW i \in 1 .. Len(permits)
        PROVE  PermitSound(permits[i])' /\ permits[i].request.slot # h
    <3>1. PermitSound(permits[i])
      BY <1>1 DEF PermitAuthority
    <3>2. permits[i].request.slot # h /\ permits[i].request.slot \in SlotIndex
          /\ ~slots[permits[i].request.slot].in_reclaim_ring
      BY <1>1, <1>2, <3>1, PermitQuiescent
    <3>3. slots'[permits[i].request.slot] = slots[permits[i].request.slot]
      BY <1>7, <3>2
    <3>4. permits'[i] = permits[i]
      BY <1>8
    <3>5. PermitSound(permits'[i])
      BY <3>1, <3>4
    <3> QED
      BY Zenon, <1>2, <3>2, <3>3, <3>4, <3>5, PermitKept
  <2>2. ASSUME NEW i \in 1 .. Len(permits'), i = Len(permits) + 1
        PROVE  PermitSound(permits[i])'
    <3>1. permits'[i] = p
      BY Zenon, <1>8, <2>2
    <3> QED
      BY Zenon, <1>2, <1>3, <1>5, <1>6, <1>7, <3>1
         DEF PermitSound, Occupies, Handle, OriginMatches
  <2>3. \A i \in 1 .. Len(permits') :
          \/ i \in 1 .. Len(permits) /\ permits'[i] = permits[i]
          \/ i = Len(permits) + 1 /\ permits'[i] = p
    BY <1>8
  <2>4. (\A i \in 1 .. Len(permits) : PermitSound(permits[i]))'
    BY <2>1, <2>2, <2>3
  <2>5. (\A i, j \in 1 .. Len(permits) :
          permits[i].request.slot = permits[j].request.slot => i = j)'
    <3>1. \A i \in 1 .. Len(permits) : permits[i].request.slot # h
      BY <2>1
    <3> QED
      BY <1>1, <1>6, <2>3, <3>1 DEF PermitAuthority
  <2> QED
    BY <2>4, <2>5 DEF PermitAuthority
<1>13. SlotEpochs'
  BY <1>1, <1>2, <1>5, <1>7 DEF SlotEpochs
<1> QED
  BY <1>9, <1>10, <1>11, <1>12, <1>13 DEF SchedInv

\* Both ends of a detached request: its slot passes to the next generation, in
\* state st, and joins the free ring when it is vacant.
LEMMA DetachInv ==
    ASSUME SchedInv, NEW i \in 1 .. Len(permits), Detachable(permits[i]),
           NEW st \in {"Vacant", "Ready"},
           slots' = [slots EXCEPT ![permits[i].request.slot] =
              FreshSlot(slots[permits[i].request.slot].generation + 1, st, st = "Vacant")],
           IF st = "Vacant"
           THEN /\ free_ring' = Append(free_ring, permits[i].request.slot)
                /\ live_count' = live_count - 1
           ELSE UNCHANGED <<free_ring, live_count>>,
           permits' = Without(permits, i),
           UNCHANGED <<reclaim_ring, member_ring, batch_ring, cursor, submitted, completed>>
    PROVE  SchedInv'
<1> DEFINE h == permits[i].request.slot
           x == FreshSlot(slots[h].generation + 1, st, st = "Vacant")
<1>1. SchedTypeOK /\ RingsExact /\ PendingExact /\ PermitAuthority
      /\ SlotEpochs /\ SlotsCounted
  BY DEF SchedInv
<1>2. slots \in [SlotIndex -> Slot]
  BY <1>1 DEF SchedTypeOK
<1>3. /\ h \in SlotIndex /\ slots[h].state = "Retiring" /\ ~slots[h].in_reclaim_ring
      /\ ~(slots[h].active_epoch > completed)
  <2>1. PermitSound(permits[i])
    BY <1>1 DEF PermitAuthority
  <2>2. h \in SlotIndex /\ slots[h].active_epoch <= completed
    BY <1>1, <2>1, PermitQuiescent
  <2>3. slots[h] \in Slot /\ completed \in Int
    BY SMTT(30), <1>1, <2>2 DEF SchedTypeOK, Epoch
  <2>4. slots[h].active_epoch \in Int
    BY <2>3 DEF Slot, Epoch
  <2> QED
    BY SMTT(30), <2>2, <2>3, <2>4 DEF Detachable
<1>4. /\ x \in Slot
      /\ x.state = st /\ x.in_free_ring = (st = "Vacant")
      /\ x.active_epoch = NoEpoch /\ x.in_reclaim_ring = FALSE
  <2>1. slots[h].generation \in Generation
    BY Zenon, <1>2, <1>3 DEF Slot
  <2>2. slots[h].generation + 1 \in Generation
    BY SMTT(30), <2>1, IdentityAssumption DEF Detachable, Generation
  <2>3. NoEpoch \in Epoch /\ st \in RequestState
    BY SchedulerAssumption DEF NoEpoch, Epoch, RequestState
  <2> QED
    BY Zenon, <2>2, <2>3 DEF FreshSlot, Slot
<1> HIDE DEF x
<1>5. /\ slots' \in [SlotIndex -> Slot] /\ slots'[h] = x
      /\ \A s \in SlotIndex : s # h => slots'[s] = slots[s]
  <2>1. slots' = [slots EXCEPT ![h] = x]
    BY Zenon DEF x
  <2> QED
    BY Zenon, <1>2, <1>3, <1>4, <2>1, SlotUpdated
<1>6. PermitAuthority' /\ permits' \in Seq(Permit)
  BY <1>1, <1>5, PermitSpent
<1>7. ASSUME st = "Vacant" PROVE SchedTypeOK' /\ RingsExact' /\ SlotsCounted'
  <2>1. /\ free_ring' \in Seq(SlotIndex) /\ Len(free_ring') = Len(free_ring) + 1
        /\ Len(free_ring') <= C /\ Injective(free_ring')
        /\ \A t : Holds(free_ring', t) <=> t = h \/ Holds(free_ring, t)
    <3>1. free_ring \in Seq(SlotIndex) /\ Injective(free_ring)
      BY Zenon, <1>1 DEF SchedTypeOK, RingsExact
    <3>2. ~Holds(free_ring, h)
      BY <1>1, <1>3 DEF RingsExact, Listed
    <3>3. free_ring' = Append(free_ring, h)
      BY <1>7
    <3> QED
      BY ZenonT(40), <1>3, <3>1, <3>2, <3>3, RingAppend
  <2>2. SlotsCounted' /\ live_count' \in 0 .. C
    <3>1. Len(free_ring) \in Nat /\ live_count \in Nat /\ C \in Nat
      BY <1>1, SchedulerAssumption DEF SchedTypeOK
    <3>2. live_count' = live_count - 1
      BY <1>7
    <3> QED
      BY <1>1, <2>1, <3>1, <3>2 DEF SlotsCounted
  <2>3. \A s \in SlotIndex : Listed(s)'
    <3> SUFFICES ASSUME NEW s \in SlotIndex PROVE Listed(s)'
      OBVIOUS
    <3>1. Listed(s)
      BY <1>1 DEF RingsExact
    <3>2. CASE s = h
      BY Zenon, <1>3, <1>4, <1>5, <1>7, <2>1, <3>1, <3>2 DEF Listed
    <3>3. CASE s # h
      BY ZenonT(40), <1>5, <2>1, <3>1, <3>3 DEF Listed
    <3> QED
      BY <3>2, <3>3
  <2> QED
    BY Zenon, <1>1, <1>5, <1>6, <2>1, <2>2, <2>3 DEF SchedTypeOK, RingsExact
<1>8. ASSUME st = "Ready" PROVE SchedTypeOK' /\ RingsExact' /\ SlotsCounted'
  <2>1. UNCHANGED <<free_ring, live_count>>
    BY Zenon, <1>8
  <2>2. \A s \in SlotIndex : Listed(s)'
    <3> SUFFICES ASSUME NEW s \in SlotIndex PROVE Listed(s)'
      OBVIOUS
    <3>1. Listed(s)
      BY <1>1 DEF RingsExact
    <3> QED
      BY Zenon, <1>3, <1>4, <1>5, <1>8, <2>1, <3>1 DEF Listed
  <2> QED
    BY Zenon, <1>1, <1>5, <1>6, <2>1, <2>2 DEF SchedTypeOK, RingsExact, SlotsCounted
<1>9. SchedTypeOK' /\ RingsExact' /\ SlotsCounted'
  BY <1>7, <1>8
<1>10. ~(slots'[h].active_epoch > completed) /\ slots'[h].active_epoch <= submitted
  BY SMTT(30), <1>1, <1>4, <1>5 DEF NoEpoch, SchedTypeOK, Epoch
<1>11. PendingExact'
  BY Zenon, <1>1, <1>3, <1>5, <1>10, PendingFrame
<1>12. SlotEpochs'
  BY Zenon, <1>1, <1>4, <1>5, <1>10 DEF SlotEpochs
<1> QED
  BY <1>6, <1>9, <1>11, <1>12 DEF SchedInv

\* reclaim_detached keeps the invariant.
LEMMA ReclaimDetachedInv ==
    ASSUME SchedInv, NEW i \in 1 .. Len(permits), ReclaimDetached(i)
    PROVE  SchedInv'
<1>1. FreshSlot(slots[permits[i].request.slot].generation + 1, "Vacant", TRUE)
        = FreshSlot(slots[permits[i].request.slot].generation + 1, "Vacant",
                    "Vacant" = "Vacant")
  BY Zenon DEF FreshSlot
<1> QED
  BY Zenon, <1>1, DetachInv DEF ReclaimDetached

\* reincarnate_detached keeps the invariant.
LEMMA ReincarnateDetachedInv ==
    ASSUME SchedInv, NEW i \in 1 .. Len(permits), ReincarnateDetached(i)
    PROVE  SchedInv'
<1>1. FreshSlot(slots[permits[i].request.slot].generation + 1, "Ready", FALSE)
        = FreshSlot(slots[permits[i].request.slot].generation + 1, "Ready",
                    "Ready" = "Vacant")
  BY Zenon DEF FreshSlot
<1> QED
  BY Zenon, <1>1, DetachInv DEF ReincarnateDetached, rings, scalars

\* Letting go of a permit keeps the invariant: no slot depends on one.
LEMMA DropPermitInv ==
    ASSUME SchedInv, NEW i \in 1 .. Len(permits), DropPermit(i)
    PROVE  SchedInv'
<1>1. SchedTypeOK /\ RingsExact /\ PendingExact /\ PermitAuthority
      /\ SlotEpochs /\ SlotsCounted
  BY DEF SchedInv
<1>2. /\ permits' = Without(permits, i)
      /\ UNCHANGED <<slots, free_ring, reclaim_ring, member_ring, batch_ring, cursor,
                     submitted, completed, live_count>>
  BY DEF DropPermit, rings, scalars
<1>3. PermitAuthority' /\ permits' \in Seq(Permit)
  BY <1>1, <1>2, PermitSpent
<1>4. SchedTypeOK' /\ SlotsCounted' /\ SlotEpochs'
  BY <1>1, <1>2, <1>3 DEF SchedTypeOK, SlotsCounted, SlotEpochs
<1>5. RingsExact'
  BY Zenon, <1>1, <1>2 DEF RingsExact, Listed
<1>6. PendingExact'
  BY <1>1, <1>2, PendingFrame
<1> QED
  BY <1>3, <1>4, <1>5, <1>6 DEF SchedInv

\* Engine::clear_permits keeps the invariant.
LEMMA ClearPermitsInv ==
    ASSUME SchedInv, ClearPermits
    PROVE  SchedInv'
<1>1. SchedTypeOK /\ RingsExact /\ PendingExact /\ PermitAuthority
      /\ SlotEpochs /\ SlotsCounted
  BY DEF SchedInv
<1>2. /\ permits' = <<>>
      /\ UNCHANGED <<slots, free_ring, reclaim_ring, member_ring, batch_ring, cursor,
                     submitted, completed, live_count>>
  BY DEF ClearPermits, rings, scalars
<1>3. PermitAuthority' /\ permits' \in Seq(Permit)
  BY <1>2, EmptySeq DEF PermitAuthority
<1>4. SchedTypeOK' /\ SlotsCounted' /\ SlotEpochs'
  BY <1>1, <1>2, <1>3 DEF SchedTypeOK, SlotsCounted, SlotEpochs
<1>5. RingsExact'
  BY Zenon, <1>1, <1>2 DEF RingsExact, Listed
<1>6. PendingExact'
  BY <1>1, <1>2, PendingFrame
<1> QED
  BY <1>3, <1>4, <1>5, <1>6 DEF SchedInv

\* Both dispatches: distinct ready slots become the members of a new batch.
LEMMA SubmitInv ==
    ASSUME SchedInv, NEW n \in 1 .. C, NEW roster \in [1 .. n -> SlotIndex],
           \A i \in 1 .. n : slots[roster[i]].state = "Ready",
           \A i, j \in 1 .. n : i < j => roster[i] # roster[j],
           submitted < MaxEpoch, Len(batch_ring) < C, n <= C - Len(member_ring),
           Submit(roster), cursor' \in SlotIndex
    PROVE  SchedInv'
<1> DEFINE m == Len(member_ring)
           b == Len(batch_ring)
           Chosen(s) == \E i \in 1 .. n : roster[i] = s
           added == [i \in 1 .. n |-> Handle(roster[i])]
<1>1. SchedTypeOK /\ RingsExact /\ PendingExact /\ PermitAuthority
      /\ SlotEpochs /\ SlotsCounted
  BY DEF SchedInv
<1>2. /\ C \in Nat \ {0} /\ n \in Nat /\ m \in Nat /\ b \in Nat /\ m + n <= C /\ b < C
      /\ submitted \in Nat /\ completed \in Nat /\ MaxEpoch \in Nat
      /\ submitted + 1 \in Epoch
  BY <1>1, SchedulerAssumption DEF SchedTypeOK, Epoch
<1>3. roster \in Seq(SlotIndex) /\ Len(roster) = n
  BY <1>2
<1>a. slots' = [s \in SlotIndex |->
                  IF Chosen(s)
                  THEN [slots[s] EXCEPT !.state = "InFlight",
                                        !.active_epoch = submitted + 1]
                  ELSE slots[s]]
  BY Zenon, <1>3 DEF Submit
<1>b. member_ring' = member_ring \o added
  BY Zenon, <1>3 DEF Submit
<1>c. batch_ring' = Append(batch_ring, [epoch |-> submitted + 1, member_count |-> n])
  BY Zenon, <1>3 DEF Submit
<1>4. /\ submitted' = submitted + 1
      /\ UNCHANGED <<free_ring, reclaim_ring, completed, live_count, permits>>
  BY Zenon DEF Submit
<1> HIDE DEF m, b
<1>5. slots \in [SlotIndex -> Slot]
  BY <1>1 DEF SchedTypeOK
<1>6. ASSUME NEW s \in SlotIndex, Chosen(s)
      PROVE  /\ slots[s].state = "Ready" /\ slots[s].active_epoch = NoEpoch
             /\ slots'[s] \in Slot
             /\ slots'[s].state = "InFlight" /\ slots'[s].active_epoch = submitted + 1
             /\ slots'[s].generation = slots[s].generation
             /\ slots'[s].in_free_ring = slots[s].in_free_ring
             /\ slots'[s].in_reclaim_ring = slots[s].in_reclaim_ring
  <2>1. slots[s].state = "Ready" /\ slots[s].active_epoch = NoEpoch
    BY Zenon, <1>1, <1>6 DEF SlotEpochs
  <2>2. slots'[s] = [slots[s] EXCEPT !.state = "InFlight", !.active_epoch = submitted + 1]
    BY Zenon, <1>a, <1>6
  <2>3. slots[s] \in Slot
    BY <1>5
  <2> QED
    BY Zenon, <1>2, <2>1, <2>2, <2>3 DEF Slot, RequestState
<1>7. \A s \in SlotIndex : ~Chosen(s) => slots'[s] = slots[s]
  BY Zenon, <1>a
<1>8. slots' \in [SlotIndex -> Slot]
  <2>1. \A s \in SlotIndex : slots'[s] \in Slot
    BY SMTT(30), <1>5, <1>6, <1>7
  <2>2. slots' = [s \in SlotIndex |-> slots'[s]]
    BY Zenon, <1>a
  <2> QED
    BY <2>1, <2>2
<1>9. /\ member_ring' \in Seq(RequestId) /\ Len(member_ring') = m + n
      /\ \A i \in 1 .. m : member_ring'[i] = member_ring[i]
      /\ \A i \in (m + 1) .. (m + n) :
            /\ i - m \in 1 .. n
            /\ member_ring'[i] = [slot |-> roster[i - m],
                                  generation |-> slots[roster[i - m]].generation]
            /\ member_ring'[i].slot = roster[i - m]
  <2>1. \A i \in 1 .. n : Handle(roster[i]) \in RequestId
    <3> SUFFICES ASSUME NEW i \in 1 .. n PROVE Handle(roster[i]) \in RequestId
      OBVIOUS
    <3>1. roster[i] \in SlotIndex
      OBVIOUS
    <3>2. roster[i] \in RequestSlot
      BY <3>1, SchedulerAssumption, IdentityAssumption DEF SlotIndex, RequestSlot
    <3>3. slots[roster[i]] \in Slot
      BY <1>5, <3>1
    <3>4. slots[roster[i]].generation \in Generation
      BY <3>3 DEF Slot
    <3> QED
      BY Zenon, <3>2, <3>4 DEF Handle, RequestId
  <2>2. added \in Seq(RequestId) /\ Len(added) = n
    BY <1>2, <2>1
  <2>3. member_ring \in Seq(RequestId)
    BY <1>1 DEF SchedTypeOK
  <2>4. /\ member_ring' \in Seq(RequestId) /\ Len(member_ring') = m + n
        /\ \A i \in 1 .. m + n :
              member_ring'[i] = IF i <= m THEN member_ring[i] ELSE added[i - m]
    <3>1. /\ member_ring \o added \in Seq(RequestId)
          /\ Len(member_ring \o added) = Len(member_ring) + Len(added)
          /\ \A i \in 1 .. Len(member_ring) + Len(added) : (member_ring \o added)[i] =
                IF i <= Len(member_ring) THEN member_ring[i] ELSE added[i - Len(member_ring)]
      <4> HIDE DEF added
      <4> QED
        BY Zenon, <2>2, <2>3, ConcatProperties
    <3> HIDE DEF added
    <3> QED
      BY <1>b, <2>2, <3>1 DEF m
  <2>5. \A i \in 1 .. n : added[i] = [slot |-> roster[i],
                                      generation |-> slots[roster[i]].generation]
    BY Zenon DEF Handle
  <2> HIDE DEF added
  <2>6. \A i \in 1 .. m : member_ring'[i] = member_ring[i]
    BY SMTT(30), <1>2, <2>4
  <2>7. \A i \in (m + 1) .. (m + n) : i - m \in 1 .. n /\ member_ring'[i] = added[i - m]
    BY SMTT(30), <1>2, <2>4
  <2>8. ASSUME NEW i \in (m + 1) .. (m + n)
        PROVE  /\ i - m \in 1 .. n
               /\ member_ring'[i] = [slot |-> roster[i - m],
                                     generation |-> slots[roster[i - m]].generation]
    BY Zenon, <2>5, <2>7
  <2>9. ASSUME NEW i \in (m + 1) .. (m + n)
        PROVE  member_ring'[i].slot = roster[i - m]
    <3>1. i - m \in 1 .. n /\ member_ring'[i] = added[i - m]
      BY <2>7
    <3>2. added[i - m] = [slot |-> roster[i - m],
                          generation |-> slots[roster[i - m]].generation]
      BY <2>5, <3>1
    <3>3. [slot |-> roster[i - m],
           generation |-> slots[roster[i - m]].generation].slot = roster[i - m]
      OBVIOUS
    <3> QED
      BY Zenon, <3>1, <3>2, <3>3
  <2> QED
    BY Zenon, <2>4, <2>6, <2>8, <2>9
<1>10. /\ batch_ring' \in Seq(BatchRecord) /\ Len(batch_ring') = b + 1
       /\ \A k \in 1 .. b : batch_ring'[k] = batch_ring[k]
       /\ batch_ring'[b + 1].epoch = submitted + 1
       /\ batch_ring'[b + 1].member_count = n
  <2>1. [epoch |-> submitted + 1, member_count |-> n] \in BatchRecord
    BY <1>2 DEF BatchRecord
  <2>2. batch_ring \in Seq(BatchRecord)
    BY <1>1 DEF SchedTypeOK
  <2>3. /\ batch_ring' \in Seq(BatchRecord) /\ Len(batch_ring') = b + 1
        /\ \A k \in 1 .. b : batch_ring'[k] = batch_ring[k]
        /\ batch_ring'[b + 1] = [epoch |-> submitted + 1, member_count |-> n]
    <3> DEFINE r == [epoch |-> submitted + 1, member_count |-> n]
    <3>1. r \in BatchRecord /\ batch_ring' = Append(batch_ring, r)
      BY Zenon, <1>c, <2>1
    <3> HIDE DEF r
    <3>2. /\ Append(batch_ring, r) \in Seq(BatchRecord)
          /\ Len(Append(batch_ring, r)) = Len(batch_ring) + 1
          /\ \A k \in 1 .. Len(batch_ring) : Append(batch_ring, r)[k] = batch_ring[k]
          /\ Append(batch_ring, r)[Len(batch_ring) + 1] = r
      BY SMTT(30), <2>2, <3>1, AppendProperties
    <3> QED
      BY Zenon, <3>1, <3>2 DEF b, r
  <2> QED
    BY <2>3
<1>11. /\ \A i \in 1 .. n : roster[i] \in SlotIndex /\ Chosen(roster[i])
       /\ \A s \in SlotIndex : Chosen(s) => \E i \in 1 .. n : roster[i] = s
  OBVIOUS
<1>12. \A i, j \in 1 .. n : roster[i] = roster[j] => i = j
  BY SMTT(30), <1>2
<1> HIDE DEF Chosen, added
<1>13. SchedTypeOK' /\ SlotsCounted'
  <2>1. Len(member_ring') <= C /\ Len(batch_ring') <= C
    BY SMTT(30), <1>2, <1>9, <1>10
  <2>2. submitted' \in Epoch
    BY Zenon, <1>2, <1>4
  <2> QED
    BY Zenon, <1>1, <1>4, <1>8, <1>9, <1>10, <2>1, <2>2 DEF SchedTypeOK, SlotsCounted
<1>14. RingsExact'
  <2>1. ASSUME NEW s \in SlotIndex PROVE Listed(s)'
    <3>1. Listed(s)
      BY <1>1 DEF RingsExact
    <3>2. CASE Chosen(s)
      BY Zenon, <1>4, <1>6, <3>1, <3>2 DEF Listed
    <3>3. CASE ~Chosen(s)
      BY Zenon, <1>4, <1>7, <3>1, <3>3 DEF Listed
    <3> QED
      BY <3>2, <3>3
  <2> QED
    BY <1>1, <1>4, <2>1 DEF RingsExact
<1>15. PermitAuthority'
  <2>1. \A s \in SlotIndex : slots[s].state \in {"InFlight", "Retiring"} =>
           slots'[s] = slots[s]
    BY Zenon, <1>6, <1>7
  <2> QED
    BY Zenon, <1>1, <1>4, <2>1, PermitFrame
<1>16. SlotEpochs'
  <2>1. ASSUME NEW s \in SlotIndex
        PROVE  slots'[s].active_epoch <= submitted + 1
    <3>1. slots[s].active_epoch <= submitted /\ slots[s].active_epoch \in Nat
      BY <1>1, <1>5 DEF SlotEpochs, Slot, Epoch
    <3> QED
      BY SMTT(30), <1>2, <1>6, <1>7, <3>1
  <2>2. submitted + 1 # NoEpoch
    BY <1>2 DEF NoEpoch
  <2>3. \A s \in SlotIndex :
          /\ slots'[s].state \in {"Vacant", "Ready"} => slots'[s].active_epoch = NoEpoch
          /\ slots'[s].state = "InFlight" => slots'[s].active_epoch # NoEpoch
    BY SMTT(30), <1>1, <1>6, <1>7, <2>2 DEF SlotEpochs
  <2>4. submitted' = submitted + 1
    BY Zenon, <1>4
  <2> QED
    BY <2>1, <2>3, <2>4 DEF SlotEpochs
<1>17. ASSUME NEW i \in 1 .. m
       PROVE  /\ Occupies(member_ring[i]) /\ member_ring[i].slot \in SlotIndex
              /\ slots'[member_ring[i].slot] = slots[member_ring[i].slot]
              /\ slots[member_ring[i].slot].state # "Ready"
  <2>1. Occupies(member_ring[i])
    BY Zenon, <1>1 DEF PendingExact, m
  <2> QED
    BY Zenon, <1>6, <1>7, <2>1 DEF Occupies
<1>18. PendingExact'
  <2>1. submitted = completed + b /\ \A k \in 1 .. b : batch_ring[k].epoch = completed + k
    BY Zenon, <1>1 DEF PendingExact, b
  <2>a. submitted' = submitted + 1 /\ completed' = completed
    BY <1>4
  <2>b. /\ Len(batch_ring') = b + 1
        /\ \A k \in 1 .. b : batch_ring'[k].epoch = batch_ring[k].epoch
        /\ batch_ring'[b + 1].epoch = submitted + 1
    BY <1>10
  <2>2. submitted' = completed' + Len(batch_ring')
    BY SMTT(30), <1>2, <2>1, <2>a, <2>b
  <2>3. \A k \in 1 .. Len(batch_ring') : batch_ring'[k].epoch = completed' + k
    <3> SUFFICES ASSUME NEW k \in 1 .. b + 1
                 PROVE  batch_ring'[k].epoch = completed + k
      BY <2>a, <2>b
    <3>1. CASE k = b + 1
      BY <1>2, <2>1, <2>b, <3>1
    <3>2. CASE k # b + 1
      <4>1. k \in 1 .. b
        BY <1>2, <3>2
      <4> QED
        BY Zenon, <2>1, <2>b, <4>1
    <3> QED
      BY Zenon, <3>1, <3>2
  <2>4. \E c \in [0 .. Len(batch_ring') -> 0 .. Len(member_ring')] : Windows(c)'
    <3>1. PICK cut \in [0 .. b -> 0 .. m] : Windows(cut)
      BY Zenon, <1>1 DEF PendingExact, m, b
    <3>2. PICK c : c = [k \in 0 .. b + 1 |-> IF k = b + 1 THEN m + n ELSE cut[k]]
      OBVIOUS
    <3>3. /\ c[b + 1] = m + n
          /\ \A k \in 0 .. b : c[k] = cut[k] /\ cut[k] \in 0 .. m
      BY SMTT(30), <1>2, <3>1, <3>2
    <3>4. c \in [0 .. Len(batch_ring') -> 0 .. Len(member_ring')]
      BY SMTT(30), <1>2, <1>9, <1>10, <3>1, <3>2
    <3>5. cut[0] = 0 /\ cut[b] = m
          /\ (\A k \in 1 .. b : cut[k] = cut[k - 1] + batch_ring[k].member_count)
          /\ (\A j, k \in 0 .. b : j <= k => cut[j] <= cut[k])
      BY SMTT(30), <3>1 DEF Windows, m, b
    <3>6. c[0] = 0 /\ c[Len(batch_ring')] = Len(member_ring')
      BY SMTT(30), <1>2, <1>9, <1>10, <3>3, <3>5
    <3>7. \A k \in 1 .. Len(batch_ring') : c[k] = c[k - 1] + batch_ring'[k].member_count
      <4> SUFFICES ASSUME NEW k \in 1 .. b + 1
                   PROVE  c[k] = c[k - 1] + batch_ring'[k].member_count
        BY Zenon, <1>10
      <4>1. CASE k = b + 1
        BY SMTT(30), <1>2, <1>10, <3>3, <3>5, <4>1
      <4>2. CASE k # b + 1
        <5>1. k \in 1 .. b /\ k \in 0 .. b /\ k - 1 \in 0 .. b
          BY SMTT(30), <1>2, <4>2
        <5> QED
          BY Zenon, <1>10, <3>3, <3>5, <5>1
      <4> QED
        BY Zenon, <4>1, <4>2
    <3>8. \A j, k \in 0 .. Len(batch_ring') : j <= k => c[j] <= c[k]
      <4> SUFFICES ASSUME NEW j \in 0 .. b + 1, NEW k \in 0 .. b + 1, j <= k
                   PROVE  c[j] <= c[k]
        BY Zenon, <1>10
      <4>1. CASE k = b + 1
        <5>1. j \in 0 .. b \/ j = b + 1
          BY SMTT(30), <1>2
        <5> QED
          BY SMTT(30), <1>2, <3>3, <4>1, <5>1
      <4>2. CASE k # b + 1
        <5>1. j \in 0 .. b /\ k \in 0 .. b
          BY SMTT(30), <1>2, <4>2
        <5> QED
          BY Zenon, <3>3, <3>5, <5>1
      <4> QED
        BY <4>1, <4>2
    <3>9. \A i \in 1 .. Len(member_ring') : \E k \in 1 .. Len(batch_ring') :
             /\ c[k - 1] < i /\ i <= c[k]
             /\ slots'[member_ring'[i].slot].active_epoch = completed' + k
      <4> SUFFICES ASSUME NEW i \in 1 .. m + n
                   PROVE  \E k \in 1 .. b + 1 :
                            /\ c[k - 1] < i /\ i <= c[k]
                            /\ slots'[member_ring'[i].slot].active_epoch = completed + k
        <5>1. Len(member_ring') = m + n /\ Len(batch_ring') = b + 1
          BY Zenon, <1>9, <1>10
        <5> QED
          BY Zenon, <2>a, <5>1
      <4>1. CASE i \in 1 .. m
        <5>1. PICK k \in 1 .. b : /\ cut[k - 1] < i /\ i <= cut[k]
                                  /\ slots[member_ring[i].slot].active_epoch = completed + k
          BY Zenon, <3>1, <4>1 DEF Windows, m, b
        <5>2. k \in 1 .. b + 1 /\ k \in 0 .. b /\ k - 1 \in 0 .. b
          BY <1>2
        <5>3. c[k - 1] < i /\ i <= c[k]
          BY Zenon, <3>3, <5>1, <5>2
        <5>4. slots'[member_ring'[i].slot].active_epoch = completed + k
          BY Zenon, <1>9, <1>17, <4>1, <5>1
        <5> QED
          BY Zenon, <5>2, <5>3, <5>4
      <4>2. CASE i \in (m + 1) .. (m + n)
        <5>1. b + 1 \in 1 .. b + 1 /\ (b + 1) - 1 = b
          BY SMTT(30), <1>2
        <5>2. c[(b + 1) - 1] < i /\ i <= c[b + 1]
          BY SMTT(30), <1>2, <3>3, <3>5, <4>2, <5>1
        <5>3. slots'[member_ring'[i].slot].active_epoch = submitted + 1
          <6>1. i - m \in 1 .. n /\ member_ring'[i].slot = roster[i - m]
            BY Zenon, <1>9, <4>2
          <6> QED
            BY Zenon, <1>6, <1>11, <6>1
        <5>4. submitted + 1 = completed + (b + 1)
          BY SMTT(30), <1>2, <2>1
        <5> QED
          BY Zenon, <5>1, <5>2, <5>3, <5>4
      <4>3. i \in 1 .. m \/ i \in (m + 1) .. (m + n)
        BY <1>2
      <4> QED
        BY Zenon, <4>1, <4>2, <4>3
    <3>10. Windows(c)'
      BY Zenon, <3>6, <3>7, <3>8, <3>9 DEF Windows
    <3> QED
      BY <3>4, <3>10
  <2>5. ASSUME NEW i \in 1 .. Len(member_ring') PROVE Occupies(member_ring[i])'
    <3>1. CASE i \in 1 .. m
      <4>1. member_ring'[i] = member_ring[i]
        BY Zenon, <1>9, <3>1
      <4> QED
        <5>1. /\ Occupies(member_ring[i])
              /\ slots'[member_ring[i].slot] = slots[member_ring[i].slot]
          BY Zenon, <1>17, <3>1
        <5> QED
          BY ZenonT(40), <4>1, <5>1 DEF Occupies, Handle
    <3>2. CASE i \in (m + 1) .. (m + n)
      <4>1. i - m \in 1 .. n
            /\ member_ring'[i] = [slot |-> roster[i - m],
                                  generation |-> slots[roster[i - m]].generation]
        BY Zenon, <1>9, <3>2
      <4>2. roster[i - m] \in SlotIndex /\ Chosen(roster[i - m])
        BY Zenon, <1>11, <4>1
      <4> QED
        BY SMTT(30), <1>6, <4>1, <4>2 DEF Occupies, Handle
    <3>3. i \in 1 .. m \/ i \in (m + 1) .. (m + n)
      BY SMTT(30), <1>2, <1>9
    <3> QED
      BY Zenon, <3>1, <3>2, <3>3
  <2>6. ASSUME NEW i \in 1 .. Len(member_ring'), NEW j \in 1 .. Len(member_ring'),
               member_ring'[i].slot = member_ring'[j].slot
        PROVE  i = j
    <3>1. \A k \in 1 .. m : member_ring'[k].slot = member_ring[k].slot
      BY Zenon, <1>9
    <3>2. \A k \in (m + 1) .. (m + n) : /\ k - m \in 1 .. n
                                        /\ member_ring'[k].slot = roster[k - m]
      BY Zenon, <1>9
    <3>3. CASE i \in 1 .. m /\ j \in 1 .. m
      BY Zenon, <1>1, <2>6, <3>1, <3>3 DEF PendingExact, m
    <3>4. CASE i \in (m + 1) .. (m + n) /\ j \in (m + 1) .. (m + n)
      <4>1. i - m = j - m
        BY <1>12, <2>6, <3>2, <3>4
      <4> QED
        BY SMTT(30), <1>2, <3>4, <4>1
    <3>5. \A k \in 1 .. m, l \in (m + 1) .. (m + n) :
             member_ring'[k].slot # member_ring'[l].slot
      BY SMTT(30), <1>6, <1>11, <1>17, <3>1, <3>2
    <3> QED
      BY SMTT(30), <1>2, <1>9, <2>6, <3>3, <3>4, <3>5
  <2>7. ASSUME NEW s \in SlotIndex, slots'[s].active_epoch > completed'
        PROVE  \E i \in 1 .. Len(member_ring') : member_ring'[i].slot = s
    <3>1. CASE Chosen(s)
      <4>1. PICK i \in 1 .. n : roster[i] = s
        BY Zenon, <1>11, <3>1
      <4>2. m + i \in (m + 1) .. (m + n) /\ (m + i) - m = i /\ m + i \in 1 .. (m + n)
        BY <1>2
      <4>3. member_ring'[m + i].slot = s
        BY Zenon, <1>9, <4>1, <4>2
      <4> QED
        BY Zenon, <1>9, <4>2, <4>3
    <3>2. CASE ~Chosen(s)
      <4>1. PICK i \in 1 .. m : member_ring[i].slot = s
        BY Zenon, <1>1, <1>4, <1>7, <2>7, <3>2 DEF PendingExact, m
      <4>2. i \in 1 .. (m + n) /\ member_ring'[i].slot = s
        BY SMTT(30), <1>2, <1>9, <4>1
      <4> QED
        BY Zenon, <1>9, <4>2
    <3> QED
      BY Zenon, <3>1, <3>2
  <2> QED
    BY Zenon, <2>2, <2>3, <2>4, <2>5, <2>6, <2>7 DEF PendingExact
<1> QED
  BY <1>13, <1>14, <1>15, <1>16, <1>18 DEF SchedInv

=============================================================================
