---------------------------- MODULE EngineProofs ----------------------------
(***************************************************************************)
(* Proofs about Engine, for every capacity and every bound.                *)
(*                                                                         *)
(* Every step of the engine is a step of the scheduler (or none) together  *)
(* with a step of the pool (or none), so the inductive invariants of both  *)
(* carry over.  What the composition adds is how they correspond, and what *)
(* a batch on the device has to do with them: each page it was launched    *)
(* with is in the page table of a slot that still executes its epoch.      *)
(* Nothing touches the table of such a slot, since the pool is called only *)
(* for requests that are ready or whose permit the engine holds.           *)
(***************************************************************************)
EXTENDS Engine, SchedulerSafety, KvPoolSafety

\* The scheduler and the pool agree on which slots are live, and under which
\* generation.
Agreed ==
    \A s \in SlotIndex :
        /\ requests[s].generation = slots[s].generation
        /\ requests[s].live <=> slots[s].state # "Vacant"

\* A call that is under way has not faulted, and reclamation holds the one
\* permit of a slot that is retiring.
CallSound ==
    /\ call # "idle" => ~faulted
    /\ call \in {"reclaim", "reincarnate"} =>
          Len(permits) = 1 /\ slots[permits[1].request.slot].state = "Retiring"

\* Every page a batch was launched with is in the page table of a slot that
\* executes that batch.
DeviceReads ==
    \A b \in executing : \A page \in b.pages :
        \E s \in SlotIndex :
            /\ slots[s].active_epoch = b.epoch
            /\ \E i \in Positions(s) : requests[s].pages[i] = page

EngineInv ==
    /\ SchedInv /\ KvInv /\ EngineTypeOK
    /\ CallSound
    /\ ~faulted => Agreed
    /\ EpochCustody /\ DeviceReads

-----------------------------------------------------------------------------
(* What a call on the pool for one request does to the others *)

\* The requests other than own keep their entries, and nothing is written on
\* the pages their tables name.
Untouched(own) ==
    \A s \in RequestSlot : s # own =>
        /\ requests'[s] = requests[s]
        /\ \A i \in Positions(s) :
              pages'[requests[s].pages[i].index].initialized_tokens
                 = pages[requests[s].pages[i].index].initialized_tokens

\* An append writes on its own tail and on free pages.
LEMMA AppendUntouched ==
    ASSUME KvInv, NEW r \in RequestId, NEW n \in 1 .. MaxContext, AppendTentative(r, n)
    PROVE  /\ Untouched(r.slot) /\ LiveKv(r)
           /\ requests'[r.slot].generation = requests[r.slot].generation
           /\ requests'[r.slot].live = TRUE
<1> DEFINE own == r.slot
           tail == TailPage(requests[own].pages).index
           kept == KeptTokens(r, n)
           fresh == FreshPages(r, n)
           taken == TakenPages(r, n)
<1>1. own \in RequestSlot /\ LiveKv(r)
  BY Zenon DEF RequestId, AppendTentative
<1>2. \A i \in 1 .. fresh : pages[taken[i]].state = Free /\ pages[taken[i]].references = {}
  BY ZenonT(30), AppendStack
<1>3. \A p \in PageIndex :
         (\A i \in 1 .. fresh : taken[i] # p) /\ ~(kept > 0 /\ p = tail) =>
            pages'[p].initialized_tokens = pages[p].initialized_tokens
  BY ZenonT(30), AppendPages
<1>4. /\ \A s \in RequestSlot : s # own => requests'[s] = requests[s]
      /\ requests'[own].generation = requests[own].generation
      /\ requests'[own].live = TRUE
  BY Zenon, AppendPages
<1>5. kept > 0 => pages[tail].references = {own}
  <2>1. TailCapacity(requests[own].pages) # 0 => pages[tail].references = {own}
    BY Zenon, <1>1, TailRoom
  <2>2. kept = MinOf(n, TailCapacity(requests[own].pages))
    BY Zenon DEF KeptTokens
  <2> HIDE DEF tail, kept, own
  <2> QED
    BY <2>1, <2>2 DEF MinOf
<1> HIDE DEF own, tail, kept, fresh, taken
<1>6. ASSUME NEW s \in RequestSlot, s # own, NEW i \in Positions(s)
      PROVE  pages'[requests[s].pages[i].index].initialized_tokens
                = pages[requests[s].pages[i].index].initialized_tokens
  <2> DEFINE p == requests[s].pages[i].index
  <2>1. p \in PageIndex /\ s \in pages[p].references
    BY Zenon, NamedPage
  <2> HIDE DEF p
  <2>2. \A j \in 1 .. fresh : taken[j] # p
    BY Zenon, <1>2, <2>1
  <2>3. ~(kept > 0 /\ p = tail)
    BY Zenon, <1>5, <1>6, <2>1
  <2>4. pages'[p].initialized_tokens = pages[p].initialized_tokens
    BY Zenon, <1>3, <2>1, <2>2, <2>3
  <2> QED
    BY Zenon, <2>4 DEF p
<1> QED
  BY Zenon, <1>1, <1>4, <1>6 DEF Untouched, own

\* Sharing writes on no page.
LEMMA ShareUntouched ==
    ASSUME KvInv, NEW source \in RequestId, NEW target \in RequestId,
           NEW n \in 1 .. MaxContext, ShareCommittedPrefix(source, target, n)
    PROVE  /\ Untouched(target.slot) /\ LiveKv(target)
           /\ requests'[target.slot].generation = requests[target.slot].generation
           /\ requests'[target.slot].live
<1>1. LiveKv(target) /\ KvTypeOK
  BY Zenon DEF ShareCommittedPrefix, Shareable, KvInv, PageOwnership
<1>2. /\ \A p \in PageIndex :
           pages'[p].initialized_tokens = pages[p].initialized_tokens
      /\ \A s \in RequestSlot : s # target.slot => requests'[s] = requests[s]
      /\ requests'[target.slot].live
      /\ requests'[target.slot].generation = requests[target.slot].generation
  BY Zenon, ShareEffect
<1>3. \A s \in RequestSlot : \A i \in Positions(s) : requests[s].pages[i].index \in PageIndex
  BY Zenon, <1>1, EntryTypes
<1> QED
  BY Zenon, <1>1, <1>2, <1>3 DEF Untouched

\* A finalization drops and truncates pages of its own request alone.
LEMMA FinalizeUntouched ==
    ASSUME KvInv, NEW r \in RequestId, NEW accepted \in 0 .. MaxContext,
           FinalizeTentative(r, accepted)
    PROVE  /\ Untouched(r.slot)
           /\ requests'[r.slot].generation = requests[r.slot].generation
           /\ requests'[r.slot].live
<1> DEFINE own == r.slot
           chain == requests[own].pages
           l == Len(chain)
           k == RetainedPages(r, accepted)
           spare == KeptAfter(r, accepted) % PageTokens
<1>1. /\ own \in RequestSlot /\ l \in Nat /\ k \in 0 .. l
      /\ spare # 0 => k \in 1 .. l
      /\ \A i \in (k + 1) .. l : i \in Positions(own)
            /\ requests[own].committed_tokens < Offset(i)
      /\ spare # 0 => requests[own].committed_tokens < Offset(k)
  BY ZenonT(30), FinalizeChain
<1>2. \A p \in PageIndex :
         (\A i \in (k + 1) .. l : chain[i].index # p) /\ ~(spare # 0 /\ chain[k].index = p) =>
            pages'[p].initialized_tokens = pages[p].initialized_tokens
  BY ZenonT(30), FinalizePages
<1>3. /\ \A s \in RequestSlot : s # own => requests'[s] = requests[s]
      /\ requests'[own].live
      /\ requests'[own].generation = requests[own].generation
  BY Zenon, FinalizeRequests
<1>4. \A i \in (k + 1) .. l : pages[chain[i].index].references = {own}
  BY Zenon, <1>1, TentativePage
<1>5. spare # 0 => pages[chain[k].index].references = {own}
  <2> SUFFICES ASSUME spare # 0 PROVE pages[chain[k].index].references = {own}
    BY Zenon
  <2>1. k \in Positions(own) /\ requests[own].committed_tokens < Offset(k)
    BY Zenon, <1>1 DEF Positions
  <2> QED
    BY Zenon, <1>1, <2>1, TentativePage
<1> HIDE DEF own, chain, l, k, spare
<1>6. ASSUME NEW s \in RequestSlot, s # own, NEW i \in Positions(s)
      PROVE  pages'[requests[s].pages[i].index].initialized_tokens
                = pages[requests[s].pages[i].index].initialized_tokens
  <2> DEFINE p == requests[s].pages[i].index
  <2>1. p \in PageIndex /\ s \in pages[p].references
    BY Zenon, NamedPage
  <2> HIDE DEF p
  <2>2. \A j \in (k + 1) .. l : chain[j].index # p
    <3>1. pages[p].references # {own}
      BY Zenon, <1>6, <2>1
    <3> QED
      BY Zenon, <1>4, <3>1
  <2>3. ~(spare # 0 /\ chain[k].index = p)
    BY Zenon, <1>5, <1>6, <2>1
  <2>4. pages'[p].initialized_tokens = pages[p].initialized_tokens
    BY Zenon, <1>2, <2>1, <2>2, <2>3
  <2> QED
    BY Zenon, <2>4 DEF p
<1> QED
  BY Zenon, <1>3, <1>6 DEF Untouched, own

\* A release frees the pages no other request references.
LEMMA ReleaseUntouched ==
    ASSUME KvInv, NEW r \in RequestId, NEW reopen \in BOOLEAN, ReleaseInto(r, reopen)
    PROVE  /\ Untouched(r.slot)
           /\ requests'[r.slot].generation = requests[r.slot].generation + 1
           /\ requests'[r.slot].live = reopen
<1> DEFINE own == r.slot
           chain == requests[own].pages
           sole == SolePositions(own, chain)
<1>1. /\ own \in RequestSlot
      /\ sole = {i \in Positions(own) : pages[chain[i].index].references = {own}}
  BY ReleaseEffect, Zenon
<1>2. \A p \in PageIndex : (\A i \in sole : chain[i].index # p) =>
         pages'[p].initialized_tokens = pages[p].initialized_tokens
  BY ReleaseEffect
<1>3. /\ \A s \in RequestSlot : s # own => requests'[s] = requests[s]
      /\ requests'[own] = EmptyRequest(requests[own].generation + 1, reopen)
  BY ZenonT(30), ReleaseEffect
<1> HIDE DEF own, chain, sole
<1>4. ASSUME NEW s \in RequestSlot, s # own, NEW i \in Positions(s)
      PROVE  pages'[requests[s].pages[i].index].initialized_tokens
                = pages[requests[s].pages[i].index].initialized_tokens
  <2> DEFINE p == requests[s].pages[i].index
  <2>1. p \in PageIndex /\ s \in pages[p].references
    BY Zenon, NamedPage
  <2> HIDE DEF p
  <2>2. \A j \in sole : chain[j].index # p
    BY Zenon, <1>1, <1>4, <2>1
  <2>3. pages'[p].initialized_tokens = pages[p].initialized_tokens
    BY Zenon, <1>2, <2>1, <2>2
  <2> QED
    BY Zenon, <2>3 DEF p
<1> QED
  BY <1>3, <1>4 DEF Untouched, own, EmptyRequest

\* A creation writes on no page.
LEMMA CreateUntouched ==
    ASSUME KvInv, NEW r \in RequestId, CreateRequest(r)
    PROVE  /\ Untouched(r.slot)
           /\ requests'[r.slot].generation = requests[r.slot].generation
           /\ requests'[r.slot].live
<1>1. KvTypeOK /\ r.slot \in RequestSlot
  BY Zenon DEF KvInv, PageOwnership, RequestId
<1>2. /\ pages' = pages
      /\ \A s \in RequestSlot : s # r.slot => requests'[s] = requests[s]
      /\ requests'[r.slot].generation = requests[r.slot].generation
      /\ requests'[r.slot].live
  BY Zenon, <1>1 DEF CreateRequest, KvTypeOK, RequestEntry
<1> QED
  BY Zenon, <1>2 DEF Untouched

-----------------------------------------------------------------------------
(* What a call on the scheduler does to the slots *)

\* The slots of the scheduler are request slots of the pool.
LEMMA SlotIsRequestSlot == SlotIndex \subseteq RequestSlot
BY SchedulerAssumption, IdentityAssumption DEF SlotIndex, RequestSlot

LEMMA SlotTypes ==
    ASSUME SchedInv, NEW s \in SlotIndex
    PROVE  /\ slots[s] \in Slot
           /\ slots[s].generation \in Generation
           /\ slots[s].state \in RequestState
           /\ slots[s].active_epoch \in Nat
           /\ completed \in Nat /\ submitted \in Nat
BY SchedulerAssumption DEF SchedInv, SchedTypeOK, Slot, Epoch

\* A slot that is vacant or ready executes nothing.
LEMMA IdleSlot ==
    ASSUME SchedInv, NEW s \in SlotIndex, slots[s].state \in {"Vacant", "Ready"}
    PROVE  slots[s].active_epoch = NoEpoch /\ ~(slots[s].active_epoch > completed)
<1>1. slots[s].active_epoch = NoEpoch
  BY Zenon DEF SchedInv, SlotEpochs
<1> QED
  BY <1>1, SlotTypes DEF NoEpoch

\* The first permit, as the engine finds it when it spends it.
LEMMA FirstPermit ==
    ASSUME SchedInv, permits # <<>>
    PROVE  LET p == permits[1]
               own == p.request.slot IN
           /\ Len(permits) \in Nat /\ 1 \in 1 .. Len(permits)
           /\ p.request \in RequestId /\ own \in SlotIndex
           /\ p.request.generation = slots[own].generation
           /\ PermitSound(p)
           /\ slots[own].state \in {"InFlight", "Retiring"}
           /\ ~(slots[own].active_epoch > completed)
<1>1. SchedTypeOK /\ PermitAuthority /\ permits \in Seq(Permit)
  BY Zenon DEF SchedInv, SchedTypeOK
<1>2. Len(permits) \in Nat /\ 1 \in 1 .. Len(permits)
  BY <1>1
<1>3. permits[1] \in Permit /\ PermitSound(permits[1])
  BY <1>1, <1>2 DEF PermitAuthority
<1>4. permits[1].request \in RequestId
  BY Zenon, <1>3 DEF Permit
<1>5. /\ permits[1].request.slot \in SlotIndex
      /\ slots[permits[1].request.slot].active_epoch <= completed
      /\ slots[permits[1].request.slot].state \in {"InFlight", "Retiring"}
  BY Zenon, <1>1, <1>3, PermitQuiescent
<1>6. permits[1].request.generation = slots[permits[1].request.slot].generation
  BY <1>3 DEF PermitSound, Occupies, Handle
<1>7. ~(slots[permits[1].request.slot].active_epoch > completed)
  BY <1>5, SlotTypes
<1> QED
  BY Zenon, <1>2, <1>3, <1>4, <1>5, <1>6, <1>7

\* Spending the first permit leaves the others.
LEMMA FirstSpent ==
    ASSUME SchedInv, permits # <<>>, permits' = Without(permits, 1)
    PROVE  permits' # <<>> <=> Len(permits) # 1
<1>1. permits \in Seq(Permit) /\ 1 \in 1 .. Len(permits) /\ Len(permits) \in Nat
  BY Zenon, FirstPermit DEF SchedInv, SchedTypeOK
<1>2. permits' \in Seq(Permit) /\ Len(permits') = Len(permits) - 1
  BY Zenon, <1>1, WithoutProperties
<1>3. permits' = <<>> <=> Len(permits') = 0
  BY Zenon, <1>2, EmptySeq
<1> QED
  BY <1>1, <1>2, <1>3

\* The slots other than own are as before.
OthersKept(own) == \A s \in SlotIndex : s # own => slots'[s] = slots[s]

\* Every slot keeps its generation, and its epoch until that has completed; no
\* slot is taken or given up.
SlotsHeld ==
    \A s \in SlotIndex :
        /\ slots'[s].generation = slots[s].generation
        /\ slots'[s].state = "Vacant" <=> slots[s].state = "Vacant"
        /\ slots[s].active_epoch > completed => slots'[s].active_epoch = slots[s].active_epoch

LEMMA AdmitSlots ==
    ASSUME SchedInv, Admit
    PROVE  LET h == Head(free_ring) IN
           /\ h \in SlotIndex /\ slots[h].state = "Vacant" /\ OthersKept(h)
           /\ slots'[h].state = "Ready" /\ slots'[h].generation = slots[h].generation
           /\ UNCHANGED <<submitted, completed, permits>>
<1> DEFINE h == Head(free_ring)
<1>1. SchedTypeOK /\ RingsExact
  BY Zenon DEF SchedInv
<1>2. h \in SlotIndex /\ Holds(free_ring, h)
  BY Zenon, <1>1, RingTailOf DEF Admit, SchedTypeOK, RingsExact
<1>3. Listed(h)
  BY Zenon, <1>1, <1>2 DEF RingsExact
<1>4. slots[h] \in Slot /\ slots \in [SlotIndex -> Slot]
  BY Zenon, <1>1, <1>2 DEF SchedTypeOK
<1>5. /\ slots' = [slots EXCEPT ![h] = [@ EXCEPT !.state = "Ready", !.in_free_ring = FALSE]]
      /\ UNCHANGED <<submitted, completed, permits>>
  BY Zenon DEF Admit
<1> HIDE DEF h
<1>6. slots'[h].state = "Ready" /\ slots'[h].generation = slots[h].generation
  BY Zenon, <1>2, <1>4, <1>5 DEF Slot
<1>7. OthersKept(h)
  BY Zenon, <1>4, <1>5 DEF OthersKept
<1>8. slots[h].state = "Vacant"
  BY Zenon, <1>2, <1>3 DEF Listed
<1> QED
  BY Zenon, <1>2, <1>5, <1>6, <1>7, <1>8 DEF h

LEMMA RetireSlots ==
    ASSUME SchedInv, NEW r \in RequestId, Retire(r)
    PROVE  SlotsHeld /\ UNCHANGED <<submitted, completed, permits>>
<1> DEFINE h == r.slot
<1>1. h \in SlotIndex /\ slots[h].state \in {"Ready", "InFlight"}
  BY Zenon DEF Retire, RetireReady, RetireInflight, Live
<1>2. slots \in [SlotIndex -> Slot] /\ slots[h] \in Slot
  BY Zenon, <1>1 DEF SchedInv, SchedTypeOK
<1>3. UNCHANGED <<submitted, completed, permits>>
  BY Zenon DEF Retire, RetireReady, RetireInflight, scalars
<1>4. \A s \in SlotIndex : s # h => slots'[s] = slots[s]
  BY Zenon, <1>1, <1>2 DEF Retire, RetireReady, RetireInflight
<1>5. /\ slots'[h].generation = slots[h].generation
      /\ slots'[h].state = "Retiring"
  <2>1. CASE RetireReady(r)
    BY Zenon, <1>1, <1>2, <2>1 DEF RetireReady, Slot
  <2>2. CASE RetireInflight(r)
    BY Zenon, <1>1, <1>2, <2>2 DEF RetireInflight, Slot
  <2> QED
    BY Zenon, <2>1, <2>2 DEF Retire
<1>6. slots[h].active_epoch > completed => slots'[h].active_epoch = slots[h].active_epoch
  <2>1. CASE RetireReady(r)
    BY Zenon, <1>1, <2>1, IdleSlot DEF RetireReady
  <2>2. CASE RetireInflight(r)
    BY Zenon, <1>1, <1>2, <2>2 DEF RetireInflight, Slot
  <2> QED
    BY Zenon, <2>1, <2>2 DEF Retire
<1> HIDE DEF h
<1> QED
  BY Zenon, <1>1, <1>3, <1>4, <1>5, <1>6 DEF SlotsHeld

LEMMA SubmitSlots ==
    ASSUME SchedInv, NEW n \in 1 .. C, NEW roster \in [1 .. n -> SlotIndex],
           \A i \in 1 .. n : slots[roster[i]].state = "Ready",
           submitted < MaxEpoch, Submit(roster)
    PROVE  /\ SlotsHeld /\ UNCHANGED <<completed, permits>>
           /\ submitted' = submitted + 1 /\ submitted' \in Epoch
<1>1. Len(roster) = n /\ slots \in [SlotIndex -> Slot]
  BY SchedulerAssumption DEF SchedInv, SchedTypeOK
<1>2. UNCHANGED <<completed, permits>> /\ submitted' = submitted + 1
  BY Zenon DEF Submit
<1>3. submitted' \in Epoch
  BY <1>2, SchedulerAssumption DEF SchedInv, SchedTypeOK, Epoch
<1>4. ASSUME NEW s \in SlotIndex
      PROVE  /\ slots'[s].generation = slots[s].generation
             /\ slots'[s].state = "Vacant" <=> slots[s].state = "Vacant"
             /\ slots[s].active_epoch > completed =>
                   slots'[s].active_epoch = slots[s].active_epoch
  <2>0. slots[s] \in Slot
    BY Zenon, <1>1
  <2>1. CASE \E i \in 1 .. n : roster[i] = s
    <3>1. slots[s].state = "Ready" /\ ~(slots[s].active_epoch > completed)
      BY Zenon, <2>1, IdleSlot
    <3>2. slots'[s] = [slots[s] EXCEPT !.state = "InFlight", !.active_epoch = submitted + 1]
      BY Zenon, <1>1, <2>1 DEF Submit
    <3>3. slots'[s].generation = slots[s].generation /\ slots'[s].state = "InFlight"
      BY Zenon, <2>0, <3>2 DEF Slot
    <3> QED
      BY Zenon, <3>1, <3>3
  <2>2. CASE ~\E i \in 1 .. n : roster[i] = s
    <3>1. slots'[s] = slots[s]
      BY Zenon, <1>1, <2>2 DEF Submit
    <3> QED
      BY Zenon, <3>1
  <2> QED
    BY Zenon, <2>1, <2>2
<1> QED
  BY Zenon, <1>2, <1>3, <1>4 DEF SlotsHeld

\* Both dispatches.
LEMMA DispatchSlots ==
    ASSUME SchedInv,
           \/ \E len \in 1 .. C : DispatchReady(len)
           \/ \E n \in 1 .. C : \E roster \in [1 .. n -> SlotIndex] : DispatchExact(roster)
    PROVE  /\ SlotsHeld /\ UNCHANGED <<completed, permits>>
           /\ submitted' = submitted + 1 /\ submitted' \in Epoch
<1>1. ASSUME NEW n \in 1 .. C, NEW roster \in [1 .. n -> SlotIndex], DispatchExact(roster)
      PROVE  /\ SlotsHeld /\ UNCHANGED <<completed, permits>>
             /\ submitted' = submitted + 1 /\ submitted' \in Epoch
  <2>1. Len(roster) = n
    BY SchedulerAssumption
  <2>2. /\ \A i \in 1 .. n : slots[roster[i]].state = "Ready"
        /\ submitted < MaxEpoch /\ Submit(roster)
    BY Zenon, <1>1, <2>1 DEF DispatchExact, ExactRoster
  <2> QED
    BY Zenon, <2>2, SubmitSlots
<1>2. ASSUME NEW len \in 1 .. C, DispatchReady(len)
      PROVE  /\ SlotsHeld /\ UNCHANGED <<completed, permits>>
             /\ submitted' = submitted + 1 /\ submitted' \in Epoch
  <2>1. SchedTypeOK /\ submitted < MaxEpoch
    BY Zenon, <1>2 DEF SchedInv, DispatchReady
  <2>2. PICK limit, k \in 1 .. C : \E at, roster \in [1 .. k -> SlotIndex] :
           Scanned(limit, k, at, roster)
    BY Zenon, <1>2, <2>1, ScanProperties
  <2>3. PICK at, roster \in [1 .. k -> SlotIndex] : Scanned(limit, k, at, roster)
    BY Zenon, <2>2
  <2>4. (\A i \in 1 .. k : slots[roster[i]].state = "Ready") /\ Submit(roster)
    BY Zenon, <2>3 DEF Scanned
  <2> QED
    BY Zenon, <2>1, <2>4, SubmitSlots
<1> QED
  BY Zenon, <1>1, <1>2


LEMMA CompleteSlots ==
    ASSUME SchedInv, permits = <<>>, NEW e \in Epoch, CompleteExact(e)
    PROVE  /\ UNCHANGED <<slots, submitted>>
           /\ e = completed + 1 /\ completed' = e /\ permits' # <<>>
<1>1. /\ batch_ring # <<>> /\ batch_ring \in Seq(BatchRecord)
      /\ permits \in Seq(Permit)
  BY Zenon DEF CompleteExact, SchedInv, SchedTypeOK
<1>2. Head(batch_ring).member_count \in 1 .. C
  <2>1. Head(batch_ring) \in BatchRecord
    BY Zenon, <1>1, HeadTailProperties
  <2> QED
    BY Zenon, <2>1 DEF BatchRecord
<1> DEFINE n == Head(batch_ring).member_count
           issued == [i \in 1 .. n |-> [request |-> member_ring[i], origin |-> e]]
<1>3. permits' = permits \o issued
  BY Zenon DEF CompleteExact
<1>4. Len(issued) = n /\ n > 0 /\ n \in Nat
  BY <1>2, SchedulerAssumption
<1> HIDE DEF n, issued
<1>5. permits' # <<>>
  BY <1>3, <1>4
<1> QED
  BY Zenon, <1>5 DEF CompleteExact

LEMMA FinalizedSlots ==
    ASSUME SchedInv, permits # <<>>, AcceptFinalized(1)
    PROVE  LET own == permits[1].request.slot IN
           /\ OthersKept(own) /\ slots'[own].state = "Ready"
           /\ slots'[own].generation = slots[own].generation
           /\ permits' = Without(permits, 1) /\ UNCHANGED <<submitted, completed>>
<1> DEFINE own == permits[1].request.slot
<1>1. own \in SlotIndex /\ slots \in [SlotIndex -> Slot] /\ slots[own] \in Slot
  BY Zenon, FirstPermit DEF SchedInv, SchedTypeOK
<1>2. /\ slots' = [slots EXCEPT ![own] = [@ EXCEPT !.state = "Ready",
                                                  !.active_epoch = NoEpoch,
                                                  !.last_quiescent_epoch = permits[1].origin]]
      /\ permits' = Without(permits, 1) /\ UNCHANGED <<submitted, completed>>
  BY Zenon DEF AcceptFinalized, scalars
<1> HIDE DEF own
<1>3. OthersKept(own)
  BY Zenon, <1>1, <1>2 DEF OthersKept
<1>4. slots'[own].state = "Ready" /\ slots'[own].generation = slots[own].generation
  BY Zenon, <1>1, <1>2 DEF Slot
<1> QED
  BY Zenon, <1>2, <1>3, <1>4 DEF own

LEMMA DetachedSlots ==
    ASSUME SchedInv, permits # <<>>, NEW st \in {"Vacant", "Ready"}, NEW free,
           LET s == permits[1].request.slot IN
           slots' = [slots EXCEPT ![s] = FreshSlot(slots[s].generation + 1, st, free)]
    PROVE  LET own == permits[1].request.slot IN
           /\ OthersKept(own) /\ slots'[own].state = st
           /\ slots'[own].generation = slots[own].generation + 1
<1> DEFINE own == permits[1].request.slot
<1>1. own \in SlotIndex /\ slots \in [SlotIndex -> Slot]
  BY Zenon, FirstPermit DEF SchedInv, SchedTypeOK
<1>2. slots' = [slots EXCEPT ![own] = FreshSlot(slots[own].generation + 1, st, free)]
  BY Zenon
<1> HIDE DEF own
<1>3. OthersKept(own)
  BY Zenon, <1>1, <1>2 DEF OthersKept
<1>4. slots'[own] = FreshSlot(slots[own].generation + 1, st, free)
  BY Zenon, <1>1, <1>2
<1>5. slots'[own].state = st /\ slots'[own].generation = slots[own].generation + 1
  BY <1>4 DEF FreshSlot
<1> QED
  BY Zenon, <1>3, <1>5 DEF own

LEMMA TakenSlots ==
    ASSUME SchedInv, permits = <<>>, TakeRetiringPermit
    PROVE  /\ SlotsHeld /\ UNCHANGED <<submitted, completed>>
           /\ permits' # <<>> /\ Len(permits') = 1
           /\ slots'[permits'[1].request.slot].state = "Retiring"
<1> DEFINE h == Head(reclaim_ring)
<1>1. h \in SlotIndex
  BY Zenon, RingTailOf DEF TakeRetiringPermit, SchedInv, SchedTypeOK, RingsExact
<1>2. slots \in [SlotIndex -> Slot] /\ slots[h] \in Slot
  BY Zenon, <1>1 DEF SchedInv, SchedTypeOK
<1>3. /\ slots[h].state = "Retiring"
      /\ slots' = [slots EXCEPT ![h] = [@ EXCEPT !.in_reclaim_ring = FALSE]]
      /\ permits' = Append(permits, [request |-> Handle(h),
                                     origin |-> slots[h].last_quiescent_epoch])
      /\ UNCHANGED <<submitted, completed>>
  BY Zenon DEF TakeRetiringPermit, scalars
<1> HIDE DEF h
<1>4. Len(permits') = 1 /\ permits'[1].request = Handle(h)
  BY <1>3
<1>5. permits' # <<>>
  BY <1>3
<1>6. permits'[1].request.slot = h
  BY <1>4 DEF Handle
<1>7. /\ slots'[h].state = slots[h].state /\ slots'[h].generation = slots[h].generation
      /\ slots'[h].active_epoch = slots[h].active_epoch
  BY Zenon, <1>1, <1>2, <1>3 DEF Slot
<1>8. \A s \in SlotIndex : s # h => slots'[s] = slots[s]
  BY Zenon, <1>1, <1>2, <1>3
<1>9. SlotsHeld
  BY Zenon, <1>7, <1>8 DEF SlotsHeld
<1> QED
  BY Zenon, <1>3, <1>4, <1>5, <1>6, <1>7, <1>9

-----------------------------------------------------------------------------
(* How the conjuncts of EngineInv that link the parts are kept *)

LEMMA AgreedKept ==
    ASSUME Agreed, SlotsHeld, UNCHANGED kvVars
    PROVE  Agreed'
BY Zenon DEF Agreed, SlotsHeld, kvVars

LEMMA AgreedAt ==
    ASSUME Agreed, NEW own \in SlotIndex, Untouched(own), OthersKept(own),
           requests'[own].generation = slots'[own].generation,
           requests'[own].live <=> slots'[own].state # "Vacant"
    PROVE  Agreed'
BY Zenon, SlotIsRequestSlot DEF Agreed, Untouched, OthersKept

\* A slot whose epoch has not completed keeps it, with its page table and what
\* is written on the pages.
ExecutingKept ==
    \A s \in SlotIndex : slots[s].active_epoch > completed =>
        /\ slots'[s].active_epoch = slots[s].active_epoch
        /\ requests'[s].pages = requests[s].pages
        /\ \A i \in Positions(s) :
              pages'[requests[s].pages[i].index].initialized_tokens
                 = pages[requests[s].pages[i].index].initialized_tokens

LEMMA ExecutingHeld ==
    ASSUME SlotsHeld, UNCHANGED kvVars
    PROVE  ExecutingKept
BY Zenon DEF SlotsHeld, ExecutingKept, kvVars

LEMMA ExecutingOthers ==
    ASSUME NEW own \in SlotIndex, ~(slots[own].active_epoch > completed),
           Untouched(own), OthersKept(own)
    PROVE  ExecutingKept
BY Zenon, SlotIsRequestSlot DEF Untouched, OthersKept, ExecutingKept

\* The pages of a batch on the device stay where they were, unwritten.
LEMMA BatchKept ==
    ASSUME EngineInv, ExecutingKept, NEW b \in executing, NEW page \in b.pages
    PROVE  /\ \E s \in SlotIndex :
                 /\ slots'[s].active_epoch = b.epoch
                 /\ \E i \in Positions(s)' : requests'[s].pages[i] = page
           /\ pages'[page.index].initialized_tokens = pages[page.index].initialized_tokens
<1>1. PICK s \in SlotIndex : /\ slots[s].active_epoch = b.epoch
                             /\ \E i \in Positions(s) : requests[s].pages[i] = page
  BY Zenon DEF EngineInv, DeviceReads
<1>2. PICK i \in Positions(s) : requests[s].pages[i] = page
  BY Zenon, <1>1
<1>3. b.epoch \in (completed + 1) .. submitted
  BY Zenon DEF EngineInv, EpochCustody
<1>4. slots[s].active_epoch > completed
  BY <1>1, <1>3, SlotTypes DEF EngineInv
<1>5. /\ slots'[s].active_epoch = slots[s].active_epoch
      /\ requests'[s].pages = requests[s].pages
      /\ pages'[requests[s].pages[i].index].initialized_tokens
            = pages[requests[s].pages[i].index].initialized_tokens
  BY Zenon, <1>4 DEF ExecutingKept
<1>6. i \in Positions(s)'
  BY Zenon, <1>5 DEF Positions
<1> QED
  BY Zenon, <1>1, <1>2, <1>5, <1>6

LEMMA DeviceKept ==
    ASSUME EngineInv, ExecutingKept
    PROVE  /\ executing' \subseteq executing => DeviceReads'
           /\ DevicePagesStep
<1>1. DevicePagesStep
  BY Zenon, BatchKept DEF DevicePagesStep
<1>2. ASSUME executing' \subseteq executing PROVE DeviceReads'
  <2> SUFFICES ASSUME NEW b \in executing', NEW page \in b.pages
               PROVE  \E s \in SlotIndex :
                         /\ slots'[s].active_epoch = b.epoch
                         /\ \E i \in Positions(s)' : requests'[s].pages[i] = page
    BY Zenon DEF DeviceReads
  <2>1. b \in executing
    BY Zenon, <1>2
  <2> QED
    BY Zenon, <2>1, BatchKept
<1> QED
  BY Zenon, <1>1, <1>2

\* Neither epochs nor their custody change.
LEMMA CustodyKept ==
    ASSUME EngineInv, UNCHANGED <<submitted, completed, executing, completions>>
    PROVE  /\ EpochCustody' /\ executing' \subseteq executing
           /\ executing' \subseteq [epoch : Epoch, pages : SUBSET PageId]
           /\ completions' \subseteq Epoch
BY Zenon DEF EngineInv, EpochCustody, EngineTypeOK

\* The invariants of the parts in the next state, from what each part did.
LEMMA PartsKept ==
    ASSUME EngineInv, [SchedNext]_schedVars, [KvNext]_kvVars
    PROVE  SchedInv' /\ KvInv' /\ SchedTypeOK' /\ KvTypeOK'
<1>1. SchedInv'
  BY Zenon, NextInv DEF EngineInv
<1>2. KvInv'
  BY Zenon, KvNextInv DEF EngineInv
<1>3. SchedTypeOK' /\ KvTypeOK'
  BY Zenon, <1>1, <1>2 DEF SchedInv, KvInv, PageOwnership
<1> QED
  BY Zenon, <1>1, <1>2, <1>3

\* What remains to be shown of a step that leaves the device alone.
LEMMA StepKept ==
    ASSUME EngineInv, [SchedNext]_schedVars, [KvNext]_kvVars, ExecutingKept,
           UNCHANGED <<submitted, completed, executing, completions>>,
           faulted' \in BOOLEAN,
           call' \in {"idle", "complete", "reclaim", "reincarnate"},
           permits' # <<>> <=> call' # "idle",
           CallSound', ~faulted' => Agreed'
    PROVE  EngineInv' /\ DevicePagesStep
<1>1. SchedInv' /\ KvInv' /\ SchedTypeOK' /\ KvTypeOK'
  BY Zenon, PartsKept
<1>2. /\ EpochCustody' /\ executing' \subseteq executing
      /\ executing' \subseteq [epoch : Epoch, pages : SUBSET PageId]
      /\ completions' \subseteq Epoch
  BY Zenon, CustodyKept
<1>3. DeviceReads' /\ DevicePagesStep
  BY Zenon, <1>2, DeviceKept
<1>4. EngineTypeOK'
  BY Zenon, <1>1, <1>2 DEF EngineTypeOK
<1> QED
  BY Zenon, <1>1, <1>2, <1>3, <1>4 DEF EngineInv

-----------------------------------------------------------------------------
(* EngineInv holds initially and is preserved by every step; no step writes *)
(* on a page of the device, and none faults without one of the reasons      *)

\* Engine::new establishes the invariant.
LEMMA EngineInitInv == EngineInit => EngineInv
<1> SUFFICES ASSUME EngineInit PROVE EngineInv
  BY Zenon
<1>1. SchedInv /\ KvInv
  BY Zenon, InitInv, KvInitInv DEF EngineInit
<1>2. SchedTypeOK /\ KvTypeOK
  BY Zenon, <1>1 DEF SchedInv, KvInv, PageOwnership
<1>3. permits = <<>> /\ submitted = 0 /\ completed = 0
  BY Zenon DEF EngineInit, SchedInit
<1>4. EngineTypeOK /\ CallSound
  BY Zenon, <1>2, <1>3 DEF EngineInit, EngineTypeOK, CallSound
<1>5. Agreed
  BY Zenon, SlotIsRequestSlot DEF EngineInit, SchedInit, KvInit, Agreed, FreshSlot, EmptyRequest
<1>6. EpochCustody /\ DeviceReads
  BY <1>3 DEF EngineInit, EpochCustody, DeviceReads
<1> QED
  BY Zenon, <1>1, <1>4, <1>5, <1>6 DEF EngineInv

\* Between calls nothing is in the scratch and the parts agree.
LEMMA EntryFacts ==
    ASSUME EngineInv, Entry
    PROVE  /\ SchedInv /\ KvInv /\ Agreed /\ permits = <<>>
           /\ ~faulted /\ call = "idle"
BY Zenon DEF EngineInv, EngineTypeOK, Entry

\* A step that takes the engine back to its entry, without a fault.
LEMMA ReturnKept ==
    ASSUME EngineInv, [SchedNext]_schedVars, [KvNext]_kvVars, ExecutingKept,
           UNCHANGED <<submitted, completed, executing, completions>>,
           Proceed("idle"), permits' = <<>>, Agreed'
    PROVE  EngineInv' /\ DevicePagesStep /\ FaultStep
<1>1. faulted' = faulted /\ call' = "idle" /\ faulted' \in BOOLEAN
  BY Zenon DEF Proceed, EngineInv, EngineTypeOK
<1>2. CallSound'
  BY Zenon, <1>1 DEF CallSound
<1>3. FaultStep
  BY Zenon, <1>1 DEF FaultStep
<1> QED
  BY Zenon, <1>1, <1>2, <1>3, StepKept

LEMMA EngineAdmitInv ==
    ASSUME EngineInv, EngineAdmit
    PROVE  EngineInv' /\ DevicePagesStep /\ FaultStep
<1> DEFINE h == Head(free_ring)
           r == Handle(h)
<1>0. SchedInv /\ KvInv /\ Agreed /\ permits = <<>>
  BY Zenon, EntryFacts DEF EngineAdmit
<1>1. Admit
  BY Zenon DEF EngineAdmit
<1>2. /\ h \in SlotIndex /\ slots[h].state = "Vacant" /\ OthersKept(h)
      /\ slots'[h].state = "Ready" /\ slots'[h].generation = slots[h].generation
      /\ UNCHANGED <<submitted, completed, permits>>
  BY <1>0, <1>1, AdmitSlots, Zenon
<1>3. r \in RequestId /\ r.slot = h /\ r.generation = slots[h].generation
  BY Zenon, <1>0, <1>2, SlotTypes, SlotIsRequestSlot DEF Handle, RequestId
<1>4. CanCreate(r)
  BY Zenon, <1>0, <1>2, <1>3 DEF Agreed, CanCreate
<1>5. CreateRequest(r) /\ Proceed("idle") /\ UNCHANGED <<executing, completions>>
  BY Zenon, <1>4 DEF EngineAdmit, deviceVars
<1> HIDE DEF r, h
<1>6. /\ Untouched(h) /\ requests'[h].live
      /\ requests'[h].generation = requests[h].generation
  BY Zenon, <1>0, <1>3, <1>5, CreateUntouched
<1>7. Agreed'
  <2>1. requests'[h].generation = slots'[h].generation
    BY Zenon, <1>0, <1>2, <1>6 DEF Agreed
  <2> QED
    BY Zenon, <1>0, <1>2, <1>6, <2>1, AgreedAt
<1>8. ExecutingKept
  BY Zenon, <1>0, <1>2, <1>6, IdleSlot, ExecutingOthers
<1>9. [SchedNext]_schedVars /\ [KvNext]_kvVars
  BY Zenon, <1>1, <1>3, <1>5 DEF SchedNext, KvNext
<1> QED
  BY Zenon, <1>0, <1>2, <1>5, <1>7, <1>8, <1>9, ReturnKept

\* append_tentative and share_committed_prefix, on requests that are ready.
LEMMA EngineGrowInv ==
    ASSUME EngineInv, NEW r \in RequestId, NEW n \in 1 .. MaxContext,
           \/ EngineAppend(r, n)
           \/ \E source \in RequestId : EngineShare(source, r, n)
    PROVE  EngineInv' /\ DevicePagesStep /\ FaultStep
<1>0. SchedInv /\ KvInv /\ Agreed /\ permits = <<>>
  BY Zenon, EntryFacts DEF EngineAppend, EngineShare
<1>1. /\ ReadyRequest(r) /\ Proceed("idle")
      /\ UNCHANGED <<schedVars, executing, completions>>
  BY Zenon DEF EngineAppend, EngineShare, deviceVars
<1>2. UNCHANGED <<slots, submitted, completed, permits>>
  BY Zenon, <1>1 DEF schedVars, scalars
<1>3. r.slot \in SlotIndex /\ slots[r.slot].state = "Ready"
  BY Zenon, <1>1 DEF ReadyRequest, Live
<1>4. KvNext
  BY Zenon DEF EngineAppend, EngineShare, KvNext
<1>5. /\ Untouched(r.slot) /\ requests'[r.slot].live
      /\ requests'[r.slot].generation = requests[r.slot].generation
  <2>1. CASE EngineAppend(r, n)
    BY Zenon, <1>0, <2>1, AppendUntouched DEF EngineAppend
  <2>2. ASSUME NEW source \in RequestId, EngineShare(source, r, n)
        PROVE  /\ Untouched(r.slot) /\ requests'[r.slot].live
               /\ requests'[r.slot].generation = requests[r.slot].generation
    BY Zenon, <1>0, <2>2, ShareUntouched DEF EngineShare
  <2> QED
    BY Zenon, <2>1, <2>2
<1>6. OthersKept(r.slot)
  BY Zenon, <1>2 DEF OthersKept
<1>7. Agreed'
  <2>1. requests'[r.slot].generation = slots'[r.slot].generation
    BY Zenon, <1>0, <1>2, <1>3, <1>5 DEF Agreed
  <2> QED
    BY Zenon, <1>0, <1>2, <1>3, <1>5, <1>6, <2>1, AgreedAt
<1>8. ExecutingKept
  BY Zenon, <1>0, <1>3, <1>5, <1>6, IdleSlot, ExecutingOthers
<1> QED
  BY Zenon, <1>0, <1>1, <1>2, <1>4, <1>7, <1>8, ReturnKept

LEMMA EngineRetireInv ==
    ASSUME EngineInv, NEW r \in RequestId, EngineRetire(r)
    PROVE  EngineInv' /\ DevicePagesStep /\ FaultStep
<1>0. SchedInv /\ KvInv /\ Agreed /\ permits = <<>>
  BY Zenon, EntryFacts DEF EngineRetire
<1>1. Retire(r) /\ Proceed("idle") /\ UNCHANGED <<kvVars, executing, completions>>
  BY Zenon DEF EngineRetire, deviceVars
<1>2. SlotsHeld /\ UNCHANGED <<submitted, completed, permits>>
  BY Zenon, <1>0, <1>1, RetireSlots
<1>3. Agreed' /\ ExecutingKept
  BY Zenon, <1>0, <1>1, <1>2, AgreedKept, ExecutingHeld
<1>4. SchedNext
  BY Zenon, <1>1 DEF SchedNext
<1> QED
  BY Zenon, <1>0, <1>1, <1>2, <1>3, <1>4, ReturnKept

\* Both dispatches: the new batch reads the tables of the slots it was launched
\* for, and none of those was on the device.
LEMMA EngineDispatchInv ==
    ASSUME EngineInv,
           \/ \E len \in 1 .. C : EngineDispatchReady(len)
           \/ \E n \in 1 .. C : \E roster \in [1 .. n -> SlotIndex] :
                 EngineDispatchExact(roster)
    PROVE  EngineInv' /\ DevicePagesStep /\ FaultStep
<1> DEFINE b == [epoch |-> submitted', pages |-> LaunchedPages]
<1>0. SchedInv /\ KvInv /\ Agreed /\ permits = <<>> /\ EngineTypeOK /\ EpochCustody
  BY Zenon, EntryFacts DEF EngineDispatchReady, EngineDispatchExact, EngineInv
<1>1. /\ Proceed("idle") /\ UNCHANGED kvVars
      /\ executing' = executing \cup {b} /\ completions' = completions
  BY Zenon DEF EngineDispatchReady, EngineDispatchExact, Launch
<1>2. \/ \E len \in 1 .. C : DispatchReady(len)
      \/ \E n \in 1 .. C : \E roster \in [1 .. n -> SlotIndex] : DispatchExact(roster)
  BY Zenon DEF EngineDispatchReady, EngineDispatchExact
<1>3. /\ SlotsHeld /\ UNCHANGED <<completed, permits>>
      /\ submitted' = submitted + 1 /\ submitted' \in Epoch
  BY Zenon, <1>0, <1>2, DispatchSlots
<1>4. Agreed' /\ ExecutingKept
  BY Zenon, <1>0, <1>1, <1>3, AgreedKept, ExecutingHeld
<1>5. [SchedNext]_schedVars
  BY Zenon, <1>2 DEF SchedNext
<1>6. SchedInv' /\ KvInv' /\ SchedTypeOK' /\ KvTypeOK'
  BY Zenon, <1>1, <1>5, PartsKept
<1>7. b.epoch = submitted' /\ b.pages = LaunchedPages
  BY Zenon
<1>8. LaunchedPages \in SUBSET PageId
  <2>1. \A s \in SlotIndex : \A i \in Positions(s) : requests[s].pages[i] \in PageId
    BY Zenon, <1>0, SlotIsRequestSlot, EntryTypes DEF KvInv, PageOwnership
  <2> QED
    BY <2>1 DEF LaunchedPages
<1>9. b \in [epoch : Epoch, pages : SUBSET PageId]
  BY Zenon, <1>3, <1>8
<1>10. \A page \in b.pages : \E s \in SlotIndex :
          /\ slots'[s].active_epoch = b.epoch
          /\ \E i \in Positions(s)' : requests'[s].pages[i] = page
  <2> SUFFICES ASSUME NEW page \in LaunchedPages
               PROVE  \E s \in SlotIndex :
                         /\ slots'[s].active_epoch = submitted'
                         /\ \E i \in Positions(s)' : requests'[s].pages[i] = page
    BY Zenon, <1>7
  <2>1. PICK s \in SlotIndex : /\ slots'[s].active_epoch = submitted'
                               /\ page \in {requests[s].pages[i] : i \in Positions(s)}
    BY Zenon DEF LaunchedPages
  <2>2. \E i \in Positions(s) : requests[s].pages[i] = page
    BY Zenon, <2>1
  <2>3. requests' = requests /\ Positions(s)' = Positions(s)
    BY Zenon, <1>1 DEF kvVars, Positions
  <2> QED
    BY Zenon, <2>1, <2>2, <2>3
<1> HIDE DEF b
<1>11. DevicePagesStep /\ DeviceReads'
  <2>1. DevicePagesStep
    BY Zenon, <1>4, DeviceKept
  <2>2. ASSUME NEW c \in executing', NEW page \in c.pages
        PROVE  \E s \in SlotIndex :
                  /\ slots'[s].active_epoch = c.epoch
                  /\ \E i \in Positions(s)' : requests'[s].pages[i] = page
    <3>1. CASE c = b
      BY Zenon, <1>10, <3>1
    <3>2. CASE c \in executing
      BY Zenon, <1>4, <3>2, BatchKept
    <3> QED
      BY Zenon, <1>1, <3>1, <3>2
  <2> QED
    BY Zenon, <2>1, <2>2 DEF DeviceReads
<1>12. submitted \in Nat /\ completed \in Nat /\ completed <= submitted
  BY <1>0, SchedulerAssumption DEF SchedInv, SchedTypeOK, PendingExact, Epoch
<1>13. EpochCustody'
  <2> DEFINE epochs == {x.epoch : x \in executing}
  <2>1. /\ \A x, y \in executing : x.epoch = y.epoch => x = y
        /\ \A x \in executing : x.epoch \notin completions
        /\ epochs \cup completions = (completed + 1) .. submitted
    BY Zenon, <1>0 DEF EpochCustody
  <2>2. {x.epoch : x \in executing'} = epochs \cup {submitted + 1}
    BY Zenon, <1>1, <1>3, <1>7
  <2>3. submitted + 1 \notin completions /\ \A x \in executing : x.epoch # submitted + 1
    <3>1. submitted + 1 \notin (completed + 1) .. submitted
      BY <1>12
    <3>2. \A x \in executing : x.epoch \in epochs
      BY Zenon
    <3> HIDE DEF epochs
    <3> QED
      BY Zenon, <2>1, <3>1, <3>2
  <2>4. (completed + 1) .. (submitted + 1) = ((completed + 1) .. submitted) \cup {submitted + 1}
    BY <1>12
  <2> HIDE DEF epochs
  <2>5. (epochs \cup {submitted + 1}) \cup completions = (completed + 1) .. (submitted + 1)
    BY Zenon, <2>1, <2>4
  <2>6. {x.epoch : x \in executing'} \cup completions' = (completed' + 1) .. submitted'
    BY Zenon, <1>1, <1>3, <2>2, <2>5
  <2>7. \A x, y \in executing' : x.epoch = y.epoch => x = y
    BY Zenon, <1>1, <1>3, <1>7, <2>1, <2>3
  <2>8. \A x \in executing' : x.epoch \notin completions'
    BY Zenon, <1>1, <1>3, <1>7, <2>1, <2>3
  <2> QED
    BY Zenon, <2>6, <2>7, <2>8 DEF EpochCustody
<1>14. faulted' = faulted /\ call' = "idle"
  BY Zenon, <1>1 DEF Proceed
<1>15. EngineTypeOK' /\ CallSound' /\ FaultStep
  BY Zenon, <1>0, <1>1, <1>3, <1>6, <1>9, <1>14 DEF EngineTypeOK, CallSound, FaultStep
<1> QED
  BY Zenon, <1>4, <1>6, <1>11, <1>13, <1>15 DEF EngineInv


\* The device finishes a batch: its epoch passes to the caller.
LEMMA DeviceQuiesceInv ==
    ASSUME EngineInv, NEW b \in executing, DeviceQuiesce(b)
    PROVE  EngineInv' /\ DevicePagesStep /\ FaultStep
<1>0. EngineTypeOK /\ EpochCustody
  BY Zenon DEF EngineInv
<1>1. /\ executing' = executing \ {b} /\ completions' = completions \cup {b.epoch}
      /\ UNCHANGED <<schedVars, kvVars, faulted, call>>
  BY Zenon DEF DeviceQuiesce
<1>2. UNCHANGED <<slots, submitted, completed, permits>>
  BY Zenon, <1>1 DEF schedVars, scalars
<1>3. ExecutingKept
  BY Zenon, <1>1, <1>2 DEF ExecutingKept, kvVars
<1>4. SchedInv' /\ KvInv' /\ SchedTypeOK' /\ KvTypeOK'
  BY Zenon, <1>1, PartsKept
<1>5. DeviceReads' /\ DevicePagesStep
  BY Zenon, <1>1, <1>3, DeviceKept
<1>6. EpochCustody'
  <2>1. /\ \A x, y \in executing : x.epoch = y.epoch => x = y
        /\ \A x \in executing : x.epoch \notin completions
        /\ {x.epoch : x \in executing} \cup completions = (completed + 1) .. submitted
    BY Zenon, <1>0 DEF EpochCustody
  <2>2. {x.epoch : x \in executing} = {x.epoch : x \in executing'} \cup {b.epoch}
    BY Zenon, <1>1
  <2>3. {x.epoch : x \in executing'} \cup completions' = (completed' + 1) .. submitted'
    BY Zenon, <1>1, <1>2, <2>1, <2>2
  <2>4. \A x \in executing' : x.epoch \notin completions'
    BY Zenon, <1>1, <2>1
  <2> QED
    BY Zenon, <1>1, <2>1, <2>3, <2>4 DEF EpochCustody
<1>7. ~faulted' => Agreed'
  BY Zenon, <1>1, <1>2 DEF EngineInv, Agreed, kvVars
<1>8. EngineTypeOK' /\ CallSound' /\ FaultStep
  BY Zenon, <1>0, <1>1, <1>2, <1>4 DEF EngineInv, EngineTypeOK, CallSound, FaultStep
<1> QED
  BY Zenon, <1>4, <1>5, <1>6, <1>7, <1>8 DEF EngineInv

\* complete_exact consumes the completion of the oldest epoch.
LEMMA CompleteBeginInv ==
    ASSUME EngineInv, NEW e \in Epoch, CompleteBegin(e)
    PROVE  EngineInv' /\ DevicePagesStep /\ FaultStep
<1>0. /\ SchedInv /\ KvInv /\ Agreed /\ permits = <<>> /\ ~faulted
      /\ EngineTypeOK /\ EpochCustody
  BY Zenon, EntryFacts DEF CompleteBegin, EngineInv
<1>1. /\ e \in completions /\ CompleteExact(e)
      /\ completions' = completions \ {e} /\ executing' = executing
      /\ UNCHANGED kvVars /\ faulted' = faulted /\ call' = "complete"
  BY Zenon DEF CompleteBegin, Proceed
<1>2. /\ UNCHANGED <<slots, submitted>>
      /\ e = completed + 1 /\ completed' = e /\ permits' # <<>>
  BY Zenon, <1>0, <1>1, CompleteSlots
<1>3. ExecutingKept /\ Agreed'
  BY Zenon, <1>0, <1>1, <1>2 DEF ExecutingKept, Agreed, kvVars
<1>4. SchedInv' /\ KvInv' /\ SchedTypeOK' /\ KvTypeOK'
  <2>1. SchedNext
    BY Zenon, <1>1 DEF SchedNext
  <2> QED
    BY Zenon, <1>1, <2>1, PartsKept
<1>5. DeviceReads' /\ DevicePagesStep
  BY Zenon, <1>1, <1>3, DeviceKept
<1>6. EpochCustody'
  <2> DEFINE epochs == {x.epoch : x \in executing}
  <2>1. /\ \A x, y \in executing : x.epoch = y.epoch => x = y
        /\ \A x \in executing : x.epoch \notin completions
        /\ epochs \cup completions = (completed + 1) .. submitted
    BY Zenon, <1>0 DEF EpochCustody
  <2>2. e \notin epochs
    BY Zenon, <1>1, <2>1
  <2>3. submitted \in Nat /\ completed \in Nat
    BY <1>0, SchedulerAssumption DEF SchedInv, SchedTypeOK, Epoch
  <2>4. (e + 1) .. submitted = ((completed + 1) .. submitted) \ {e}
    BY <1>2, <2>3
  <2> HIDE DEF epochs
  <2>5. epochs \cup (completions \ {e}) = (e + 1) .. submitted
    BY Zenon, <2>1, <2>2, <2>4
  <2>6. {x.epoch : x \in executing'} \cup completions' = (completed' + 1) .. submitted'
    BY Zenon, <1>1, <1>2, <2>5 DEF epochs
  <2> QED
    BY Zenon, <1>1, <2>1, <2>6 DEF EpochCustody
<1>7. EngineTypeOK' /\ CallSound' /\ FaultStep
  BY Zenon, <1>0, <1>1, <1>2, <1>4 DEF EngineTypeOK, CallSound, FaultStep
<1> QED
  BY Zenon, <1>3, <1>4, <1>5, <1>6, <1>7 DEF EngineInv

\* What a method that holds permits knows of the first.
LEMMA CallFacts ==
    ASSUME EngineInv, call # "idle"
    PROVE  LET r == permits[1].request IN
           /\ SchedInv /\ KvInv /\ Agreed /\ permits # <<>> /\ ~faulted
           /\ r \in RequestId /\ r.slot \in SlotIndex /\ r.slot \in RequestSlot
           /\ 1 \in 1 .. Len(permits)
           /\ LiveKv(r) /\ requests[r.slot].generation = slots[r.slot].generation
           /\ PermitSound(permits[1])
           /\ slots[r.slot].state \in {"InFlight", "Retiring"}
           /\ ~(slots[r.slot].active_epoch > completed)
<1> DEFINE r == permits[1].request
<1>1. SchedInv /\ KvInv /\ Agreed /\ permits # <<>> /\ ~faulted
  BY Zenon DEF EngineInv, EngineTypeOK, CallSound
<1>2. /\ r \in RequestId /\ r.slot \in SlotIndex /\ 1 \in 1 .. Len(permits)
      /\ r.generation = slots[r.slot].generation
      /\ PermitSound(permits[1])
      /\ slots[r.slot].state \in {"InFlight", "Retiring"}
      /\ ~(slots[r.slot].active_epoch > completed)
  BY Zenon, <1>1, FirstPermit
<1>3. LiveKv(r) /\ requests[r.slot].generation = slots[r.slot].generation
  BY Zenon, <1>1, <1>2 DEF Agreed, LiveKv
<1>4. r.slot \in RequestSlot
  BY Zenon, <1>2, SlotIsRequestSlot
<1> QED
  BY Zenon, <1>1, <1>2, <1>3, <1>4

\* A step that spends the first permit, for the request it names.
LEMMA SpendKept ==
    ASSUME EngineInv, call # "idle", NEW own \in SlotIndex,
           own = permits[1].request.slot, SchedNext, [KvNext]_kvVars,
           Untouched(own), OthersKept(own), permits' = Without(permits, 1),
           UNCHANGED <<submitted, completed, executing, completions>>,
           requests'[own].generation = slots'[own].generation,
           requests'[own].live <=> slots'[own].state # "Vacant",
           faulted' = faulted,
           \/ call = "complete" /\ call' = AfterPermit
           \/ call # "complete" /\ call' = "idle"
    PROVE  EngineInv' /\ DevicePagesStep /\ FaultStep
<1>0. /\ SchedInv /\ Agreed /\ permits # <<>> /\ ~faulted
      /\ ~(slots[own].active_epoch > completed)
  BY Zenon, CallFacts
<1>1. Agreed'
  BY Zenon, <1>0, AgreedAt
<1>2. ExecutingKept
  BY Zenon, <1>0, ExecutingOthers
<1>3. permits' # <<>> <=> Len(permits) # 1
  BY Zenon, <1>0, FirstSpent
<1>4. call \in {"complete", "reclaim", "reincarnate"}
      /\ (call # "complete" => Len(permits) = 1)
  BY Zenon DEF EngineInv, EngineTypeOK, CallSound
<1>5. call' \in {"idle", "complete"} /\ (permits' # <<>> <=> call' # "idle")
  BY Zenon, <1>3, <1>4 DEF AfterPermit
<1>6. CallSound' /\ FaultStep
  BY <1>0, <1>5, Zenon DEF CallSound, FaultStep
<1>7. faulted' \in BOOLEAN
  BY Zenon DEF EngineInv, EngineTypeOK
<1> QED
  BY Zenon, <1>1, <1>2, <1>5, <1>6, <1>7, StepKept


\* A step that faults and drops what is in the scratch.
LEMMA FaultKept ==
    ASSUME EngineInv, call # "idle", [SchedNext]_schedVars, UNCHANGED kvVars, Fault,
           permits' = <<>>, UNCHANGED <<slots, rings, scalars, executing, completions>>,
           \/ \E s \in SlotIndex : requests[s].generation = MaxGeneration
           \/ \E p \in PageIndex : pages[p].generation = MaxPageGeneration
    PROVE  EngineInv' /\ DevicePagesStep /\ FaultStep
<1>1. faulted' = TRUE /\ call' = "idle" /\ UNCHANGED <<submitted, completed>>
  BY Zenon DEF Fault, scalars
<1>2. ExecutingKept
  BY Zenon DEF ExecutingKept, kvVars
<1>3. CallSound' /\ FaultStep
  BY Zenon, <1>1 DEF CallSound, FaultStep
<1> QED
  BY Zenon, <1>1, <1>2, <1>3, StepKept

\* A page whose generation is used up.
LEMMA DropRefused ==
    ASSUME KvInv, NEW s \in RequestSlot, NEW positions \in SUBSET Positions(s),
           ~CanDrop(requests[s].pages, positions)
    PROVE  \E p \in PageIndex : pages[p].generation = MaxPageGeneration
<1>1. PICK i \in positions : pages[requests[s].pages[i].index].generation = MaxPageGeneration
  BY Zenon DEF CanDrop
<1>2. requests[s].pages[i].index \in PageIndex
  BY Zenon, NamedPage
<1> QED
  BY Zenon, <1>1, <1>2

LEMMA CompleteFinalizeInv ==
    ASSUME EngineInv, CompleteFinalize
    PROVE  EngineInv' /\ DevicePagesStep /\ FaultStep
<1> DEFINE r == permits[1].request
           own == r.slot
<1>0. call = "complete" /\ slots[own].state = "InFlight"
      /\ UNCHANGED <<executing, completions>>
  BY Zenon DEF CompleteFinalize, deviceVars
<1>1. /\ SchedInv /\ KvInv /\ Agreed /\ permits # <<>>
      /\ r \in RequestId /\ own \in SlotIndex /\ own \in RequestSlot
      /\ 1 \in 1 .. Len(permits)
      /\ LiveKv(r) /\ requests[own].generation = slots[own].generation
      /\ PermitSound(permits[1])
  BY Zenon, <1>0, CallFacts
<1>2. PICK n \in 0 .. MaxContext :
         /\ AcceptInRange(r, n)
         /\ IF ~CanFinalize(r, n) THEN CompleteFault
            ELSE /\ FinalizeTentative(r, n)
                 /\ IF Finalizable(permits[1])
                    THEN AcceptFinalized(1) /\ Proceed(AfterPermit)
                    ELSE ClearPermits /\ Fault
  BY Zenon DEF CompleteFinalize
<1>3. CASE ~CanFinalize(r, n)
  <2>1. ClearPermits /\ UNCHANGED kvVars /\ Fault
    BY Zenon, <1>2, <1>3 DEF CompleteFault
  <2>2. /\ permits' = <<>> /\ UNCHANGED <<slots, rings, scalars>>
        /\ [SchedNext]_schedVars
    BY Zenon, <2>1 DEF ClearPermits, SchedNext
  <2> DEFINE retained == PagesFor(CommittedAfter(requests[own], n))
             l == Len(requests[own].pages)
  <2>3. ~CanDrop(requests[own].pages, (retained + 1) .. l)
    BY Zenon, <1>1, <1>2, <1>3 DEF CanFinalize
  <2>4. (retained + 1) .. l \in SUBSET Positions(own)
    <3>1. requests[own].committed_tokens \in Nat /\ l \in Nat /\ n \in Nat
      BY <1>1, EntryTypes, KvPoolAssumption DEF KvInv, PageOwnership
    <3>2. CommittedAfter(requests[own], n) \in Nat
      BY <3>1 DEF CommittedAfter
    <3>3. retained \in Nat
      BY Zenon, <3>2, PagesForFacts
    <3> HIDE DEF retained
    <3> QED
      BY <3>1, <3>3 DEF Positions
  <2>5. \E p \in PageIndex : pages[p].generation = MaxPageGeneration
    BY Zenon, <1>1, <2>3, <2>4, DropRefused
  <2> QED
    BY Zenon, <1>0, <2>1, <2>2, <2>5, FaultKept
<1>4. CASE CanFinalize(r, n)
  <2>1. Finalizable(permits[1])
    <3>1. slots[own].active_epoch # NoEpoch
      BY Zenon, <1>0, <1>1 DEF SchedInv, SlotEpochs
    <3> QED
      BY <1>0, <1>1, <3>1 DEF PermitSound, OriginMatches, Occupies, Handle, Finalizable
  <2>2. FinalizeTentative(r, n) /\ AcceptFinalized(1) /\ Proceed(AfterPermit)
    BY Zenon, <1>2, <1>4, <2>1
  <2>3. /\ OthersKept(own) /\ slots'[own].state = "Ready"
        /\ slots'[own].generation = slots[own].generation
        /\ permits' = Without(permits, 1) /\ UNCHANGED <<submitted, completed>>
    BY Zenon, <1>1, <2>2, FinalizedSlots
  <2>4. /\ Untouched(own) /\ requests'[own].live
        /\ requests'[own].generation = requests[own].generation
    BY Zenon, <1>1, <2>2, FinalizeUntouched
  <2>5. SchedNext /\ [KvNext]_kvVars
    BY Zenon, <1>1, <2>2 DEF SchedNext, KvNext
  <2>6. faulted' = faulted /\ call' = AfterPermit
    BY Zenon, <2>2 DEF Proceed
  <2> HIDE DEF r, own
  <2>7. /\ requests'[own].generation = slots'[own].generation
        /\ requests'[own].live <=> slots'[own].state # "Vacant"
    BY Zenon, <1>1, <2>3, <2>4
  <2>8. own = permits[1].request.slot /\ call # "idle"
    BY Zenon, <1>0 DEF own, r
  <2> QED
    BY Zenon, <1>0, <1>1, <2>3, <2>4, <2>5, <2>6, <2>7, <2>8, SpendKept
<1> QED
  BY Zenon, <1>3, <1>4

\* The evidence of a release is always good for reclaiming its slot.
LEMMA DetachableHere ==
    ASSUME EngineInv, call # "idle", CanRelease(permits[1].request),
           slots[permits[1].request.slot].state = "Retiring"
    PROVE  Detachable(permits[1])
<1> DEFINE own == permits[1].request.slot
<1>1. /\ SchedInv /\ own \in SlotIndex /\ PermitSound(permits[1])
      /\ requests[own].generation = slots[own].generation
  BY Zenon, CallFacts
<1>2. Len(free_ring) # C
  <2>1. free_ring \in Seq(SlotIndex) /\ Injective(free_ring) /\ Listed(own)
    BY Zenon, <1>1 DEF SchedInv, SchedTypeOK, RingsExact
  <2>2. ~Holds(free_ring, own)
    BY Zenon, <2>1 DEF Listed
  <2>3. Len(free_ring) + 1 <= C
    BY <1>1, <2>1, <2>2, RingAppend
  <2> QED
    BY <2>1, <2>3, SchedulerAssumption
<1>3. slots[own].generation < MaxGeneration
  <2>1. slots[own].generation # MaxGeneration
    BY Zenon, <1>1 DEF CanRelease
  <2>2. slots[own].generation \in Generation
    BY Zenon, <1>1, SlotTypes
  <2> QED
    BY <2>1, <2>2, IdentityAssumption DEF Generation
<1> QED
  BY <1>1, <1>2, <1>3 DEF Detachable, PermitSound, Occupies, Handle

\* A release that the pool refuses.
LEMMA ReleaseRefused ==
    ASSUME EngineInv, call # "idle", ~CanRelease(permits[1].request)
    PROVE  \/ \E s \in SlotIndex : requests[s].generation = MaxGeneration
           \/ \E p \in PageIndex : pages[p].generation = MaxPageGeneration
<1> DEFINE r == permits[1].request
           own == r.slot
           sole == SolePositions(own, requests[own].pages)
<1>1. KvInv /\ own \in SlotIndex /\ own \in RequestSlot /\ LiveKv(r)
  BY Zenon, CallFacts
<1>2. \/ requests[own].generation = MaxGeneration
      \/ ~CanDrop(requests[own].pages, sole)
  BY Zenon, <1>1 DEF CanRelease
<1>3. sole \in SUBSET Positions(own)
  BY Zenon DEF SolePositions, Positions
<1> QED
  BY Zenon, <1>1, <1>2, <1>3, DropRefused


\* release_request and reclaim_detached, of complete_exact and of
\* reclaim_next_retiring.
LEMMA ReleaseAndReclaimInv ==
    ASSUME EngineInv, call # "idle", UNCHANGED <<executing, completions>>,
           slots[permits[1].request.slot].state = "Retiring",
           CanRelease(permits[1].request),
           NEW next, ReleaseAndReclaim(next),
           \/ call = "complete" /\ next = AfterPermit
           \/ call # "complete" /\ next = "idle"
    PROVE  EngineInv' /\ DevicePagesStep /\ FaultStep
<1> DEFINE r == permits[1].request
           own == r.slot
<1>1. /\ SchedInv /\ KvInv /\ Agreed /\ permits # <<>>
      /\ r \in RequestId /\ own \in SlotIndex /\ own \in RequestSlot
      /\ 1 \in 1 .. Len(permits)
      /\ requests[own].generation = slots[own].generation
  BY Zenon, CallFacts
<1>2. ReleaseInto(r, FALSE) /\ ReclaimDetached(1) /\ Proceed(next)
  BY Zenon, DetachableHere DEF ReleaseAndReclaim, ReleaseRequest
<1>3. SchedNext /\ [KvNext]_kvVars
  BY Zenon, <1>1, <1>2 DEF SchedNext, KvNext, ReleaseRequest
<1>4. /\ slots' = [slots EXCEPT ![own] = FreshSlot(slots[own].generation + 1, "Vacant", TRUE)]
      /\ permits' = Without(permits, 1) /\ UNCHANGED <<submitted, completed>>
  BY Zenon, <1>2 DEF ReclaimDetached
<1>5. /\ OthersKept(own) /\ slots'[own].state = "Vacant"
      /\ slots'[own].generation = slots[own].generation + 1
  BY Zenon, <1>1, <1>4, DetachedSlots
<1>6. /\ Untouched(own) /\ requests'[own].live = FALSE
      /\ requests'[own].generation = requests[own].generation + 1
  BY Zenon, <1>1, <1>2, ReleaseUntouched
<1>7. faulted' = faulted /\ call' = next
  BY Zenon, <1>2 DEF Proceed
<1>8. own = permits[1].request.slot
  BY Zenon
<1> HIDE DEF r, own
<1>9. /\ requests'[own].generation = slots'[own].generation
      /\ requests'[own].live <=> slots'[own].state # "Vacant"
  BY Zenon, <1>1, <1>5, <1>6
<1> QED
  BY Zenon, <1>1, <1>3, <1>4, <1>5, <1>6, <1>7, <1>8, <1>9, SpendKept

LEMMA CompleteReleaseInv ==
    ASSUME EngineInv, CompleteRelease
    PROVE  EngineInv' /\ DevicePagesStep /\ FaultStep
<1>1. /\ call = "complete" /\ slots[permits[1].request.slot].state = "Retiring"
      /\ UNCHANGED <<executing, completions>>
  BY Zenon DEF CompleteRelease, deviceVars
<1>2. CASE CanRelease(permits[1].request)
  <2>1. ReleaseAndReclaim(AfterPermit)
    BY Zenon, <1>2 DEF CompleteRelease
  <2> QED
    BY Zenon, <1>1, <1>2, <2>1, ReleaseAndReclaimInv
<1>3. CASE ~CanRelease(permits[1].request)
  <2>1. ClearPermits /\ UNCHANGED kvVars /\ Fault
    BY Zenon, <1>3 DEF CompleteRelease, CompleteFault
  <2>2. /\ permits' = <<>> /\ UNCHANGED <<slots, rings, scalars>>
        /\ [SchedNext]_schedVars
    BY Zenon, <2>1 DEF ClearPermits, SchedNext
  <2> QED
    BY Zenon, <1>1, <1>3, <2>1, <2>2, ReleaseRefused, FaultKept
<1> QED
  BY Zenon, <1>2, <1>3

\* reclaim_next_retiring and reincarnate_next_retiring take a permit.
LEMMA TakeInv ==
    ASSUME EngineInv, ReclaimTake \/ ReincarnateTake
    PROVE  EngineInv' /\ DevicePagesStep /\ FaultStep
<1>0. SchedInv /\ KvInv /\ Agreed /\ permits = <<>> /\ ~faulted
  BY Zenon, EntryFacts DEF ReclaimTake, ReincarnateTake
<1>1. /\ TakeRetiringPermit /\ UNCHANGED <<kvVars, executing, completions>>
      /\ faulted' = faulted /\ call' \in {"reclaim", "reincarnate"}
  BY Zenon DEF ReclaimTake, ReincarnateTake, Proceed, deviceVars
<1>2. /\ SlotsHeld /\ UNCHANGED <<submitted, completed>>
      /\ permits' # <<>> /\ Len(permits') = 1
      /\ slots'[permits'[1].request.slot].state = "Retiring"
  BY Zenon, <1>0, <1>1, TakenSlots
<1>3. Agreed' /\ ExecutingKept
  BY Zenon, <1>0, <1>1, <1>2, AgreedKept, ExecutingHeld
<1>4. SchedNext
  BY Zenon, <1>1 DEF SchedNext
<1>5. CallSound' /\ FaultStep
  BY Zenon, <1>0, <1>1, <1>2 DEF CallSound, FaultStep
<1>6. faulted' \in BOOLEAN
  BY Zenon, <1>1 DEF EngineInv, EngineTypeOK
<1> QED
  BY Zenon, <1>1, <1>2, <1>3, <1>4, <1>5, <1>6, StepKept

\* A release the pool refuses while a retired request is reclaimed.
LEMMA ReleaseFaultInv ==
    ASSUME EngineInv, call \in {"reclaim", "reincarnate"},
           UNCHANGED <<executing, completions>>,
           ~CanRelease(permits[1].request), ReleaseFault
    PROVE  EngineInv' /\ DevicePagesStep /\ FaultStep
<1>1. SchedInv /\ permits # <<>> /\ Len(permits) = 1 /\ 1 \in 1 .. Len(permits)
  BY Zenon, CallFacts DEF EngineInv, CallSound
<1>2. DropPermit(1) /\ UNCHANGED kvVars /\ Fault
  BY Zenon DEF ReleaseFault
<1>3. /\ permits' = Without(permits, 1) /\ UNCHANGED <<slots, rings, scalars>>
      /\ [SchedNext]_schedVars
  BY Zenon, <1>1, <1>2 DEF DropPermit, SchedNext
<1>4. permits' = <<>>
  BY Zenon, <1>1, <1>3, FirstSpent
<1> QED
  BY Zenon, <1>2, <1>3, <1>4, ReleaseRefused, FaultKept

LEMMA ReclaimReleaseInv ==
    ASSUME EngineInv, ReclaimRelease
    PROVE  EngineInv' /\ DevicePagesStep /\ FaultStep
<1>1. /\ call = "reclaim" /\ slots[permits[1].request.slot].state = "Retiring"
      /\ UNCHANGED <<executing, completions>>
  BY Zenon DEF ReclaimRelease, deviceVars, EngineInv, CallSound
<1>2. CASE CanRelease(permits[1].request)
  <2>1. ReleaseAndReclaim("idle")
    BY Zenon, <1>2 DEF ReclaimRelease
  <2> QED
    BY Zenon, <1>1, <1>2, <2>1, ReleaseAndReclaimInv
<1>3. CASE ~CanRelease(permits[1].request)
  <2>1. ReleaseFault
    BY Zenon, <1>3 DEF ReclaimRelease
  <2> QED
    BY Zenon, <1>1, <1>3, <2>1, ReleaseFaultInv
<1> QED
  BY Zenon, <1>2, <1>3

LEMMA ReincarnateReleaseInv ==
    ASSUME EngineInv, ReincarnateRelease
    PROVE  EngineInv' /\ DevicePagesStep /\ FaultStep
<1> DEFINE r == permits[1].request
           own == r.slot
<1>1. call = "reincarnate" /\ UNCHANGED <<executing, completions>>
  BY Zenon DEF ReincarnateRelease, deviceVars
<1>2. CASE ~CanRelease(r)
  <2>1. ReleaseFault
    BY Zenon, <1>2 DEF ReincarnateRelease
  <2> QED
    BY Zenon, <1>1, <1>2, <2>1, ReleaseFaultInv
<1>3. CASE CanRelease(r)
  <2>1. /\ SchedInv /\ KvInv /\ Agreed /\ permits # <<>>
        /\ r \in RequestId /\ own \in SlotIndex /\ own \in RequestSlot
        /\ 1 \in 1 .. Len(permits)
        /\ requests[own].generation = slots[own].generation
    BY Zenon, <1>1, CallFacts
  <2>2. ReleaseInto(r, TRUE) /\ ReincarnateDetached(1) /\ Proceed("idle")
    BY Zenon, <1>3 DEF ReincarnateRelease, ReleaseThenCreate
  <2>3. SchedNext /\ [KvNext]_kvVars
    BY Zenon, <2>1, <2>2 DEF SchedNext, KvNext, ReleaseThenCreate
  <2>4. /\ slots' = [slots EXCEPT ![own] = FreshSlot(slots[own].generation + 1, "Ready", FALSE)]
        /\ permits' = Without(permits, 1) /\ UNCHANGED <<submitted, completed>>
    BY Zenon, <2>2 DEF ReincarnateDetached, scalars
  <2>5. /\ OthersKept(own) /\ slots'[own].state = "Ready"
        /\ slots'[own].generation = slots[own].generation + 1
    BY Zenon, <2>1, <2>4, DetachedSlots
  <2>6. /\ Untouched(own) /\ requests'[own].live = TRUE
        /\ requests'[own].generation = requests[own].generation + 1
    BY Zenon, <2>1, <2>2, ReleaseUntouched
  <2>7. faulted' = faulted /\ call' = "idle"
    BY Zenon, <2>2 DEF Proceed
  <2>8. own = permits[1].request.slot
    BY Zenon
  <2> HIDE DEF r, own
  <2>9. /\ requests'[own].generation = slots'[own].generation
        /\ requests'[own].live <=> slots'[own].state # "Vacant"
    BY Zenon, <2>1, <2>5, <2>6
  <2> QED
    BY Zenon, <1>1, <2>1, <2>3, <2>4, <2>5, <2>6, <2>7, <2>8, <2>9, SpendKept
<1> QED
  BY Zenon, <1>2, <1>3

\* The caller latches the fault between two calls.
LEMMA QuarantineInv ==
    ASSUME EngineInv, Quarantine
    PROVE  EngineInv' /\ DevicePagesStep /\ FaultStep
<1>1. /\ call = "idle" /\ call' = "idle" /\ faulted' = TRUE
      /\ UNCHANGED <<schedVars, kvVars, executing, completions>>
  BY Zenon DEF Quarantine, deviceVars
<1>2. UNCHANGED <<slots, submitted, completed, permits>>
  BY Zenon, <1>1 DEF schedVars, scalars
<1>3. ExecutingKept /\ CallSound' /\ FaultStep
  BY Zenon, <1>1, <1>2 DEF ExecutingKept, kvVars, CallSound, FaultStep
<1>4. permits' # <<>> <=> call' # "idle"
  BY Zenon, <1>1, <1>2 DEF EngineInv, EngineTypeOK
<1> QED
  BY Zenon, <1>1, <1>2, <1>3, <1>4, StepKept

\* Every step of the engine.
LEMMA EngineNextInv ==
    ASSUME EngineInv, EngineNext
    PROVE  EngineInv' /\ DevicePagesStep /\ FaultStep
<1>1. ASSUME NEW r \in RequestId, NEW n \in 1 .. MaxContext, EngineAppend(r, n)
      PROVE  EngineInv' /\ DevicePagesStep /\ FaultStep
  BY Zenon, <1>1, EngineGrowInv
<1>2. ASSUME NEW source \in RequestId, NEW target \in RequestId, NEW n \in 1 .. MaxContext,
             EngineShare(source, target, n)
      PROVE  EngineInv' /\ DevicePagesStep /\ FaultStep
  BY Zenon, <1>2, EngineGrowInv
<1>3. ASSUME NEW r \in RequestId, EngineRetire(r)
      PROVE  EngineInv' /\ DevicePagesStep /\ FaultStep
  BY Zenon, <1>3, EngineRetireInv
<1>4. ASSUME \/ \E len \in 1 .. C : EngineDispatchReady(len)
             \/ \E n \in 1 .. C : \E roster \in [1 .. n -> SlotIndex] :
                   EngineDispatchExact(roster)
      PROVE  EngineInv' /\ DevicePagesStep /\ FaultStep
  BY Zenon, <1>4, EngineDispatchInv
<1>5. ASSUME NEW b \in executing, DeviceQuiesce(b)
      PROVE  EngineInv' /\ DevicePagesStep /\ FaultStep
  BY Zenon, <1>5, DeviceQuiesceInv
<1>6. ASSUME NEW e \in Epoch, CompleteBegin(e)
      PROVE  EngineInv' /\ DevicePagesStep /\ FaultStep
  BY Zenon, <1>6, CompleteBeginInv
<1>7. ASSUME \/ EngineAdmit \/ CompleteFinalize \/ CompleteRelease
             \/ ReclaimTake \/ ReincarnateTake \/ ReclaimRelease
             \/ ReincarnateRelease \/ Quarantine
      PROVE  EngineInv' /\ DevicePagesStep /\ FaultStep
  BY Zenon, <1>7, EngineAdmitInv, CompleteFinalizeInv, CompleteReleaseInv, TakeInv,
     ReclaimReleaseInv, ReincarnateReleaseInv, QuarantineInv
<1> QED
  BY Zenon, <1>1, <1>2, <1>3, <1>4, <1>5, <1>6, <1>7 DEF EngineNext

LEMMA EngineStutter == EngineInv /\ UNCHANGED engineVars => EngineInv'
<1> SUFFICES ASSUME EngineInv, UNCHANGED engineVars PROVE EngineInv'
  BY Zenon
<1>1. UNCHANGED <<schedVars, kvVars, faulted, call, executing, completions>>
  BY Zenon DEF engineVars, deviceVars
<1>2. UNCHANGED <<slots, submitted, completed, permits>>
  BY Zenon, <1>1 DEF schedVars, scalars
<1>3. ExecutingKept /\ CallSound' /\ (~faulted' => Agreed')
  BY Zenon, <1>1, <1>2 DEF EngineInv, ExecutingKept, kvVars, CallSound, Agreed
<1>4. /\ faulted' \in BOOLEAN
      /\ call' \in {"idle", "complete", "reclaim", "reincarnate"}
      /\ permits' # <<>> <=> call' # "idle"
  BY Zenon, <1>1, <1>2 DEF EngineInv, EngineTypeOK
<1> QED
  BY Zenon, <1>1, <1>2, <1>3, <1>4, StepKept


\* Every step of the engine calls the scheduler at most once and the pool at
\* most once, within what each of them allows.
LEMMA EngineCalls ==
    ASSUME EngineInv, EngineNext
    PROVE  [SchedNext]_schedVars /\ [KvNext]_kvVars
<1>1. ASSUME EngineAdmit PROVE [SchedNext]_schedVars /\ [KvNext]_kvVars
  <2> DEFINE h == Head(free_ring)
             r == Handle(h)
  <2>1. SchedInv /\ Admit
    BY Zenon, <1>1, EntryFacts DEF EngineAdmit
  <2>2. h \in SlotIndex
    BY Zenon, <2>1, AdmitSlots
  <2>3. r \in RequestId
    BY Zenon, <2>1, <2>2, SlotTypes, SlotIsRequestSlot DEF Handle, RequestId
  <2>4. CreateRequest(r) \/ UNCHANGED kvVars
    BY Zenon, <1>1 DEF EngineAdmit
  <2> HIDE DEF r
  <2> QED
    BY Zenon, <2>1, <2>3, <2>4 DEF SchedNext, KvNext
<1>2. ASSUME NEW r \in RequestId, NEW n \in 1 .. MaxContext, EngineAppend(r, n)
      PROVE  [SchedNext]_schedVars /\ [KvNext]_kvVars
  BY Zenon, <1>2 DEF EngineAppend, KvNext
<1>3. ASSUME NEW source \in RequestId, NEW target \in RequestId, NEW n \in 1 .. MaxContext,
             EngineShare(source, target, n)
      PROVE  [SchedNext]_schedVars /\ [KvNext]_kvVars
  BY Zenon, <1>3 DEF EngineShare, KvNext
<1>4. ASSUME \/ \E r \in RequestId : EngineRetire(r)
             \/ \E len \in 1 .. C : EngineDispatchReady(len)
             \/ \E n \in 1 .. C : \E roster \in [1 .. n -> SlotIndex] :
                   EngineDispatchExact(roster)
             \/ \E e \in Epoch : CompleteBegin(e)
             \/ ReclaimTake \/ ReincarnateTake
      PROVE  [SchedNext]_schedVars /\ [KvNext]_kvVars
  BY Zenon, <1>4 DEF EngineRetire, EngineDispatchReady, EngineDispatchExact, CompleteBegin,
              ReclaimTake, ReincarnateTake, SchedNext
<1>5. ASSUME (\E b \in executing : DeviceQuiesce(b)) \/ Quarantine
      PROVE  [SchedNext]_schedVars /\ [KvNext]_kvVars
  BY Zenon, <1>5 DEF DeviceQuiesce, Quarantine
<1>6. ASSUME CompleteFinalize \/ CompleteRelease \/ ReclaimRelease \/ ReincarnateRelease
      PROVE  [SchedNext]_schedVars /\ [KvNext]_kvVars
  <2> DEFINE r == permits[1].request
  <2>1. r \in RequestId /\ 1 \in 1 .. Len(permits)
    BY Zenon, <1>6, CallFacts DEF CompleteFinalize, CompleteRelease, ReclaimRelease,
                           ReincarnateRelease
  <2>2. \/ AcceptFinalized(1) \/ ReclaimDetached(1) \/ ReincarnateDetached(1)
        \/ DropPermit(1) \/ ClearPermits
    BY Zenon, <1>6 DEF CompleteFinalize, CompleteRelease, ReclaimRelease, ReincarnateRelease,
                ReleaseAndReclaim, CompleteFault, ReleaseFault
  <2>3. \/ \E n \in 0 .. MaxContext : FinalizeTentative(r, n)
        \/ ReleaseRequest(r) \/ ReleaseThenCreate(r) \/ UNCHANGED kvVars
    BY Zenon, <1>6 DEF CompleteFinalize, CompleteRelease, ReclaimRelease, ReincarnateRelease,
                ReleaseAndReclaim, CompleteFault, ReleaseFault
  <2> HIDE DEF r
  <2> QED
    BY Zenon, <2>1, <2>2, <2>3 DEF SchedNext, KvNext
<1> QED
  BY Zenon, <1>1, <1>2, <1>3, <1>4, <1>5, <1>6 DEF EngineNext

-----------------------------------------------------------------------------
(* Every behaviour *)

\* The inductive invariant of the composed engine.
THEOREM EngineInvariant == EngineSpec => []EngineInv
<1>1. EngineInit => EngineInv
  BY Zenon, EngineInitInv
<1>2. EngineInv /\ [EngineNext]_engineVars => EngineInv'
  BY Zenon, EngineNextInv, EngineStutter
<1> QED
  BY <1>1, <1>2, PTL DEF EngineSpec

\* The engine drives the scheduler and the pool only as their own
\* specifications allow, so what is proved of either holds inside the engine.
THEOREM EngineComponents == EngineSpec => SchedSpec /\ KvSpec
<1>1. EngineInit => SchedInit /\ KvInit
  BY Zenon DEF EngineInit
<1>2. EngineInv /\ [EngineNext]_engineVars => [SchedNext]_schedVars /\ [KvNext]_kvVars
  <2>1. UNCHANGED engineVars => UNCHANGED schedVars /\ UNCHANGED kvVars
    BY Zenon DEF engineVars
  <2> QED
    BY Zenon, <2>1, EngineCalls
<1> QED
  BY <1>1, <1>2, EngineInvariant, PTL DEF EngineSpec, SchedSpec, KvSpec

\* Between calls the scheduler and the pool name the same live generations, and
\* no permit is left behind.
THEOREM EngineIdentity == EngineSpec => []IdentityAgreement
<1>1. EngineInv => IdentityAgreement
  BY Zenon DEF EngineInv, IdentityAgreement, Entry, Agreed
<1> QED
  BY <1>1, EngineInvariant, PTL

\* No page of a batch on the device is freed or handed to another request.
THEOREM EngineDevicePages == EngineSpec => []DevicePagesHeld
<1>1. EngineInv => DevicePagesHeld
  <2> SUFFICES ASSUME EngineInv, NEW b \in executing, NEW page \in b.pages
               PROVE  /\ pages[page.index].generation = page.generation
                      /\ pages[page.index].state # Free
    BY Zenon DEF DevicePagesHeld
  <2>1. PICK s \in SlotIndex : \E i \in Positions(s) : requests[s].pages[i] = page
    BY Zenon DEF EngineInv, DeviceReads
  <2>2. PICK i \in Positions(s) : requests[s].pages[i] = page
    BY Zenon, <2>1
  <2> QED
    BY Zenon, <2>2, SlotIsRequestSlot, NamedPage DEF EngineInv
<1> QED
  BY <1>1, EngineInvariant, PTL

\* An epoch that is not completed is on the device or its completion is in the
\* caller's hands, once.
THEOREM EngineEpochs == EngineSpec => []EpochCustody
<1>1. EngineInv => EpochCustody
  BY Zenon DEF EngineInv
<1> QED
  BY <1>1, EngineInvariant, PTL

\* No page of a batch on the device is written.
THEOREM EngineUnwritten == EngineSpec => DevicePagesUnwritten
<1>1. EngineInv /\ [EngineNext]_engineVars => [DevicePagesStep]_engineVars
  BY Zenon, EngineNextInv
<1> QED
  BY <1>1, EngineInvariant, PTL DEF EngineSpec, DevicePagesUnwritten

\* The engine faults only by quarantine or on a generation that is used up.
THEOREM EngineFaults == EngineSpec => FaultOnlyExhaustion
<1>1. EngineInv /\ [EngineNext]_engineVars => [FaultStep]_engineVars
  BY Zenon, EngineNextInv
<1> QED
  BY <1>1, EngineInvariant, PTL DEF EngineSpec, FaultOnlyExhaustion

=============================================================================
