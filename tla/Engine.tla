------------------------------- MODULE Engine -------------------------------
(***************************************************************************)
(* The composed engine of ferric-engine/src/system.rs: Engine<C>, which    *)
(* owns a Scheduler and a KvPool, the completion scratch (permits) and a   *)
(* fail-stop latch, together with the device that executes the batches.    *)
(*                                                                         *)
(* Every method takes &mut self, so calls do not overlap; what interleaves *)
(* is the order of the calls on different requests, the batches in flight, *)
(* and the device.  A method that obtains permits and then spends them one *)
(* by one is a first step and one step per permit, with call naming the    *)
(* method: nothing else of the engine is enabled until it has returned.    *)
(* Each step is then one call of the Scheduler together with one call of   *)
(* the KvPool.                                                             *)
(*                                                                         *)
(* External: executing holds, for each batch the device has not finished,  *)
(* its epoch and the pages its members' page tables name; completions are  *)
(* the epochs whose ExactCompletion the caller holds.  The device may      *)
(* finish batches in any order.                                            *)
(***************************************************************************)
EXTENDS Scheduler, KvPool

VARIABLES faulted, call, executing, completions

deviceVars == <<executing, completions>>
engineVars == <<schedVars, kvVars, faulted, call, deviceVars>>

EngineInit ==
    /\ SchedInit /\ KvInit
    /\ faulted = FALSE /\ call = "idle"
    /\ executing = {} /\ completions = {}

\* require_healthy, at the entry of a call.
Entry == ~faulted /\ call = "idle"

\* The engine returns with error and stays faulted.
Fault == faulted' = TRUE /\ call' = "idle"

Proceed(next) == UNCHANGED faulted /\ call' = next

-----------------------------------------------------------------------------
(* Admission, KV growth and retirement *)

EngineAdmit ==
    /\ Entry
    /\ Admit
    /\ LET r == Handle(Head(free_ring)) IN
       IF CanCreate(r) THEN CreateRequest(r) /\ Proceed("idle")
                       ELSE UNCHANGED kvVars /\ Fault
    /\ UNCHANGED deviceVars

ReadyRequest(r) == Live(r) /\ slots[r.slot].state = "Ready"

\* A plausible slip: any live request may grow, in flight or not.
EngineAppendLive(r, n) ==
    /\ Entry /\ Live(r)
    /\ AppendTentative(r, n)
    /\ Proceed("idle") /\ UNCHANGED <<schedVars, deviceVars>>

EngineAppend(r, n) ==
    /\ Entry /\ ReadyRequest(r)
    /\ AppendTentative(r, n)
    /\ Proceed("idle") /\ UNCHANGED <<schedVars, deviceVars>>

EngineShare(source, target, n) ==
    /\ Entry /\ ReadyRequest(source) /\ ReadyRequest(target)
    /\ ShareCommittedPrefix(source, target, n)
    /\ Proceed("idle") /\ UNCHANGED <<schedVars, deviceVars>>

EngineRetire(r) ==
    /\ Entry
    /\ Retire(r)
    /\ Proceed("idle") /\ UNCHANGED <<kvVars, deviceVars>>

-----------------------------------------------------------------------------
(* Dispatch and the device *)

\* The pages the batch just submitted reads: the page tables of its members.
LaunchedPages ==
    UNION {{requests[s].pages[i] : i \in Positions(s)} :
           s \in {t \in SlotIndex : slots'[t].active_epoch = submitted'}}

Launch ==
    /\ executing' = executing \cup {[epoch |-> submitted', pages |-> LaunchedPages]}
    /\ UNCHANGED completions

EngineDispatchReady(len) ==
    /\ Entry
    /\ DispatchReady(len)
    /\ Launch
    /\ Proceed("idle") /\ UNCHANGED kvVars

EngineDispatchExact(roster) ==
    /\ Entry
    /\ DispatchExact(roster)
    /\ Launch
    /\ Proceed("idle") /\ UNCHANGED kvVars

\* The device finishes batch b and the caller gets its ExactCompletion.
DeviceQuiesce(b) ==
    /\ executing' = executing \ {b}
    /\ completions' = completions \cup {b.epoch}
    /\ UNCHANGED <<schedVars, kvVars, faulted, call>>

-----------------------------------------------------------------------------
(* Completion *)

HeadMembers == {member_ring[i] : i \in 1 .. Head(batch_ring).member_count}

\* A plausible slip: a member retired since the dispatch is refused.
MemberReadyInFlight(r) == slots[r.slot].state = "InFlight" /\ LiveKv(r)

\* preflight_complete_exact on one member.  The accepted counts are chosen, in
\* range, in the step that spends the member's permit.
MemberReady(r) ==
    \/ slots[r.slot].state = "InFlight" /\ LiveKv(r)
    \/ slots[r.slot].state = "Retiring" /\ slots[r.slot].generation < MaxGeneration

\* A plausible slip: the caller's completion is not consumed.
CompleteBeginKeeps(e) ==
    /\ Entry
    /\ e \in completions
    /\ batch_ring # <<>>
    /\ \A r \in HeadMembers : MemberReady(r)
    /\ CompleteExact(e)
    /\ Proceed("complete") /\ UNCHANGED <<kvVars, deviceVars>>

\* complete_exact up to Scheduler::complete_exact: the authority is consumed
\* and one permit per member is in the scratch.
CompleteBegin(e) ==
    /\ Entry
    /\ e \in completions
    /\ batch_ring # <<>>
    /\ \A r \in HeadMembers : MemberReady(r)
    /\ CompleteExact(e)
    /\ completions' = completions \ {e}
    /\ Proceed("complete") /\ UNCHANGED <<kvVars, executing>>

\* A KV error in the middle of a completion: the remaining permits are cleared.
CompleteFault == ClearPermits /\ UNCHANGED kvVars /\ Fault

AfterPermit == IF Len(permits) = 1 THEN "idle" ELSE "complete"

\* One iteration of complete_exact's loop for a member still in flight.
CompleteFinalize ==
    /\ call = "complete"
    /\ LET r == permits[1].request IN
       /\ slots[r.slot].state = "InFlight"
       /\ \E n \in 0 .. MaxContext :
            /\ AcceptInRange(r, n)
            /\ IF ~CanFinalize(r, n) THEN CompleteFault
               ELSE /\ FinalizeTentative(r, n)
                    /\ IF Finalizable(permits[1])
                       THEN AcceptFinalized(1) /\ Proceed(AfterPermit)
                       ELSE ClearPermits /\ Fault
    /\ UNCHANGED deviceVars

\* release_request, then reclaim_detached on the evidence it returns.
ReleaseAndReclaim(next) ==
    /\ ReleaseRequest(permits[1].request)
    /\ IF Detachable(permits[1]) THEN ReclaimDetached(1) /\ Proceed(next)
                                 ELSE DropPermit(1) /\ Fault

\* A plausible slip: the slot is reclaimed and its KV state is forgotten.
CompleteReleaseForgets ==
    /\ call = "complete"
    /\ slots[permits[1].request.slot].state = "Retiring"
    /\ ReclaimDetached(1) /\ Proceed(AfterPermit)
    /\ UNCHANGED <<kvVars, deviceVars>>

\* One iteration of the loop for a member retired while in flight.
CompleteRelease ==
    /\ call = "complete"
    /\ slots[permits[1].request.slot].state = "Retiring"
    /\ IF CanRelease(permits[1].request) THEN ReleaseAndReclaim(AfterPermit)
                                         ELSE CompleteFault
    /\ UNCHANGED deviceVars

-----------------------------------------------------------------------------
(* Reclamation of requests retired while ready *)

ReclaimTake ==
    /\ Entry
    /\ TakeRetiringPermit
    /\ Proceed("reclaim") /\ UNCHANGED <<kvVars, deviceVars>>

\* A failed release drops the permit that was taken.
ReleaseFault == DropPermit(1) /\ UNCHANGED kvVars /\ Fault

ReclaimRelease ==
    /\ call = "reclaim"
    /\ IF CanRelease(permits[1].request) THEN ReleaseAndReclaim("idle")
                                         ELSE ReleaseFault
    /\ UNCHANGED deviceVars

\* reincarnate_next_retiring, whose preflight refuses an exhausted generation.
ReincarnateTake ==
    /\ Entry
    /\ reclaim_ring # <<>>
    /\ slots[Head(reclaim_ring)].generation # MaxGeneration
    /\ TakeRetiringPermit
    /\ Proceed("reincarnate") /\ UNCHANGED <<kvVars, deviceVars>>

\* A plausible slip: the successor gets no KV entry.
ReincarnateReleaseOnly ==
    /\ call = "reincarnate"
    /\ LET r == permits[1].request IN
       IF CanRelease(r)
       THEN ReleaseRequest(r) /\ ReincarnateDetached(1) /\ Proceed("idle")
       ELSE ReleaseFault
    /\ UNCHANGED deviceVars

ReincarnateRelease ==
    /\ call = "reincarnate"
    /\ LET r == permits[1].request IN
       IF CanRelease(r)
       THEN ReleaseThenCreate(r) /\ ReincarnateDetached(1) /\ Proceed("idle")
       ELSE ReleaseFault
    /\ UNCHANGED deviceVars

\* quarantine_m1_queue_rearm_failure: the caller latches the fault.
Quarantine ==
    /\ call = "idle"
    /\ faulted' = TRUE
    /\ UNCHANGED <<schedVars, kvVars, call, deviceVars>>

EngineNext ==
    \/ EngineAdmit
    \/ \E r \in RequestId, n \in 1 .. MaxContext : EngineAppend(r, n)
    \/ \E source, target \in RequestId, n \in 1 .. MaxContext :
          EngineShare(source, target, n)
    \/ \E r \in RequestId : EngineRetire(r)
    \/ \E len \in 1 .. C : EngineDispatchReady(len)
    \/ \E n \in 1 .. C : \E roster \in [1 .. n -> SlotIndex] : EngineDispatchExact(roster)
    \/ \E b \in executing : DeviceQuiesce(b)
    \/ \E e \in Epoch : CompleteBegin(e)
    \/ CompleteFinalize \/ CompleteRelease
    \/ ReclaimTake \/ ReclaimRelease
    \/ ReincarnateTake \/ ReincarnateRelease
    \/ Quarantine

EngineSpec == EngineInit /\ [][EngineNext]_engineVars

\* The device finishes every batch; the caller hands in every completion it
\* holds and keeps reclaiming; a call that has begun returns.
EngineFair ==
    /\ \A e \in Epoch : WF_engineVars(\E b \in executing : b.epoch = e /\ DeviceQuiesce(b))
    /\ WF_engineVars(\E e \in Epoch : CompleteBegin(e))
    /\ WF_engineVars(CompleteFinalize \/ CompleteRelease)
    /\ WF_engineVars(ReclaimTake)
    /\ WF_engineVars(ReclaimRelease \/ ReincarnateRelease)

EngineFairSpec == EngineSpec /\ EngineFair

-----------------------------------------------------------------------------
(* Properties *)

\* The state of the engine has its type; the scratch is empty between calls.
EngineTypeOK ==
    /\ SchedTypeOK /\ KvTypeOK
    /\ faulted \in BOOLEAN
    /\ call \in {"idle", "complete", "reclaim", "reincarnate"}
    /\ permits # <<>> <=> call # "idle"
    /\ executing \subseteq [epoch : Epoch, pages : SUBSET PageId]
    /\ completions \subseteq Epoch

\* Between calls of an engine that has not faulted, the scheduler and the KV
\* pool agree on which slots are live and under which generation, so that an
\* admission never meets an occupied or a stale KV slot; a fault in the middle
\* of a call leaves no permit behind.
IdentityAgreement ==
    /\ EngineTypeOK
    /\ Entry => \A s \in SlotIndex :
          /\ requests[s].generation = slots[s].generation
          /\ requests[s].live <=> slots[s].state # "Vacant"

\* No page a batch on the device was launched with is freed, let alone handed
\* to another request, before the device has finished the batch: whatever is
\* retired, completed, reclaimed or faulted meanwhile.
DevicePagesHeld ==
    \A b \in executing : \A page \in b.pages :
        /\ pages[page.index].generation = page.generation
        /\ pages[page.index].state # Free

\* ... and no such page is written.
DevicePagesStep ==
    \A b \in executing : \A page \in b.pages :
        pages'[page.index].initialized_tokens = pages[page.index].initialized_tokens

DevicePagesUnwritten == [][DevicePagesStep]_engineVars

\* Each submitted epoch that is not completed is on the device or its
\* completion is in the caller's hands, never both and never twice; a rejected
\* completion is not lost and an accepted one cannot be replayed.
EpochCustody ==
    /\ \A b1, b2 \in executing : b1.epoch = b2.epoch => b1 = b2
    /\ \A b \in executing : b.epoch \notin completions
    /\ {b.epoch : b \in executing} \cup completions = (completed + 1) .. submitted

\* The engine faults only because the caller quarantined it or because a
\* request or page generation is used up: the branches that fault on a
\* disagreement between scheduler and pool are never taken.
FaultStep ==
    ~faulted /\ faulted' =>
        \/ Quarantine
        \/ \E s \in SlotIndex : requests[s].generation = MaxGeneration
        \/ \E p \in PageIndex : pages[p].generation = MaxPageGeneration

FaultOnlyExhaustion == [][FaultStep]_engineVars

\* A member of the oldest batch was retired in the last generation of its slot:
\* preflight_complete_exact rejects every completion of that batch.
Wedged ==
    batch_ring # <<>> /\ \E r \in HeadMembers :
        slots[r.slot].state = "Retiring" /\ slots[r.slot].generation = MaxGeneration

\* A completion in the caller's hands is eventually applied, though batches
\* finish out of order and members are cancelled, unless the engine stops or
\* the oldest batch has a retired member in its slot's last generation.
CompletionsSettle ==
    \A e \in Epoch : e \in completions ~> completed >= e \/ faulted \/ Wedged

\* A retired request, in flight or not, eventually gives back its slot, unless
\* the engine stops, is wedged, or the slot has no next generation.
RetiredLeaves ==
    \A r \in RequestId :
        Live(r) /\ slots[r.slot].state = "Retiring" ~>
            \/ ~Live(r) \/ faulted \/ Wedged \/ r.generation = MaxGeneration

\* The documentation of complete_exact has generation exhaustion found after
\* quiescence fault the engine; taken at its word, a completion the caller
\* holds is applied or the engine is faulted.
CompletionSettlesOrFaults ==
    \A e \in Epoch : e \in completions ~> completed >= e \/ faulted

=============================================================================
