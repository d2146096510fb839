----------------------------- MODULE StepQueue -----------------------------
(***************************************************************************)
(* The life of one device queue: the batch it was launched with, the wait  *)
(* for each batch (QueueWait), the readback, the completion of a step, the *)
(* return of device KV pages (DeviceKv), and the next batch by rollover,   *)
(* rearm or draft catch-up, until shutdown or failure.  The sources are    *)
(* physical_queue_lifecycle.rs, m1_completed_step.rs,                      *)
(* m1_completed_step_release.rs, m1_queue_rollover.rs, m1_queue_rearm.rs   *)
(* and structural_draft_catchup.rs.                                        *)
(*                                                                         *)
(* An operation consumes one owner and returns the next, so there is one   *)
(* host thread of control, phase; an operation is one step, except the     *)
(* wait.  Other callers of the engine (admit, retire, reclaim) come in     *)
(* between, and during the wait for the first batch, which does not borrow *)
(* the engine.  A refusal that hands its owner back changes nothing and is *)
(* a stuttering step.                                                      *)
(*                                                                         *)
(* The engine is the part of module Engine the queue reads: request        *)
(* states, generations, the one batch in flight.  Lanes are sets: no       *)
(* check depends on their order.  The page of a lease is its logical page  *)
(* number, as structural_draft_catchup.rs chooses it.  Left out: the       *)
(* target-only shape, bucket choice beyond "one lane", round history, host *)
(* allocation failures, plan and device identities.                        *)
(***************************************************************************)
EXTENDS QueueWait, DeviceKv

CONSTANTS Slot,            \* request slots of the engine
          Prompt,          \* prompt length of the request launched from a slot
          DraftTokens,     \* K
          MaxEpoch, MaxGeneration

ASSUME StepQueueAssumption ==
    /\ PageTokens \in Nat \ {0} /\ DraftTokens \in 1 .. PageTokens
    /\ Context \in Nat /\ Prompt \in [Slot -> 1 .. Context]
    /\ MaxEpoch \in Nat /\ MaxGeneration \in Nat

VARIABLES
    state, gen, batch, epoch, faulted,  \* the engine
    ledger,      \* per role and slot, the arena's record of each page
    cache,       \* per slot, the device KV owner the queue's custody holds
    terminal,    \* requests whose cache has been released
    phase,       \* the owner the host holds
    shape,       \* of the last batch
    roster,      \* slots in the last batch
    single,      \* the window was launched with one lane
    rearmed,     \* the queue is past its first batch
    asked,       \* slots the rejected completion asked to retire
    pinned,      \* pages the last batch published may touch
    cause        \* why the queue or the engine was given up

engineVars == <<state, gen, batch, epoch>>
kvVars == <<ledger, cache, terminal>>
queueVars == <<shape, roster, single, rearmed, pinned>>
stepVars == <<waitVars, engineVars, faulted, kvVars, phase, queueVars, asked, cause>>

Role == {"draft", "target"}

\* A slot whose cache is in no custody of the queue.
NoCache == [request |-> 0]

Owned == {s \in Slot : cache[s] # NoCache}

\* The members of the last batch that continue, and the parked ones.
ActiveMembers == Owned \cap roster
Parked == Owned \ roster

\* The request the cache of s belongs to is the one the engine has, ready.
ReadyMember(s) == gen[s] = cache[s].request /\ state[s] = "ready"

StepInit ==
    /\ WaitInit
    /\ state = [s \in Slot |-> "vacant"] /\ gen = [s \in Slot |-> 1]
    /\ batch = {} /\ epoch = 0 /\ faulted = FALSE
    /\ ledger = [r \in Role |-> [s \in Slot |-> [i \in Page |-> [gen |-> 1, by |-> 0]]]]
    /\ cache = [s \in Slot |-> NoCache] /\ terminal = {}
    /\ phase = "none" /\ shape = "none" /\ roster = {} /\ single = FALSE
    /\ rearmed = FALSE /\ asked = {} /\ pinned = {} /\ cause = "none"

-----------------------------------------------------------------------------
(* The engine's other callers *)

\* A wait on a rearmed queue, and the readback of a catch-up, hold &mut Engine.
EngineFree ==
    /\ ~faulted
    /\ ~ /\ rearmed
         /\ \/ stage \in {"waiting", "closing"}
            \/ phase = "launched" /\ stage = "completed" /\ shape = "catchup"

EngineOnly == UNCHANGED <<waitVars, epoch, faulted, kvVars, phase, queueVars, asked, cause>>

Admit(s) ==
    /\ EngineFree /\ state[s] = "vacant" /\ gen[s] <= MaxGeneration
    /\ state' = [state EXCEPT ![s] = "ready"]
    /\ UNCHANGED <<gen, batch>> /\ EngineOnly

Retire(s) ==
    /\ EngineFree /\ state[s] \in {"ready", "inflight"}
    /\ state' = [state EXCEPT ![s] = "retiring"]
    /\ UNCHANGED <<gen, batch>> /\ EngineOnly

Reclaim(s) ==
    /\ EngineFree /\ state[s] = "retiring" /\ s \notin batch
    /\ state' = [state EXCEPT ![s] = "vacant"]
    /\ gen' = [gen EXCEPT ![s] = @ + 1]
    /\ UNCHANGED batch /\ EngineOnly

\* dispatch_m1_ready and dispatch_m1_exact_ready, for the ready slots R.
Dispatch(R) ==
    /\ epoch < MaxEpoch
    /\ state' = [s \in Slot |-> IF s \in R THEN "inflight" ELSE state[s]]
    /\ batch' = R /\ epoch' = epoch + 1
    /\ UNCHANGED gen

\* complete_exact: a member goes on, or leaves if it was retired meanwhile.
CompleteExact ==
    /\ state' = [s \in Slot |->
          IF s \notin batch THEN state[s]
          ELSE IF state[s] = "retiring" THEN "vacant" ELSE "ready"]
    /\ gen' = [s \in Slot |->
          IF s \in batch /\ state[s] = "retiring" THEN gen[s] + 1 ELSE gen[s]]
    /\ batch' = {}
    /\ UNCHANGED epoch

-----------------------------------------------------------------------------
(* Failure *)

\* quarantine_m1_queue_rearm_failure
Quarantine(why) == phase' = "failed" /\ faulted' = TRUE /\ cause' = why

\* A failure on the first queue leaves the engine to its caller.
FailFirst(why) == phase' = "failed" /\ cause' = why /\ UNCHANGED faulted

Fail(why) == (rearmed /\ Quarantine(why)) \/ (~rearmed /\ FailFirst(why))

Succeed(next) == phase' = next /\ UNCHANGED <<faulted, cause>>

\* quarantine_engine, or the teardown of closed readback evidence
QuarantineFirst ==
    /\ phase = "failed" /\ ~faulted
    /\ faulted' = TRUE
    /\ UNCHANGED <<waitVars, engineVars, kvVars, phase, queueVars, asked, cause>>

\* The destroy_queue_and_retain_... family: the engine is faulted first.
Destroy ==
    /\ phase \in {"recycled", "observed", "checked", "rejected", "released",
                  "scheduled", "caughtup"}
    /\ Quarantine("teardown")
    /\ UNCHANGED <<waitVars, engineVars, kvVars, queueVars, asked>>

-----------------------------------------------------------------------------
(* Pages and reservations *)

\* lease_page_for_detached_queue for pages from .. to - 1, in order
Leases(role, s, from, to) ==
    [i \in 1 .. to - from |-> [ix |-> from + i - 1, gen |-> ledger[role][s][from + i - 1].gen]]

PagesFree(role, s, leases) ==
    \A i \in DOMAIN leases : ledger[role][s][leases[i].ix].by = 0

\* The lanes' active lengths.
Active(sh, role, s) ==
    CASE sh = "prefill"     -> Prompt[s]
      [] sh = "speculative" -> IF role = "draft" THEN DraftTokens ELSE DraftTokens + 1
      [] sh = "catchup"     -> IF role = "draft" THEN 1 ELSE 0

\* The pages a write of n tokens after the committed ones of c still needs.
NewLeases(role, s, c, n) == Leases(role, s, DivCeil(c.committed), DivCeil(c.committed + n))

\* The role's cache with its write reserved; a role not written is left alone.
ReserveRole(sh, role, s, c) ==
    IF Active(sh, role, s) = 0 THEN Attempt(c)
    ELSE IF PagesFree(role, s, NewLeases(role, s, c, Active(sh, role, s)))
    THEN Reserve(c, Active(sh, role, s), NewLeases(role, s, c, Active(sh, role, s)))
    ELSE Refused(Attempt(c))

\* The caches of the lanes R, reserved for shape sh.
ReserveLanes(sh, R, caches) ==
    [s \in R |-> [role \in Role |-> ReserveRole(sh, role, s, caches[s][role])]]

AllOk(tries) == \A s \in DOMAIN tries, role \in Role : tries[s][role].ok

\* The caches after the attempts; each belongs to the request it belonged to.
Taken(tries, caches) ==
    [s \in Slot |->
        IF s \in DOMAIN tries
          THEN [request |-> caches[s].request,
                draft |-> tries[s]["draft"].c, target |-> tries[s]["target"].c]
          ELSE caches[s]]

\* The ledger with the pages the reserved caches took.
Leased(tries, caches) ==
    [role \in Role |-> [s \in Slot |-> [i \in Page |->
        IF s \in DOMAIN tries /\ i \in Indices(tries[s][role].c.pending.leases)
          THEN [ledger[role][s][i] EXCEPT !.by = caches[s].request]
          ELSE ledger[role][s][i]]]]

\* What the device may touch: the page table of every reservation.
Touched(tries, caches) ==
    UNION {{[role |-> role, slot |-> s, ix |-> l.ix, gen |-> l.gen, by |-> caches[s].request] :
               l \in Range(tries[s][role].c.table \o tries[s][role].c.pending.leases)} :
           s \in DOMAIN tries, role \in Role}

\* Reserved lanes are prepared and submitted; a refused reservation ends it.
SubmitLanes(tries) ==
    IF AllOk(tries) THEN PublishBatch /\ Succeed("launched")
                    ELSE Fail("reserve") /\ UNCHANGED waitVars

\* The lanes R are reserved for sh and their batch is published.
PublishLanes(sh, R, caches, tries) ==
    /\ cache' = Taken(tries, caches) /\ ledger' = Leased(tries, caches)
    /\ shape' = sh /\ roster' = R
    /\ pinned' = Touched(tries, caches)

\* Reserved as well, but the batch does not reach the queue.
RetainLanes(caches, tries) ==
    /\ cache' = Taken(tries, caches) /\ ledger' = Leased(tries, caches)
    /\ UNCHANGED <<shape, roster, pinned>>

-----------------------------------------------------------------------------
(* The first batch *)

FirstCaches(R) ==
    [s \in Slot |-> IF s \in R
        THEN [request |-> gen[s], draft |-> EmptyCache, target |-> EmptyCache]
        ELSE NoCache]

\* Dispatch, paired-prefill reservation, create and submit.
Launch(R) ==
    /\ phase = "none" /\ ~faulted
    /\ R # {} /\ \A s \in R : state[s] = "ready"
    /\ Dispatch(R)
    /\ \E tries \in {ReserveLanes("prefill", R, FirstCaches(R))} :
          /\ PublishLanes("prefill", R, FirstCaches(R), tries)
          /\ \/ SubmitLanes(tries)
             \/ FailFirst("lower") /\ UNCHANGED waitVars
    /\ single' = (Cardinality(R) = 1)
    /\ UNCHANGED <<terminal, rearmed, asked>>

-----------------------------------------------------------------------------
(* Wait, recycle, readback *)

\* A step of QueueWait that leaves everything else alone.
WaitOnly == UNCHANGED <<engineVars, faulted, kvVars, phase, queueVars, asked, cause>>

DeviceStep == PacketFinishes /\ WaitOnly

BeginWait(deadline) ==
    /\ StartWait(deadline) /\ phase = "launched"
    /\ shape = "catchup" => deadline
    /\ WaitOnly

ClockStep == DeadlinePasses /\ WaitOnly

\* A failed wait ends the queue.
WaitStep ==
    /\ HostStep
    /\ IF stage' = "failed" THEN Fail(reason') ELSE UNCHANGED <<phase, faulted, cause>>
    /\ UNCHANGED <<engineVars, kvVars, queueVars, asked>>

\* Mutant of Recycle: a batch still on the device is recycled.
RecycleEarly ==
    /\ phase = "launched" /\ shape # "catchup"
    /\ stage \in {"published", "completed"}
    /\ Succeed("recycled") \/ Fail("lower")
    /\ UNCHANGED <<waitVars, engineVars, kvVars, queueVars, asked>>

Recycle ==
    /\ phase = "launched" /\ stage = "completed" /\ shape # "catchup"
    /\ Succeed("recycled") \/ Fail("lower")
    /\ UNCHANGED <<waitVars, engineVars, kvVars, queueVars, asked>>

\* A copy that failed before it began may be retried; one that failed after
\* closes the custody, and the engine is faulted when that is torn down.
Observe ==
    /\ phase = "recycled"
    /\ Succeed("observed") \/ FailFirst("readback")
    /\ UNCHANGED <<waitVars, engineVars, kvVars, queueVars, asked>>

CheckObserved ==
    /\ phase = "observed"
    /\ Succeed("checked")
    /\ UNCHANGED <<waitVars, engineVars, kvVars, queueVars, asked>>

-----------------------------------------------------------------------------
(* The completion of a step, m1_completed_step.rs *)

RetiringMembers == {s \in roster : state[s] = "retiring"}

\* Tokens kept of a write when the step emitted e.
Accepted(role, s, e) ==
    IF shape = "prefill" THEN Prompt[s]
    ELSE IF role = "draft" /\ e > DraftTokens THEN DraftTokens
    ELSE e

SettledRole(role, s, e) ==
    SettleCompletedStep(CompleteStepWrite(cache[s][role]), Active(shape, role, s),
                        Accepted(role, s, e), epoch)

\* finish_active_member
FinishActive(a) == [a EXCEPT !.c = SettleRetiredEpoch(@, epoch)]

\* finish_retiring_member
FinishRetiring(a) == Quiesce(RetireAll(Cancel(a), epoch), epoch)

ApplyMember(s, e, retire) ==
    [role \in Role |-> IF retire THEN FinishRetiring(SettledRole(role, s, e))
                                 ELSE FinishActive(SettledRole(role, s, e))]

\* Device work settled for every member lets the engine complete the epoch;
\* an attempt that fails part way poisons the step.
Settle(tries, next) ==
    /\ cache' = Taken(tries, cache)
    /\ IF AllOk(tries) THEN CompleteExact /\ Succeed(next)
                       ELSE Quarantine("apply") /\ UNCHANGED engineVars
    /\ UNCHANGED <<waitVars, ledger, terminal, queueVars>>

Apply(emitted) ==
    /\ \E tries \in {[s \in roster |->
                        ApplyMember(s, emitted[s], s \in RetiringMembers)]} :
          Settle(tries, "applied")
    /\ asked' = {}

Emitted == [roster -> IF shape = "prefill" THEN {1} ELSE 1 .. DraftTokens + 1]

\* preflight_engine: the dispositions must be what the engine says.
CompleteStep ==
    /\ phase = "checked"
    /\ \E emitted \in Emitted : Apply(emitted)

CompleteRejected(retire) ==
    /\ phase = "checked"
    /\ retire # RetiringMembers
    /\ asked' = retire
    /\ Succeed("rejected")
    /\ UNCHANGED <<waitVars, engineVars, kvVars, queueVars>>

\* retry_rejected: the same dispositions again.
RetryCompletion ==
    /\ phase = "rejected"
    /\ asked = RetiringMembers
    /\ \E emitted \in Emitted : Apply(emitted)

-----------------------------------------------------------------------------
(* The return of pages, m1_completed_step_release.rs *)

ReleasePreflight ==
    \A s \in roster, role \in Role :
        /\ MayGiveBack(cache[s][role], epoch)
        /\ \A r \in cache[s][role].retired :
               ledger[role][s][r.ix] = [gen |-> r.gen, by |-> cache[s].request]

\* The metadata of every page, then the ledger; a quiescent cache is gone.
ReleasePages ==
    /\ ledger' = [role \in Role |-> [s \in Slot |-> [i \in Page |->
          IF s \in roster /\ i \in RetiredIndices(cache[s][role])
            THEN [gen |-> ledger[role][s][i].gen + 1, by |-> 0]
            ELSE ledger[role][s][i]]]]
    /\ cache' = [s \in Slot |->
          IF s \notin roster THEN cache[s]
          ELSE IF cache[s].target.life = "quiescent" THEN NoCache
          ELSE [cache[s] EXCEPT !.draft = GiveBack(@), !.target = GiveBack(@)]]
    /\ terminal' = terminal \cup
          {<<s, cache[s].request>> : s \in {t \in roster : cache[t].target.life = "quiescent"}}

Release ==
    /\ phase = "applied"
    /\ IF ReleasePreflight
         THEN ReleasePages /\ Succeed("released")
         ELSE cause' = "release" /\ UNCHANGED <<kvVars, phase, faulted>>
    /\ UNCHANGED <<waitVars, engineVars, queueVars, asked>>

-----------------------------------------------------------------------------
(* The next batch *)

\* The queue is detached for the slots R; from here every failure faults.
Schedule(R) ==
    /\ \/ Dispatch(R) /\ Succeed("scheduled") /\ roster' = R /\ rearmed' = TRUE
       \/ Quarantine("lower") /\ UNCHANGED <<engineVars, roster, rearmed>>
    /\ UNCHANGED <<waitVars, kvVars, shape, single, pinned, asked>>

\* preflight_released_common and schedule_preflighted: the whole prefill
\* roster goes on, in the speculative shape.
Rollover ==
    /\ phase = "released" /\ shape = "prefill" /\ ~faulted
    /\ \A s \in roster : cache[s] # NoCache /\ ReadyMember(s)
    /\ Schedule(roster)

\* validate_rearm_eligibility, and a request to continue with
RearmEligible == phase = "released" /\ shape = "speculative" /\ Owned # {}

RearmExact(R) ==
    /\ RearmEligible /\ ~faulted
    /\ R # {} /\ R \subseteq Owned
    /\ \A s \in R : ReadyMember(s)
    /\ Schedule(R)

AllReady == {s \in Slot : state[s] = "ready"}

\* dispatch_m1_ready takes every ready request, owned by the queue or not.
RearmAutomatic ==
    /\ RearmEligible /\ ~faulted
    /\ AllReady # {} /\ \A s \in AllReady : cache[s] # NoCache /\ ReadyMember(s)
    /\ Schedule(AllReady)

RearmAutomaticEmpty ==
    /\ RearmEligible
    /\ AllReady = {}
    /\ Quarantine("empty")
    /\ UNCHANGED <<waitVars, engineVars, kvVars, queueVars, asked>>

\* validate_request_partition, after the dispatch
RearmAutomaticUnowned ==
    /\ RearmEligible
    /\ \E s \in AllReady : ~(cache[s] # NoCache /\ ReadyMember(s))
    /\ Dispatch(AllReady)
    /\ Quarantine("unowned")
    /\ UNCHANGED <<waitVars, kvVars, queueVars, asked>>

Fits(R) ==
    \A s \in R : /\ cache[s].target.committed + DraftTokens + 1 <= Context
                 /\ cache[s].draft.committed + DraftTokens <= Context

\* Mutant of Aligned: a draft one token behind is let through.
AlignedWithinOne(R) == \A s \in R : cache[s].draft.committed <= cache[s].target.committed

\* validate_contexts of the joined roles
Aligned(R) == \A s \in R : cache[s].draft.committed = cache[s].target.committed

\* The reserved lanes R are prepared and submitted as a speculative batch.
SubmitSpeculative(R, tries) ==
    \/ /\ SubmitLanes(tries)
       /\ PublishLanes("speculative", R, cache, tries)
    \/ /\ Quarantine("lower")
       /\ RetainLanes(cache, tries) /\ UNCHANGED waitVars

\* A lane out of context stops before its pages are leased, a draft behind
\* its target when the reserved roles are joined.
PublishSpeculative ==
    /\ phase = "scheduled"
    /\ \/ /\ ~Fits(roster) /\ Quarantine("context")
          /\ UNCHANGED <<waitVars, cache, ledger, shape, roster, pinned>>
       \/ /\ Fits(roster)
          /\ \E tries \in {ReserveLanes("speculative", roster, cache)} :
                \/ /\ ~Aligned(roster) /\ Quarantine("drift")
                   /\ RetainLanes(cache, tries) /\ UNCHANGED waitVars
                \/ Aligned(roster) /\ SubmitSpeculative(roster, tries)
    /\ UNCHANGED <<engineVars, terminal, single, rearmed, asked>>

-----------------------------------------------------------------------------
(* Draft catch-up: one lane, every draft token of the last round accepted *)

CatchupPending ==
    /\ single
    /\ \A s \in roster : cache[s].draft.committed + 1 = cache[s].target.committed

PublishCatchup ==
    /\ phase = "scheduled" /\ CatchupPending
    /\ \E tries \in {ReserveLanes("catchup", roster, cache)} :
          \/ /\ SubmitLanes(tries)
             /\ PublishLanes("catchup", roster, cache, tries)
          \/ /\ Quarantine("lower")
             /\ RetainLanes(cache, tries) /\ UNCHANGED waitVars
    /\ UNCHANGED <<engineVars, terminal, single, rearmed, asked>>

\* The one token of the draft cache of s.
CatchupSettled(s) ==
    [role \in Role |-> IF role = "draft"
        THEN SettleCompletedStep(CompleteStepWrite(cache[s].draft), 1, 1, epoch)
        ELSE Attempt(cache[s].target)]

\* read_and_settle after its wait: recycle, readback, settlement in one call.
SettleCatchup ==
    /\ phase = "launched" /\ stage = "completed" /\ shape = "catchup"
    /\ \A s \in roster : state[s] = "inflight"
    /\ \E tries \in {[s \in roster |-> CatchupSettled(s)]} : Settle(tries, "caughtup")
    /\ UNCHANGED asked

\* The member was retired meanwhile, or the readback failed.
SettleCatchupFails ==
    /\ phase = "launched" /\ stage = "completed" /\ shape = "catchup"
    /\ \/ (\E s \in roster : state[s] # "inflight") /\ Quarantine("retired")
       \/ Quarantine("lower")
    /\ UNCHANGED <<waitVars, engineVars, kvVars, queueVars, asked>>

\* prepare_restore and its submission: back to the speculative shape.
Restore ==
    /\ phase = "caughtup" /\ ~faulted
    /\ \A s \in roster : ReadyMember(s)
    /\ Fits(roster) /\ Aligned(roster)
    /\ Dispatch(roster)
    /\ \E tries \in {ReserveLanes("speculative", roster, cache)} :
          SubmitSpeculative(roster, tries)
    /\ UNCHANGED <<terminal, single, rearmed, asked>>

-----------------------------------------------------------------------------
(* The end *)

\* Mutant of ShutdownAdmitted: parked caches are not looked at.
ShutdownIgnoresParked ==
    /\ ~faulted
    /\ ActiveMembers = {}
    /\ \A s \in Slot : state[s] = "vacant"

ShutdownAdmitted ==
    /\ ~faulted
    /\ Parked = {} /\ ActiveMembers = {}
    /\ \A s \in Slot : state[s] = "vacant"

\* shutdown_all_terminal_queue: what custody is left goes with the queue.
Shutdown ==
    /\ phase = "released" /\ ShutdownAdmitted
    /\ \/ Succeed("closed") /\ cache' = [s \in Slot |-> NoCache]
       \/ Quarantine("lower") /\ UNCHANGED cache
    /\ UNCHANGED <<waitVars, engineVars, ledger, terminal, queueVars, asked>>

\* The read-only preflight of the all-terminal new window, for the exact
\* successors of the members of the last batch.
NewWindowPreflight ==
    /\ shape = "speculative" /\ Parked = {}
    /\ roster # {} /\ ActiveMembers = {}
    /\ Cardinality({s \in Slot : state[s] # "vacant"}) = Cardinality(roster)
    /\ \A s \in roster : \E g \in 1 .. MaxGeneration + 1 :
           /\ <<s, g>> \in terminal
           /\ gen[s] = g /\ state[s] = "retiring"

StepNext ==
    \/ \E s \in Slot : Admit(s) \/ Retire(s) \/ Reclaim(s)
    \/ QuarantineFirst \/ Destroy
    \/ \E R \in SUBSET Slot : Launch(R) \/ RearmExact(R)
    \/ DeviceStep \/ ClockStep \/ WaitStep
    \/ \E deadline \in BOOLEAN : BeginWait(deadline)
    \/ Recycle \/ Observe \/ CheckObserved
    \/ CompleteStep \/ RetryCompletion
    \/ \E retire \in SUBSET roster : CompleteRejected(retire)
    \/ Release
    \/ Rollover \/ RearmAutomatic \/ RearmAutomaticEmpty \/ RearmAutomaticUnowned
    \/ PublishSpeculative \/ PublishCatchup
    \/ SettleCatchup \/ SettleCatchupFails \/ Restore
    \/ Shutdown

\* A host thread inside a wait goes on scanning; nothing is assumed of the device.
WaitFairness == []<>(stage \notin {"waiting", "closing"}) \/ []<><<WaitStep>>_stepVars

StepSpec == StepInit /\ [][StepNext]_stepVars

FairStepSpec == StepSpec /\ WaitFairness

-----------------------------------------------------------------------------
(* Properties *)

\* While the device may still be running the last batch, every page of its
\* page tables stays leased to the request that reserved it, at the same
\* generation: neither a timeout, a late retirement, a rejected completion nor
\* a quarantine gives such a page back.
PagesPinned ==
    finished < Packets =>
        \A p \in pinned : ledger[p.role][p.slot][p.ix] = [gen |-> p.gen, by |-> p.by]

\* Where the owner of the queue is past its batch, the batch has completed;
\* before the first one there is none.
PhasePast ==
    /\ phase \in {"recycled", "observed", "checked", "rejected", "applied", "released",
                  "scheduled", "caughtup", "closed"} => stage = "completed"
    /\ phase = "none" => stage = "idle"

\* While the device may be running a batch, and once the queue has been given
\* up, no page is leased, given back or reassigned: the arena's ledger and the
\* caches in custody stay exactly as they are.
CustodyFrozen ==
    [][(stage # "idle" /\ finished < Packets) \/ phase = "failed"
         => UNCHANGED <<ledger, cache>>]_stepVars

\* The arena's ledger and the caches agree: a page is leased exactly while the
\* cache of that request holds it in its table, as a retired page or for a
\* pending write, and both know the same generation.  After a shutdown no page
\* is leased.
LedgerExact ==
    \A role \in Role, s \in Slot, i \in Page :
        IF cache[s] = NoCache
          THEN ledger[role][s][i].by = 0
          ELSE /\ ledger[role][s][i].gen = cache[s][role].page[i].gen
               /\ ledger[role][s][i].by =
                      IF i \in Held(cache[s][role]) THEN cache[s].request ELSE 0

\* A queue is given up only for a reason outside it or one the code names: no
\* check it makes of its own state (a lease or a reservation for a scheduled
\* lane, the settlement of a checked step, the return of pages) ever refuses,
\* and the total scan bound never ends a wait.
NoInternalRefusal == cause \notin {"reserve", "apply", "release", "total"}

\* The two roles of a request stay in step: between rounds nothing tentative
\* is left and the draft is at most one token behind, and no speculative batch
\* reaches the device with a draft that is behind.
RolesInStep ==
    \A s \in Owned :
        /\ phase \in {"released", "scheduled", "caughtup"} =>
             /\ \A role \in Role : cache[s][role].resident = cache[s][role].committed
             /\ cache[s].target.committed - cache[s].draft.committed \in {0, 1}
        /\ phase = "launched" /\ s \in roster /\ shape = "speculative" =>
             cache[s].target.committed = cache[s].draft.committed

\* A wait ends: the batch completes or is given up, even if the device never
\* finishes it, because the host keeps scanning.
WaitEnds == (stage = "waiting") ~> (stage \notin {"waiting", "closing"})

\* When every member of a speculative window has retired and no other request
\* is in the engine, the next window is admitted to the retained queue.
NewWindowAdmitted ==
    /\ phase = "released" /\ shape = "speculative" /\ ~faulted
    /\ ActiveMembers = {} /\ Parked = {}
    /\ \A s \in Slot : state[s] # "vacant" => s \in roster
    => NewWindowPreflight
=============================================================================
