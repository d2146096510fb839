-------------------------- MODULE StepQueueProofs --------------------------
(***************************************************************************)
(* What a wait may return and why it may give up, for every number of      *)
(* packets and every stall bound.                                          *)
(*                                                                         *)
(* The inductive invariant counts: every scan of a wait in progress is     *)
(* paid for by a packet that was seen to complete, StallBound scans each,  *)
(* or belongs to the current stall (ScansPaidFor).  With fewer packets     *)
(* seen than there are, and a stall below its bound, the scans then stay   *)
(* below the total bound.                                                  *)
(*                                                                         *)
(* The queue's life implements the wait: whatever the engine's callers,    *)
(* the completion of steps and the next batches do in between, a batch is  *)
(* published, waited for and closed only as QueueWait says.  What is       *)
(* proved of the wait alone therefore holds of the whole queue.            *)
(***************************************************************************)
EXTENDS StepQueue, TLAPS

-----------------------------------------------------------------------------
(* The wait *)

WaitTypes ==
    /\ stage \in Stage
    /\ finished \in 0 .. Packets
    /\ scans \in Nat /\ stalled \in Nat /\ high \in Nat
    /\ high <= finished
    /\ stage \in {"idle", "published", "completed", "failed"} =>
           scans = 0 /\ stalled = 0 /\ high = 0

WaitInv ==
    /\ WaitTypes
    /\ CompletionAuthentic
    /\ BackstopUnreached
    /\ ScansPaidFor

\* A product with StallBound grows with its other factor.
LEMMA TimesMonotone ==
    ASSUME NEW a \in Nat, NEW b \in Nat, NEW k \in Nat, a <= b
    PROVE  a * k <= b * k
BY SMT

\* One more scan is paid for by one more packet, or the stall has grown.
LEMMA ScanPaid ==
    ASSUME NEW a \in Nat, NEW b \in Nat, NEW k \in Nat, NEW t \in Nat, NEW n \in Nat,
           a < b, t < k, n <= a * k + t
    PROVE  n + 1 <= b * k
<1>1. (a + 1) * k <= b * k
  BY TimesMonotone
<1>2. (a + 1) * k = a * k + k
  BY SMT
<1>3. a * k \in Nat /\ b * k \in Nat
  BY SMT
<1> QED
  BY <1>1, <1>2, <1>3

\* A scan so paid for is below the total bound.
LEMMA BelowBackstop ==
    ASSUME NEW h \in Nat, NEW t \in Nat, NEW n \in Nat,
           h < Packets, t < StallBound, n <= h * StallBound + t
    PROVE  n < TotalScanBound
<1>1. n + 1 <= Packets * StallBound
  BY WaitAssumption, ScanPaid
<1>2. (Packets + 1) * StallBound = Packets * StallBound + StallBound
  BY WaitAssumption
<1>3. Packets * StallBound \in Nat
  BY WaitAssumption
<1> QED
  BY <1>1, <1>2, <1>3, WaitAssumption DEF TotalScanBound

LEMMA WaitInitial == WaitInit => WaitInv
BY WaitAssumption
   DEF WaitInit, WaitInv, WaitTypes, Stage, CompletionAuthentic, BackstopUnreached, ScansPaidFor

\* A pending scan: the only step that moves the counters.
LEMMA PendingKeeps == ASSUME WaitInv, PollPending PROVE WaitInv'
<1>1. /\ WaitTypes /\ BackstopUnreached
      /\ stalled < StallBound /\ high < Packets
      /\ scans <= high * StallBound + stalled
      /\ stage = "waiting" /\ finished < Packets
  BY DEF WaitInv, PollPending, ScansPaidFor
<1>2. /\ scans' = scans + 1 /\ finished' = finished
      /\ high' \in Nat /\ stalled' \in Nat /\ high' < Packets /\ high' <= finished'
  BY <1>1 DEF PollPending, WaitTypes
<1>3. scans' <= high' * StallBound + stalled'
  <2>1. CASE finished > high
    <3>1. high' = finished /\ stalled' = 0
      BY <2>1 DEF PollPending
    <3>2. scans + 1 <= finished * StallBound
      BY <1>1, <2>1, ScanPaid, WaitAssumption DEF WaitTypes
    <3> QED
      BY <3>1, <3>2, <1>1, <1>2, WaitAssumption DEF WaitTypes
  <2>2. CASE ~(finished > high)
    <3>1. high' = high /\ stalled' = stalled + 1
      BY <2>2 DEF PollPending
    <3>2. high * StallBound \in Nat
      BY <1>1, WaitAssumption DEF WaitTypes
    <3> QED
      BY <3>1, <3>2, <1>1, <1>2 DEF WaitTypes
  <2> QED
    BY <2>1, <2>2
<1>4. CASE stalled' >= StallBound
  <2>1. stage' = "closing" /\ reason' = "stalled"
    BY <1>4 DEF PollPending, GiveUp
  <2> QED
    BY <2>1, <1>1, <1>2 DEF WaitInv, WaitTypes, Stage, CompletionAuthentic,
                            BackstopUnreached, ScansPaidFor
<1>5. CASE ~(stalled' >= StallBound)
  <2>1. stalled' < StallBound
    BY <1>5, <1>2, WaitAssumption
  <2>2. scans' \in Nat
    BY <1>1, <1>2 DEF WaitTypes
  <2>3. scans' < TotalScanBound
    BY <1>2, <1>3, <2>1, <2>2, BelowBackstop
  <2>4. ~(scans' >= TotalScanBound)
    BY <2>2, <2>3, WaitAssumption DEF TotalScanBound
  <2>5. stage' = stage /\ reason' = reason
    BY <1>5, <2>4 DEF PollPending
  <2> QED
    BY <2>1, <2>2, <2>5, <1>1, <1>2, <1>3
    DEF WaitInv, WaitTypes, Stage, CompletionAuthentic, BackstopUnreached, ScansPaidFor
<1> QED
  BY <1>4, <1>5

\* Every step of the wait, of the device and of the clock keeps the invariant.
LEMMA WaitInductive == WaitInv /\ [WaitNext]_waitVars => WaitInv'
<1> SUFFICES ASSUME WaitInv, [WaitNext]_waitVars PROVE WaitInv'
  OBVIOUS
<1> USE WaitAssumption
    DEF WaitInv, WaitTypes, Stage, CompletionAuthentic, BackstopUnreached, ScansPaidFor
<1>1. CASE UNCHANGED waitVars
  BY <1>1 DEF waitVars, callVars
<1>2. CASE PublishBatch
  BY <1>2 DEF PublishBatch, callVars
<1>3. CASE PacketFinishes
  BY <1>3 DEF PacketFinishes, callVars
<1>4. ASSUME NEW deadline \in BOOLEAN, StartWait(deadline) PROVE WaitInv'
  BY <1>4 DEF StartWait
<1>5. CASE DeadlinePasses
  BY <1>5 DEF DeadlinePasses
<1>6. CASE SeeDeadline
  BY <1>6 DEF SeeDeadline, GiveUp, callVars
<1>7. CASE PollReady
  BY <1>7 DEF PollReady, Return
<1>8. CASE PollFails
  BY <1>8 DEF PollFails, Return
<1>9. CASE PollMalformed
  BY <1>9 DEF PollMalformed, GiveUp
<1>10. CASE PollPending
  BY <1>10, PendingKeeps
<1>11. CASE CloseCompleted
  BY <1>11 DEF CloseCompleted, Return
<1>12. CASE CloseFailed
  BY <1>12 DEF CloseFailed, Return
<1> QED
  BY <1>1, <1>2, <1>3, <1>4, <1>5, <1>6, <1>7, <1>8, <1>9, <1>10, <1>11, <1>12
  DEF WaitNext, HostStep

\* The inductive invariant of the wait.
THEOREM WaitInvariant == WaitSpec => []WaitInv
BY WaitInitial, WaitInductive, PTL DEF WaitSpec

\* No bound, deadline or last look turns a running batch into a completed one,
\* whatever the number of packets and the bounds (wait_for_case, wait_case).
THEOREM WaitAuthentic == WaitSpec => []CompletionAuthentic
<1>1. WaitInv => CompletionAuthentic
  BY DEF WaitInv
<1> QED
  BY <1>1, WaitInvariant, PTL

\* The total scan bound of wait_with_completion_progress_policy_core never
\* ends a wait: the stall bound does so first.
THEOREM WaitBackstop == WaitSpec => []BackstopUnreached
<1>1. WaitInv => BackstopUnreached
  BY DEF WaitInv
<1> QED
  BY <1>1, WaitInvariant, PTL

-----------------------------------------------------------------------------
(* The queue *)

\* An operation that ends in SubmitLanes publishes a batch or leaves it alone.
LEMMA SubmitWait ==
    ASSUME NEW tries, SubmitLanes(tries)
    PROVE  PublishBatch \/ UNCHANGED waitVars
BY DEF SubmitLanes

LEMMA SpeculativeWait ==
    ASSUME NEW R, NEW tries, SubmitSpeculative(R, tries)
    PROVE  PublishBatch \/ UNCHANGED waitVars
BY SubmitWait DEF SubmitSpeculative

\* The operations that publish a batch.
LEMMA PublishingWait ==
    ASSUME \/ \E R \in SUBSET Slot : Launch(R)
           \/ PublishSpeculative \/ PublishCatchup \/ Restore
    PROVE  PublishBatch \/ UNCHANGED waitVars
<1>1. ASSUME NEW R \in SUBSET Slot, Launch(R) PROVE PublishBatch \/ UNCHANGED waitVars
  BY <1>1, SubmitWait DEF Launch
<1>2. CASE PublishSpeculative
  BY <1>2, SpeculativeWait DEF PublishSpeculative
<1>3. CASE PublishCatchup
  BY <1>3, SubmitWait DEF PublishCatchup
<1>4. CASE Restore
  BY <1>4, SpeculativeWait DEF Restore
<1> QED
  BY <1>1, <1>2, <1>3, <1>4

\* Every step of the queue is a step of the wait or leaves it alone.
LEMMA StepIsWait == [StepNext]_stepVars => [WaitNext]_waitVars
<1> SUFFICES ASSUME [StepNext]_stepVars PROVE WaitNext \/ UNCHANGED waitVars
  OBVIOUS
<1>1. CASE UNCHANGED stepVars
  BY <1>1 DEF stepVars
<1>2. ASSUME NEW s \in Slot, Admit(s) \/ Retire(s) \/ Reclaim(s) PROVE UNCHANGED waitVars
  BY <1>2 DEF Admit, Retire, Reclaim, EngineOnly
<1>3. CASE QuarantineFirst \/ Destroy
  BY <1>3 DEF QuarantineFirst, Destroy
<1>4. CASE \/ \E R \in SUBSET Slot : Launch(R)
           \/ PublishSpeculative \/ PublishCatchup \/ Restore
  BY <1>4, PublishingWait DEF WaitNext
<1>5. ASSUME NEW R \in SUBSET Slot, RearmExact(R) PROVE UNCHANGED waitVars
  BY <1>5 DEF RearmExact, Schedule
<1>6. CASE DeviceStep \/ ClockStep \/ WaitStep
  BY <1>6 DEF DeviceStep, ClockStep, WaitStep, WaitNext
<1>7. ASSUME NEW deadline \in BOOLEAN, BeginWait(deadline) PROVE WaitNext
  BY <1>7 DEF BeginWait, WaitNext
<1>8. CASE Recycle \/ Observe \/ CheckObserved
  BY <1>8 DEF Recycle, Observe, CheckObserved
<1>9. CASE CompleteStep \/ RetryCompletion
  BY <1>9 DEF CompleteStep, RetryCompletion, Apply, Settle
<1>10. ASSUME NEW retire \in SUBSET roster, CompleteRejected(retire) PROVE UNCHANGED waitVars
  BY <1>10 DEF CompleteRejected
<1>11. CASE Release
  BY <1>11 DEF Release
<1>12. CASE Rollover \/ RearmAutomatic
  BY <1>12 DEF Rollover, RearmAutomatic, Schedule
<1>13. CASE RearmAutomaticEmpty \/ RearmAutomaticUnowned
  BY <1>13 DEF RearmAutomaticEmpty, RearmAutomaticUnowned
<1>14. CASE SettleCatchup
  BY <1>14 DEF SettleCatchup, Settle
<1>15. CASE SettleCatchupFails \/ Shutdown
  BY <1>15 DEF SettleCatchupFails, Shutdown
<1> QED
  BY <1>1, <1>2, <1>3, <1>4, <1>5, <1>6, <1>7, <1>8, <1>9, <1>10, <1>11,
     <1>12, <1>13, <1>14, <1>15 DEF StepNext

\* The queue's life implements the wait.
THEOREM StepImplementsWait == StepSpec => WaitSpec
<1>1. StepInit => WaitInit
  BY DEF StepInit
<1> QED
  BY <1>1, StepIsWait, PTL DEF StepSpec, WaitSpec

\* Whatever retirements, rejected completions, failures and later batches come
\* in between, a batch is taken as completed only when the device has completed
\* it (the completed owner of physical_queue_lifecycle.rs).
THEOREM StepAuthentic == StepSpec => []CompletionAuthentic
BY StepImplementsWait, WaitAuthentic, PTL

\* ... and the total scan bound never ends one of its waits.
THEOREM StepBackstop == StepSpec => []BackstopUnreached
BY StepImplementsWait, WaitBackstop, PTL

-----------------------------------------------------------------------------
(* Custody while the device runs *)

LEMMA PhasePastInitial == StepInit => PhasePast
BY DEF StepInit, WaitInit, PhasePast

LEMMA PhasePastInductive == PhasePast /\ [StepNext]_stepVars => PhasePast'
<1> SUFFICES ASSUME PhasePast, [StepNext]_stepVars PROVE PhasePast'
  OBVIOUS
<1> USE DEF PhasePast
<1>1. CASE UNCHANGED stepVars
  BY <1>1 DEF stepVars, waitVars
<1>2. ASSUME NEW s \in Slot, Admit(s) \/ Retire(s) \/ Reclaim(s) PROVE PhasePast'
  BY <1>2 DEF Admit, Retire, Reclaim, EngineOnly, waitVars
<1>3. CASE QuarantineFirst \/ Destroy
  BY <1>3 DEF QuarantineFirst, Destroy, Quarantine, waitVars
<1>4. ASSUME NEW tries, SubmitLanes(tries) PROVE PhasePast'
  BY <1>4 DEF SubmitLanes, Succeed, Fail, FailFirst, Quarantine
<1>5. ASSUME NEW R \in SUBSET Slot, Launch(R) PROVE PhasePast'
  BY <1>5, <1>4 DEF Launch, FailFirst
<1>6. ASSUME NEW R, NEW tries, SubmitSpeculative(R, tries) PROVE PhasePast'
  BY <1>6, <1>4 DEF SubmitSpeculative, Quarantine
<1>7. CASE PublishSpeculative
  BY <1>7, <1>6 DEF PublishSpeculative, Quarantine
<1>8. CASE PublishCatchup
  BY <1>8, <1>4 DEF PublishCatchup, Quarantine
<1>9. CASE Restore
  BY <1>9, <1>6 DEF Restore
<1>10. ASSUME NEW R, Schedule(R), phase = "released" PROVE PhasePast'
  BY <1>10 DEF Schedule, Succeed, Quarantine, waitVars
<1>11. ASSUME NEW R \in SUBSET Slot, RearmExact(R) PROVE PhasePast'
  BY <1>11, <1>10 DEF RearmExact, RearmEligible
<1>12. CASE Rollover \/ RearmAutomatic
  BY <1>12, <1>10 DEF Rollover, RearmAutomatic, RearmEligible
<1>13. CASE RearmAutomaticEmpty \/ RearmAutomaticUnowned
  BY <1>13 DEF RearmAutomaticEmpty, RearmAutomaticUnowned, Quarantine
<1>14. CASE DeviceStep \/ ClockStep
  BY <1>14 DEF DeviceStep, ClockStep, PacketFinishes, DeadlinePasses, WaitOnly
<1>15. CASE WaitStep
  <2>1. stage \in {"waiting", "closing"}
    BY <1>15 DEF WaitStep, HostStep, SeeDeadline, PollReady, PollFails, PollMalformed,
                 PollPending, CloseCompleted, CloseFailed
  <2>2. phase' = phase \/ phase' = "failed"
    BY <1>15 DEF WaitStep, Fail, FailFirst, Quarantine
  <2> QED
    BY <2>1, <2>2
<1>16. ASSUME NEW deadline \in BOOLEAN, BeginWait(deadline) PROVE PhasePast'
  BY <1>16 DEF BeginWait, StartWait, WaitOnly
<1>17. CASE Recycle \/ Observe \/ CheckObserved
  BY <1>17 DEF Recycle, Observe, CheckObserved, Succeed, Fail, FailFirst, Quarantine, waitVars
<1>18. CASE CompleteStep \/ RetryCompletion
  BY <1>18 DEF CompleteStep, RetryCompletion, Apply, Settle, Succeed, Quarantine, waitVars
<1>19. ASSUME NEW retire \in SUBSET roster, CompleteRejected(retire) PROVE PhasePast'
  BY <1>19 DEF CompleteRejected, Succeed, waitVars
<1>20. CASE Release
  BY <1>20 DEF Release, Succeed, waitVars
<1>21. CASE SettleCatchup
  BY <1>21 DEF SettleCatchup, Settle, Succeed, Quarantine, waitVars
<1>22. CASE SettleCatchupFails \/ Shutdown
  BY <1>22 DEF SettleCatchupFails, Shutdown, Succeed, Quarantine, waitVars
<1> QED
  BY <1>1, <1>2, <1>3, <1>5, <1>7, <1>8, <1>9, <1>11, <1>12, <1>13, <1>14, <1>15,
     <1>16, <1>17, <1>18, <1>19, <1>20, <1>21, <1>22 DEF StepNext

\* The steps that touch the ledger or a cache find the batch completed, or are
\* the launch of the first one.
LEMMA FrozenStep ==
    ASSUME PhasePast, CompletionAuthentic, [StepNext]_stepVars,
           (stage # "idle" /\ finished < Packets) \/ phase = "failed"
    PROVE  UNCHANGED <<ledger, cache>>
<1>1. /\ phase \notin {"recycled", "observed", "checked", "rejected", "applied",
                        "released", "scheduled", "caughtup", "closed", "none"}
      /\ ~(phase = "launched" /\ stage = "completed")
  BY WaitAssumption DEF PhasePast, CompletionAuthentic
<1>2. CASE UNCHANGED stepVars
  BY <1>2 DEF stepVars, kvVars
<1>3. ASSUME NEW s \in Slot, Admit(s) \/ Retire(s) \/ Reclaim(s) PROVE UNCHANGED kvVars
  BY <1>3 DEF Admit, Retire, Reclaim, EngineOnly
<1>4. CASE QuarantineFirst \/ Destroy
  BY <1>4 DEF QuarantineFirst, Destroy, kvVars
<1>5. CASE DeviceStep \/ ClockStep \/ WaitStep
  BY <1>5 DEF DeviceStep, ClockStep, WaitStep, WaitOnly, kvVars
<1>6. ASSUME NEW deadline \in BOOLEAN, BeginWait(deadline) PROVE UNCHANGED kvVars
  BY <1>6 DEF BeginWait, WaitOnly
<1>7. \A R \in SUBSET Slot : ~Launch(R) /\ ~RearmExact(R)
  BY <1>1 DEF Launch, RearmExact, RearmEligible
<1>8. ~Recycle /\ ~Observe /\ ~CheckObserved /\ ~CompleteStep /\ ~RetryCompletion
  BY <1>1 DEF Recycle, Observe, CheckObserved, CompleteStep, RetryCompletion
<1>9. (\A retire \in SUBSET roster : ~CompleteRejected(retire)) /\ ~Release /\ ~Rollover
  BY <1>1 DEF CompleteRejected, Release, Rollover
<1>10. ~RearmAutomatic /\ ~RearmAutomaticEmpty /\ ~RearmAutomaticUnowned
  BY <1>1 DEF RearmAutomatic, RearmAutomaticEmpty, RearmAutomaticUnowned, RearmEligible
<1>11. ~PublishSpeculative /\ ~PublishCatchup /\ ~Restore
  BY <1>1 DEF PublishSpeculative, PublishCatchup, Restore
<1>12. ~SettleCatchup /\ ~SettleCatchupFails /\ ~Shutdown
  BY <1>1 DEF SettleCatchup, SettleCatchupFails, Shutdown
<1> QED
  BY <1>2, <1>3, <1>4, <1>5, <1>6, <1>7, <1>8, <1>9, <1>10, <1>11, <1>12
  DEF StepNext, kvVars

\* An owner past its batch has a completed batch, through every rollover,
\* rearm, catch-up and failure.
THEOREM StepPhasePast == StepSpec => []PhasePast
BY PhasePastInitial, PhasePastInductive, PTL DEF StepSpec

\* While the device may be running a batch, and after the queue has been given
\* up, no operation of the queue leases, returns or reassigns a page: neither a
\* timeout, a retirement nor a quarantine frees what the device may write.
THEOREM StepCustodyFrozen == StepSpec => CustodyFrozen
<1>1. /\ PhasePast /\ CompletionAuthentic
      /\ [StepNext]_stepVars
      => [(stage # "idle" /\ finished < Packets) \/ phase = "failed"
            => UNCHANGED <<ledger, cache>>]_stepVars
  BY FrozenStep
<1> QED
  BY <1>1, StepPhasePast, StepAuthentic, PTL DEF StepSpec, CustodyFrozen

=============================================================================
