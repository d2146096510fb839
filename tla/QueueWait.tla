----------------------------- MODULE QueueWait -----------------------------
(***************************************************************************)
(* The wait for one published batch of device packets,                     *)
(* physical_queue_lifecycle.rs: wait_with_completion_progress_policy_core  *)
(* and the two ways it is called.                                          *)
(*                                                                         *)
(* The host scans the batch's completion signals.  It gives up when        *)
(* StallBound scans in a row saw no packet complete, when the total number *)
(* of scans reaches (Packets + 1) * StallBound, when an observation is     *)
(* malformed, or when the deadline of a timed wait has passed.  Giving up  *)
(* consumes the published owner by a last zero-length wait of the layer    *)
(* below: for a timed wait that wait still looks at the signals once, so a *)
(* batch that completed after the last scan is taken as completed.         *)
(*                                                                         *)
(* The device is not the host's to stop: packets of a batch given up on    *)
(* may still complete.                                                     *)
(*                                                                         *)
(* The layer below (poll_with_progress, wait, wait_for) is external: what  *)
(* it reports is a choice.  Left out: diagnostics, the pause between       *)
(* scans, and the refusals of a packet count or a scan bound that does not *)
(* fit its integer, which the compile-time constants exclude.              *)
(***************************************************************************)
EXTENDS Integers

CONSTANTS Packets, StallBound

ASSUME WaitAssumption == Packets \in Nat \ {0} /\ StallBound \in Nat \ {0}

VARIABLES
    stage,      \* where the owner of the batch stands
    finished,   \* packets the device has completed
    timed,      \* wait_for: the wait has a deadline
    expired,    \* the deadline has passed
    scans,      \* scans_performed
    stalled,    \* consecutive_scans_without_progress
    high,       \* completed_count_high_water
    reason      \* why the wait gave up

callVars == <<timed, expired, scans, stalled, high>>
waitVars == <<stage, finished, callVars, reason>>

Stage == {"idle", "published", "waiting", "closing", "completed", "failed"}

\* checked_completion_progress_total_scan_bound
TotalScanBound == (Packets + 1) * StallBound

WaitInit ==
    /\ stage = "idle" /\ finished = 0 /\ reason = "none"
    /\ timed = FALSE /\ expired = FALSE
    /\ scans = 0 /\ stalled = 0 /\ high = 0

\* The locals of the call are gone when it returns.
Return ==
    /\ timed' = FALSE /\ expired' = FALSE
    /\ scans' = 0 /\ stalled' = 0 /\ high' = 0

\* submit: the queue takes a new batch once it has none.
PublishBatch ==
    /\ stage \in {"idle", "completed"}
    /\ stage' = "published" /\ finished' = 0
    /\ UNCHANGED <<callVars, reason>>

\* The device completes one more packet, whatever the host has done meanwhile.
PacketFinishes ==
    /\ stage \in {"published", "waiting", "closing", "failed"}
    /\ finished < Packets
    /\ finished' = finished + 1
    /\ UNCHANGED <<stage, callVars, reason>>

StartWait(deadline) ==
    /\ stage = "published"
    /\ stage' = "waiting" /\ timed' = deadline
    /\ UNCHANGED <<finished, expired, scans, stalled, high, reason>>

DeadlinePasses ==
    /\ stage \in {"waiting", "closing"} /\ timed /\ ~expired
    /\ expired' = TRUE
    /\ UNCHANGED <<stage, finished, timed, scans, stalled, high, reason>>

GiveUp(why) == stage' = "closing" /\ reason' = why

\* The check of the clock between two scans.
SeeDeadline ==
    /\ stage = "waiting" /\ expired
    /\ GiveUp("deadline")
    /\ UNCHANGED <<finished, callVars>>

\* Ready wins over every bound.
PollReady ==
    /\ stage = "waiting" /\ ~expired
    /\ finished = Packets
    /\ stage' = "completed" /\ Return
    /\ UNCHANGED <<finished, reason>>

\* A lower error ends the wait without another look at the batch.
PollFails ==
    /\ stage = "waiting" /\ ~expired
    /\ stage' = "failed" /\ reason' = "lower" /\ Return
    /\ UNCHANGED finished

\* validate_completion_progress_observation refuses what was reported.
PollMalformed ==
    /\ stage = "waiting" /\ ~expired
    /\ scans' = scans + 1
    /\ GiveUp("observation")
    /\ UNCHANGED <<finished, timed, expired, stalled, high>>

\* A well-formed pending observation, and the bounds it is held against.
PollPending ==
    /\ stage = "waiting" /\ ~expired
    /\ finished < Packets
    /\ scans' = scans + 1
    /\ IF finished > high
         THEN high' = finished /\ stalled' = 0
         ELSE stalled' = stalled + 1 /\ UNCHANGED high
    /\ IF stalled' >= StallBound THEN GiveUp("stalled")
       ELSE IF scans' >= TotalScanBound THEN GiveUp("total")
       ELSE UNCHANGED <<stage, reason>>
    /\ UNCHANGED <<finished, timed, expired>>

\* Mutant of CloseCompleted: whatever the last look saw, the batch is taken.
CloseTaken ==
    /\ stage = "closing" /\ timed
    /\ stage' = "completed" /\ reason' = "none" /\ Return
    /\ UNCHANGED finished

\* wait_for(0) on a batch that has completed: the late completion counts.
CloseCompleted ==
    /\ stage = "closing" /\ timed
    /\ finished = Packets
    /\ stage' = "completed" /\ reason' = "none" /\ Return
    /\ UNCHANGED finished

\* Mutant of CloseFailed: the wait starts over instead of closing the owner.
CloseRetries ==
    /\ stage = "closing"
    /\ stage' = "waiting" /\ reason' = "none"
    /\ scans' = 0 /\ stalled' = 0 /\ high' = 0
    /\ UNCHANGED <<finished, timed, expired>>

\* wait(0), or wait_for(0) on a batch it does not see complete.
CloseFailed ==
    /\ stage = "closing"
    /\ stage' = "failed" /\ Return
    /\ UNCHANGED <<finished, reason>>

\* What the waiting host thread does.
HostStep ==
    \/ SeeDeadline \/ PollReady \/ PollFails \/ PollMalformed
    \/ PollPending \/ CloseCompleted \/ CloseFailed

WaitNext ==
    \/ PublishBatch
    \/ PacketFinishes
    \/ \E deadline \in BOOLEAN : StartWait(deadline)
    \/ DeadlinePasses
    \/ HostStep

WaitSpec == WaitInit /\ [][WaitNext]_waitVars

-----------------------------------------------------------------------------
(* Properties *)

\* A batch is taken as completed only when the device has completed all of
\* its packets: no bound, deadline or last look of the wait turns a running
\* batch into a completed one.
CompletionAuthentic == stage = "completed" => finished = Packets

\* The total scan bound never ends a wait: the stall bound always does so
\* first, however the packets' completions fall between the scans.
BackstopUnreached == reason # "total"

\* What the two need of a wait in progress: the scans so far are paid for by
\* packets seen to complete, StallBound for each, and by the current stall.
ScansPaidFor ==
    stage = "waiting" => /\ stalled < StallBound
                         /\ high < Packets
                         /\ scans <= high * StallBound + stalled
=============================================================================
