------------------------------ MODULE DeviceKv ------------------------------
(***************************************************************************)
(* One request's device KV cache for one model role, as operators on a     *)
(* record: device_cache.rs and the page-table model it drives,             *)
(* ferric-spec's paged_kv_refinement.rs.                                   *)
(*                                                                         *)
(* page[i]    the metadata of page slot i: its generation, who has it, and *)
(*            how many of its tokens are initialized                       *)
(* table      the leases of the active pages, in logical order             *)
(* resident   initialized tokens;  committed  accepted ones                *)
(* life       active, cancelled, awaiting quiescence, quiescent            *)
(* retired    pages out of the table and not yet given back, with the      *)
(*            epoch after which they may be, and whether it has settled    *)
(* pending    the leases and the length of the write the device is doing   *)
(*                                                                         *)
(* A fallible operation takes and returns an attempt [ok, c]: ok says that *)
(* no check has failed so far, and a failed attempt leaves c as it was.    *)
(*                                                                         *)
(* Left out: device, arena and plan identities, write-generation counters, *)
(* and the copies of the page table that travel with a reservation.        *)
(***************************************************************************)
EXTENDS Integers, Sequences, FiniteSets, SequencesExt

CONSTANTS PageTokens, Context

DivCeil(n) == (n + PageTokens - 1) \div PageTokens

\* A request's share of a role's arena holds one full context.
Page == 0 .. DivCeil(Context) - 1

NoWrite == [active |-> 0, leases |-> <<>>]

EmptyCache ==
    [page |-> [i \in Page |-> [gen |-> 1, own |-> "free", prefix |-> 0]],
     table |-> <<>>, resident |-> 0, committed |-> 0, life |-> "active",
     retired |-> {}, pending |-> NoWrite]

Indices(leases) == {leases[i].ix : i \in DOMAIN leases}

RetiredIndices(c) == {r.ix : r \in c.retired}

\* Every page slot the cache answers for.
Held(c) == Indices(c.table) \cup RetiredIndices(c) \cup Indices(c.pending.leases)

Attempt(c) == [ok |-> TRUE, c |-> c]

Refused(a) == [a EXCEPT !.ok = FALSE]

-----------------------------------------------------------------------------
(* reserve_step_write_for_purpose: nothing is appended until completion. *)

MayReserve(c, active, leases) ==
    /\ c.pending = NoWrite
    /\ active > 0
    /\ c.resident = c.committed
    /\ c.committed + active <= Context
    /\ Len(leases) = DivCeil(c.committed + active) - Len(c.table)
    /\ Cardinality(Indices(leases)) = Len(leases)
    /\ \A i \in DOMAIN leases :
           /\ leases[i].gen = c.page[leases[i].ix].gen
           /\ leases[i].ix \notin Indices(c.table) \cup RetiredIndices(c)

Reserve(c, active, leases) ==
    IF MayReserve(c, active, leases)
      THEN Attempt([c EXCEPT !.pending = [active |-> active, leases |-> leases]])
      ELSE Refused(Attempt(c))

-----------------------------------------------------------------------------
(* complete_step_write: the tokens of the pending write, one by one. *)

\* append_physical_page of the first lease not yet appended
MayAppend(c) ==
    /\ c.pending.leases # <<>>
    /\ c.life = "active" /\ c.resident < Context
    /\ c.resident % PageTokens = 0
    /\ Len(c.table) = c.resident \div PageTokens
    /\ Head(c.pending.leases).ix \notin Indices(c.table)
    /\ c.page[Head(c.pending.leases).ix].own = "free"
    /\ c.page[Head(c.pending.leases).ix].gen = Head(c.pending.leases).gen

AppendPage(a) ==
    IF a.ok /\ MayAppend(a.c)
      THEN [a EXCEPT !.c.page[Head(a.c.pending.leases).ix].own = "exclusive",
                     !.c.page[Head(a.c.pending.leases).ix].prefix = 0,
                     !.c.table = Append(@, Head(a.c.pending.leases)),
                     !.c.pending.leases = Tail(@)]
      ELSE Refused(a)

\* write_physical_token at logical position n
MayWrite(c, n) ==
    /\ c.life = "active"
    /\ n = c.resident /\ n < Context
    /\ n \div PageTokens < Len(c.table)
    /\ c.page[c.table[n \div PageTokens + 1].ix].own = "exclusive"
    /\ c.page[c.table[n \div PageTokens + 1].ix].prefix = n % PageTokens

WriteToken(a, n) ==
    IF a.ok /\ MayWrite(a.c, n)
      THEN [a EXCEPT !.c.page[a.c.table[n \div PageTokens + 1].ix].prefix = @ + 1,
                     !.c.resident = @ + 1]
      ELSE Refused(a)

WritePosition(a, n) ==
    WriteToken(IF Len(a.c.table) <= n \div PageTokens THEN AppendPage(a) ELSE a, n)

\* No lease may be left over.
ClearPending(a) ==
    IF a.ok /\ a.c.pending.leases = <<>>
      THEN [a EXCEPT !.c.pending = NoWrite]
      ELSE Refused(a)

CompleteStepWrite(c) ==
    ClearPending(FoldLeft(WritePosition, Attempt(c),
                          [i \in 1 .. c.pending.active |-> c.committed + i - 1]))

-----------------------------------------------------------------------------
(* settle_completed_step: commit what was accepted, roll back the rest. *)

AcceptInitialized(a, n) ==
    IF a.ok /\ a.c.life = "active" /\ a.c.committed + n <= a.c.resident
      THEN [a EXCEPT !.c.committed = @ + n]
      ELSE Refused(a)

TailPage(c) == c.table[Len(c.table)]

\* Page l leaves the table and waits for the epoch to settle.
Retirement(l, after) == [ix |-> l.ix, gen |-> l.gen, after |-> after, settled |-> FALSE]

\* rollback_one: a page whose first token goes leaves the table.
RollbackOne(a, after) ==
    IF ~a.ok \/ a.c.life # "active" \/ a.c.resident <= a.c.committed
      THEN Refused(a)
      ELSE IF a.c.page[TailPage(a.c).ix].prefix = 1
      THEN [a EXCEPT !.c.page[TailPage(a.c).ix].own = "retired",
                     !.c.retired = @ \cup {Retirement(TailPage(a.c), after)},
                     !.c.table = Front(@),
                     !.c.resident = @ - 1]
      ELSE [a EXCEPT !.c.page[TailPage(a.c).ix].prefix = @ - 1,
                     !.c.resident = @ - 1]

\* accepted of the active tokens of the write stay.
SettleCompletedStep(a, active, accepted, after) ==
    LET Back(b, i) == RollbackOne(b, after)
    IN  FoldLeft(Back, AcceptInitialized(a, accepted),
                 [i \in 1 .. active - accepted |-> i])

\* settle_retired_epoch
SettleRetiredEpoch(c, epoch) ==
    [c EXCEPT !.retired =
        {IF r.after = epoch THEN [r EXCEPT !.settled = TRUE] ELSE r : r \in @}]

-----------------------------------------------------------------------------
(* The retirement of a request whose last step has settled. *)

\* cancel_physical_kv
Cancel(a) ==
    IF a.ok /\ a.c.pending = NoWrite /\ a.c.life = "active"
      THEN [a EXCEPT !.c.life = IF a.c.table = <<>> THEN "awaiting" ELSE "cancelled"]
      ELSE Refused(a)

\* retire_cancelled_tail
RetireTail(a, after) ==
    IF ~a.ok \/ a.c.life # "cancelled" \/ a.c.table = <<>>
      THEN Refused(a)
      ELSE [a EXCEPT
              !.c.resident = @ - a.c.page[TailPage(a.c).ix].prefix,
              !.c.committed = IF @ < a.c.resident - a.c.page[TailPage(a.c).ix].prefix
                                THEN @
                                ELSE a.c.resident - a.c.page[TailPage(a.c).ix].prefix,
              !.c.page[TailPage(a.c).ix].own = "retired",
              !.c.retired = @ \cup {Retirement(TailPage(a.c), after)},
              !.c.life = IF Len(a.c.table) = 1 THEN "awaiting" ELSE @,
              !.c.table = Front(@)]

\* retire_all
RetireAll(a, after) ==
    LET One(b, i) == RetireTail(b, after)
    IN  FoldLeft(One, a, [i \in 1 .. Len(a.c.table) |-> i])

\* quiesce: every retirement still open is of this epoch.
Quiesce(a, epoch) ==
    IF /\ a.ok /\ a.c.table = <<>> /\ a.c.life = "awaiting"
       /\ \A r \in a.c.retired : ~r.settled => r.after = epoch
      THEN [ok |-> TRUE, c |-> [SettleRetiredEpoch(a.c, epoch) EXCEPT !.life = "quiescent"]]
      ELSE Refused(a)

-----------------------------------------------------------------------------
(* The metadata of the pages given back, m1_completed_step_release.rs. *)

\* validate_retirement and preflight_retired_page_metadata_batch_v1
MayGiveBack(c, epoch) ==
    /\ c.life \in {"active", "quiescent"}
    /\ \A r \in c.retired :
           /\ r.settled /\ 0 < r.after /\ r.after <= epoch
           /\ c.page[r.ix].own = "retired" /\ c.page[r.ix].gen = r.gen
           /\ r.ix \notin Indices(c.table)

\* Mutant of GiveBack: the page slot keeps its generation.
GiveBackSameGeneration(c) ==
    [c EXCEPT !.retired = {},
              !.page = [i \in Page |->
                  IF i \in RetiredIndices(c)
                    THEN [gen |-> c.page[i].gen, own |-> "free", prefix |-> 0]
                    ELSE c.page[i]]]

GiveBack(c) ==
    [c EXCEPT !.retired = {},
              !.page = [i \in Page |->
                  IF i \in RetiredIndices(c)
                    THEN [gen |-> c.page[i].gen + 1, own |-> "free", prefix |-> 0]
                    ELSE c.page[i]]]
=============================================================================
