----------------------------- MODULE TpRuntime -----------------------------
(***************************************************************************)
(* The resident batch runtime of the tensor-parallel engineering adapter,  *)
(* m1-engineering-execution-v1/src/tp_batch_runtime.rs:                    *)
(* EngineeringTpBatchRuntimeV2, which joins the scheduler (TpScheduler)    *)
(* and the paged pool (TpPaged) and drives one group of ranks.             *)
(*                                                                         *)
(* Every call holds the runtime exclusively, so a call is one step here;   *)
(* between calls neither part has a batch in hand unless the runtime is    *)
(* poisoned, and neither part's own pending batch is a variable.  What the *)
(* ranks do is an outcome of step: they finish with some choice of tokens, *)
(* they refuse before anything is submitted, or they fail with some of the *)
(* rows written.                                                           *)
(*                                                                         *)
(* Left out: dispatch counts, diagnostics, timestamps.  A lookup that      *)
(* finds no binding poisons the runtime in the code; Agreement shows that  *)
(* there always is one.                                                    *)
(***************************************************************************)
EXTENDS Integers, Sequences, FiniteSets

CONSTANTS Token, Generated, Admissions, PageTokens, PhysicalPages, MaxSequences, ContextTokens,
          CacheTtl, Slots, MaxRows, PrefillChunk, RowBudget, RetainPrefixes,
          MaxTick, MaxGeneration, MaxSerial

\* new_bounded of the limits, the scheduler and the runtime.
ASSUME TpRuntimeAssumption ==
    /\ PageTokens \in Nat \ {0} /\ PhysicalPages \in Nat \ {0}
    /\ MaxSequences \in Nat \ {0} /\ ContextTokens \in Nat \ {0}
    /\ CacheTtl \in Nat \ {0} /\ Slots \in Nat \ {0}
    /\ MaxRows \in Nat \ {0} /\ PrefillChunk \in 1 .. MaxRows
    /\ RowBudget \in 1 .. MaxRows /\ RetainPrefixes \in BOOLEAN
    /\ Generated \subseteq Token

VARIABLES generation, request, last_tick, decode_cursor, prefill_cursor,
          single_row_prefill,     \* the scheduler
          state, kv,              \* the pool and the ranks' pages
          bindings, poisoned, closed

schedVars == <<generation, request, last_tick, decode_cursor, prefill_cursor,
               single_row_prefill>>
runtimeVars == <<schedVars, state, kv, bindings, poisoned, closed>>

S == INSTANCE TpScheduler WITH ContextLimit <- ContextTokens

P == INSTANCE TpPaged

RuntimeInit ==
    /\ S!SchedulerInit
    /\ P!PagedInit
    /\ bindings = <<>>
    /\ poisoned = FALSE /\ closed = FALSE

RequireReady == ~closed /\ ~poisoned

\* The id the scheduler gives its next request.
NextId == <<S!FirstSlot, generation[S!FirstSlot] + 1>>

-----------------------------------------------------------------------------
(* admit *)

\* The admission with the prefix the pool found for sequence serial.
Given(a, st, serial) ==
    [a EXCEPT !.cached_prefix_tokens = Len(st.sequences[serial].tokens)]

Acceptable(given) == S!ValidAdmission(given) /\ S!FreeSlots # {}

\* The scheduler takes the request; st is the pool with the sequence opened.
AdmitTaken(given, st, serial) ==
    /\ Acceptable(given)
    /\ generation' = [generation EXCEPT ![S!FirstSlot] = @ + 1]
    /\ request' = [request EXCEPT ![S!FirstSlot] = S!NewRequest(given)]
    /\ state' = st
    /\ bindings' = P!With(bindings, NextId, serial)
    /\ UNCHANGED <<last_tick, decode_cursor, prefill_cursor, single_row_prefill>>

AdmitLeaks(given, st, serial) ==
    /\ ~Acceptable(given)
    /\ state' = st
    /\ UNCHANGED <<schedVars, bindings>>

\* It does not: the sequence is cancelled again.
AdmitRefused(given, st, serial) ==
    /\ ~Acceptable(given)
    /\ state' = P!Cancelled(st, serial)
    /\ UNCHANGED <<schedVars, bindings>>

\* The pool has no room for another sequence; what had expired is gone.
AdmitNoRoom(a, tick) ==
    /\ state' = P!ExpireNodes(state, tick)
    /\ UNCHANGED <<schedVars, bindings>>

Admit(a, tick) ==
    /\ RequireReady
    /\ a.cached_prefix_tokens = 0 /\ Len(a.prompt_tokens) \in 1 .. ContextTokens
    /\ tick >= state.clock
    /\ state.next_sequence <= MaxSerial
    /\ IF Cardinality(DOMAIN state.sequences) < MaxSequences
       THEN \E st \in {P!Opened(P!ExpireNodes(state, tick), a.prompt_tokens, tick)},
               serial \in {state.next_sequence} :
               \/ AdmitTaken(Given(a, st, serial), st, serial)
               \/ AdmitRefused(Given(a, st, serial), st, serial)
       ELSE AdmitNoRoom(a, tick)
    /\ UNCHANGED <<kv, poisoned, closed>>

-----------------------------------------------------------------------------
(* step *)

\* The scheduler's rows as rows of the pool's sequences.
PageRows(batch) ==
    [k \in DOMAIN batch.rows |->
        [sequence |-> bindings[<<batch.rows[k].slot, batch.rows[k].generation>>],
         token |-> batch.rows[k].token, position |-> batch.rows[k].position]]

\* A reservation r made over the pool's state base.
Outcome(r, base) == [error |-> r.error, st |-> base, proposed |-> r.st]

\* The pages rows need from the free list.
Needed(rows) == Cardinality({k \in DOMAIN rows : P!AtBoundary(rows[k])})

\* After an eviction room: the reservation again, if there now is room.
AfterEviction(st, rows, room) ==
    IF room.error # "none" THEN Outcome(room, st)
    ELSE Outcome(P!Reserved(room.st, rows), room.st)

\* The pages of a batch, after eviction if they were not free at first.
FindPages(st, rows, first) ==
    IF first.error # "OutOfPages" THEN Outcome(first, st)
    ELSE AfterEviction(st, rows, P!Evicted(st, Needed(rows)))

Tried(found, batch, rows, budget) ==
    [error |-> found.error, st |-> found.st, proposed |-> found.proposed,
     batch |-> batch, rows |-> rows, budget |-> budget]

TryRows(st, batch, rows, budget) ==
    Tried(FindPages(st, rows, P!Reserved(st, rows)), batch, rows, budget)

TryBatch(st, batch, budget) == TryRows(st, batch, PageRows(batch), budget)

\* One turn of the loop: a batch of at most budget rows, and its pages.
Try(st, tick, budget) == TryBatch(st, S!Prepared(tick, budget), budget)

\* A shortage of pages halves the budget, down to one row.
Halved(t, tick) ==
    IF t.error = "OutOfPages" /\ t.budget > 1 THEN Try(t.st, tick, t.budget \div 2) ELSE t

\* The loop.
Attempt(tick) ==
    LET turn[k \in 0 .. RowBudget] ==
          IF k = 0 THEN Try(state, tick, RowBudget) ELSE Halved(turn[k - 1], tick)
    IN turn[RowBudget]

\* The ranks write the first n rows of an attempt, in order.
WrittenRows(t, n) ==
    LET row(k) == [token |-> t.rows[k].token, position |-> t.rows[k].position,
                   pages |-> t.proposed.sequences[t.rows[k].sequence].pages]
        mem[k \in 0 .. n] == IF k = 0 THEN kv ELSE P!Written(mem[k - 1], row(k))
    IN mem[n]

\* Neither the batch nor its reservation is kept: only evictions, and the tick.
GivenUp(t, tick) ==
    /\ state' = t.st
    /\ last_tick' = tick
    /\ UNCHANGED <<generation, request, decode_cursor, prefill_cursor,
                   single_row_prefill, kv, bindings, closed>>

StepIdle(tick) ==
    /\ RequireReady /\ tick >= last_tick
    /\ S!NothingReady(tick)
    /\ last_tick' = tick
    /\ UNCHANGED <<generation, request, decode_cursor, prefill_cursor, single_row_prefill,
                   state, kv, bindings, poisoned, closed>>

StepOutOfPages(tick) ==
    /\ RequireReady /\ tick >= last_tick /\ ~S!NothingReady(tick)
    /\ \E t \in {Attempt(tick)} : t.error # "none" /\ GivenUp(t, tick)
    /\ UNCHANGED poisoned

\* The ranks refuse the batch before it is submitted.
StepPreflightFails(tick) ==
    /\ RequireReady /\ tick >= last_tick /\ ~S!NothingReady(tick)
    /\ \E t \in {Attempt(tick)} : t.error = "none" /\ GivenUp(t, tick)
    /\ UNCHANGED poisoned

\* All ranks finish: the pool's pages are committed, then the requests advance.
StepCommits(tick) ==
    /\ RequireReady /\ tick >= last_tick /\ ~S!NothingReady(tick)
    /\ \E t \in {Attempt(tick)} :
       /\ t.error = "none"
       /\ state' = t.proposed
       /\ kv' = WrittenRows(t, Len(t.rows))
       /\ \E choices \in [S!ChoiceRows(t.batch) -> Generated] :
             /\ S!ValidCompletion(t.batch, choices)
             /\ request' = S!Progressed(t.batch, choices)
       /\ decode_cursor' = t.batch.decode_cursor
       /\ prefill_cursor' = t.batch.prefill_cursor
       /\ single_row_prefill' = t.batch.single_row_prefill
    /\ last_tick' = tick
    /\ UNCHANGED <<generation, bindings, poisoned, closed>>

\* A rank fails, or the answer is refused, after submission: some rows may be
\* written, and nothing is used again.
StepFails(tick) ==
    /\ RequireReady /\ tick >= last_tick /\ ~S!NothingReady(tick)
    /\ \E t \in {Attempt(tick)} :
       /\ t.error = "none"
       /\ \E n \in 0 .. Len(t.rows) : kv' = WrittenRows(t, n)
       /\ state' = t.st
    /\ last_tick' = tick
    /\ poisoned' = TRUE
    /\ UNCHANGED <<generation, request, decode_cursor, prefill_cursor, single_row_prefill,
                   bindings, closed>>

-----------------------------------------------------------------------------
(* cancel, retire, close *)

Cancel(id) ==
    /\ RequireReady
    /\ S!Resolves(id) /\ ~S!Terminal(request[id[1]])
    /\ request' = [request EXCEPT ![id[1]].cancelled = TRUE]
    /\ UNCHANGED <<generation, last_tick, decode_cursor, prefill_cursor,
                   single_row_prefill, state, kv, bindings, poisoned, closed>>

\* A cancelled request gives its pages back; a completed one may leave its full
\* pages in the cache.
Released(id, tick) ==
    IF request[id[1]].cancelled
    THEN P!Fine(P!Cancelled(state, bindings[id]))
    ELSE P!Retired(state, bindings[id], RetainPrefixes, tick)

Retire(id, tick) ==
    /\ RequireReady
    /\ S!Resolves(id) /\ S!Terminal(request[id[1]])
    /\ request[id[1]].cancelled \/ tick >= state.clock
    /\ \E r \in {Released(id, tick)} : r.error = "none" /\ state' = r.st
    /\ request' = [request EXCEPT ![id[1]] = S!Vacant]
    /\ bindings' = P!Drop(bindings, {id})
    /\ UNCHANGED <<generation, last_tick, decode_cursor, prefill_cursor,
                   single_row_prefill, kv, poisoned, closed>>

\* runtime_diagnostic_snapshot, when a worker's snapshot fails.
SnapshotFails ==
    /\ RequireReady
    /\ poisoned' = TRUE
    /\ UNCHANGED <<schedVars, state, kv, bindings, closed>>

Close ==
    /\ closed' = TRUE
    /\ UNCHANGED <<schedVars, state, kv, bindings, poisoned>>

Tick == 0 .. MaxTick

RuntimeNext ==
    \/ \E a \in Admissions, tick \in Tick : Admit(a, tick)
    \/ \E tick \in Tick :
          \/ StepIdle(tick)
          \/ StepOutOfPages(tick)
          \/ StepPreflightFails(tick)
          \/ StepCommits(tick)
          \/ StepFails(tick)
    \/ \E id \in DOMAIN bindings : Cancel(id)
    \/ \E id \in DOMAIN bindings, tick \in Tick : Retire(id, tick)
    \/ SnapshotFails
    \/ Close

RuntimeSpec == RuntimeInit /\ [][RuntimeNext]_runtimeVars

-----------------------------------------------------------------------------
(* Properties *)

\* No call is ever refused with Error::Invariant: reference counts, cache flags and
\* the radix tree stay what validate_state expects, a page about to be written is
\* never shared, and a retired page whose chunk has no node is never in the cache
\* already; and the same holds of what every call would make of them now.
NeverRefused ==
    RequireReady =>
       /\ P!ValidState(state)
       /\ \A tick \in Tick, id \in DOMAIN bindings :
             tick >= state.clock =>
                \E r \in {P!Retired(state, bindings[id], RetainPrefixes, tick)} :
                   r.error = "none" /\ P!ValidState(r.st)
       /\ \A tick \in Tick :
             tick >= last_tick /\ ~S!NothingReady(tick) =>
                \E t \in {Attempt(tick)} :
                   t.error \in {"none", "OutOfPages"} /\ P!ValidState(t.proposed)

\* What a request has been fed and has been given back.
Stream(id) == request[id[1]].prompt_tokens \o request[id[1]].generated_tokens

\* Scheduler and pool never disagree, whichever of the calls inside admit, step and
\* retire went wrong: the requests the scheduler keeps and the sequences the pool
\* keeps are in one-to-one correspondence, and a sequence's committed tokens are
\* its request's stream up to the committed position.
Agreement ==
    /\ DOMAIN bindings = {<<s, generation[s]>> : s \in S!Occupied}
    /\ {bindings[id] : id \in DOMAIN bindings} = DOMAIN state.sequences
    /\ \A i, j \in DOMAIN bindings : bindings[i] = bindings[j] => i = j
    /\ \A id \in DOMAIN bindings :
          state.sequences[bindings[id]].tokens =
             SubSeq(Stream(id), 1, request[id[1]].committed_position)

\* Every committed position of a live request has, on the device, keys and values
\* computed over exactly that request's own prompt and output, whatever was shared,
\* evicted, refused or retried in between.
StreamExact == P!KvExact

\* A batch whose pages the ranks have written can always be published: the
\* scheduler accepts its rows and positions.
NeverLost ==
    RequireReady =>
       \A tick \in Tick :
          tick >= last_tick /\ ~S!NothingReady(tick) =>
             \A t \in {Attempt(tick)} :
                t.error = "none" =>
                   \A choices \in [S!ChoiceRows(t.batch) -> Generated] :
                      S!ValidCompletion(t.batch, choices)

\* evict_unused refuses only a target that no sequence of evictions could reach.
EvictionComplete == P!EvictionComplete
=============================================================================
