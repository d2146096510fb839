---------------------------- MODULE TpScheduler ----------------------------
(***************************************************************************)
(* The continuous-batching scheduler of the tensor-parallel engineering    *)
(* adapter, m1-engineering-execution-v1/src/tp_scheduler.rs:               *)
(* EngineeringTpSchedulerV1.                                               *)
(*                                                                         *)
(* A batch takes one row from each of several decoding requests, and a     *)
(* chunk of rows from each of several requests still reading their prompt. *)
(* Decode and prefill rotate over the slots with cursors of their own;     *)
(* when both have work a batch of several rows keeps one for prefill, and  *)
(* one-row batches alternate.  Progress and cursors move only when a batch *)
(* completes.                                                              *)
(*                                                                         *)
(* Left out: the nanosecond clock (monotone, and redundant with the tick   *)
(* for what is ready), timestamps and batch identities (the batch a caller *)
(* holds is the pending one).  TP_MAX_REQUESTS_V1 is Slots; MaxTick and    *)
(* MaxGeneration bound the tick and the slots' generations, u64 in the     *)
(* code.                                                                   *)
(***************************************************************************)
EXTENDS Integers, Sequences, FiniteSets

CONSTANTS Token, Slots, MaxRows, PrefillChunk, ContextLimit, Admissions,
          MaxTick, MaxGeneration

VARIABLES generation, request, last_tick, decode_cursor, prefill_cursor,
          single_row_prefill

Slot == 0 .. (Slots - 1)

\* A slot's request, when it has none.
Vacant == [prompt_tokens |-> <<>>]

Occupied == {s \in Slot : request[s] # Vacant}

Min2(a, b) == IF a < b THEN a ELSE b

SchedulerInit ==
    /\ generation = [s \in Slot |-> 0]
    /\ request = [s \in Slot |-> Vacant]
    /\ last_tick = 0
    /\ decode_cursor = 0 /\ prefill_cursor = 0
    /\ single_row_prefill = FALSE

PhaseLate(r) ==
    IF r.cancelled THEN "Cancelled"
    ELSE IF Len(r.generated_tokens) > r.max_new_tokens THEN "Completed"
    ELSE IF r.committed_position < Len(r.prompt_tokens) THEN "Prefill"
    ELSE "Decode"

\* TpRequestRecordV1::state.
Phase(r) ==
    IF r.cancelled THEN "Cancelled"
    ELSE IF Len(r.generated_tokens) = r.max_new_tokens THEN "Completed"
    ELSE IF r.committed_position < Len(r.prompt_tokens) THEN "Prefill"
    ELSE "Decode"

Terminal(r) == Phase(r) \in {"Completed", "Cancelled"}

\* request(id): the record a slot and generation name, if they still name one.
Resolves(id) == request[id[1]] # Vacant /\ generation[id[1]] = id[2]

-----------------------------------------------------------------------------
(* Admission *)

ValidAdmission(a) ==
    /\ Len(a.prompt_tokens) > 0 /\ a.max_new_tokens > 0
    /\ a.cached_prefix_tokens < Len(a.prompt_tokens)
    /\ Len(a.prompt_tokens) + a.max_new_tokens - 1 <= ContextLimit

FreeSlots == {s \in Slot : request[s] = Vacant /\ generation[s] < MaxGeneration}

FirstSlot == CHOOSE s \in FreeSlots : \A t \in FreeSlots : s <= t

\* The record of a new request, whose cached prefix is already computed.
NewRequest(a) ==
    [prompt_tokens |-> a.prompt_tokens, max_new_tokens |-> a.max_new_tokens,
     committed_position |-> a.cached_prefix_tokens, generated_tokens |-> <<>>,
     arrival_tick |-> a.arrival_tick, cancelled |-> FALSE]

-----------------------------------------------------------------------------
(* Preparing a batch *)

\* The slots in a phase that have arrived, in order from a cursor.
Ready(phase, cursor, tick) ==
    LET around == [k \in 1 .. Slots |-> (cursor + k - 1) % Slots]
        test(s) == /\ request[s] # Vacant
                   /\ Phase(request[s]) = phase
                   /\ request[s].arrival_tick <= tick
    IN SelectSeq(around, test)

DecodeRow(s) ==
    [slot |-> s, generation |-> generation[s],
     token |-> request[s].generated_tokens[Len(request[s].generated_tokens)],
     position |-> request[s].committed_position, kind |-> "Decode"]

PrefillRow(s, position) ==
    [slot |-> s, generation |-> generation[s],
     token |-> request[s].prompt_tokens[position + 1], position |-> position,
     kind |-> IF position + 1 = Len(request[s].prompt_tokens) THEN "PrefillFinal"
              ELSE "PrefillIntermediate"]

\* The next chunk of a request's prompt, at most room rows of it.
Chunk(s, room) ==
    LET start == request[s].committed_position
        count == Min2(Min2(Len(request[s].prompt_tokens) - start, room), PrefillChunk)
    IN [k \in 1 .. count |-> PrefillRow(s, start + k - 1)]

\* Chunks of the ready prompts in turn while there is room, and the slot after
\* the last one taken.
PrefillRows(prefill, room, cursor) ==
    LET after[k \in 0 .. Len(prefill)] ==
          IF k = 0 THEN [rows |-> <<>>, cursor |-> cursor]
          ELSE LET r == after[k - 1] IN
               IF Len(r.rows) = room THEN r
               ELSE [rows |-> r.rows \o Chunk(prefill[k], room - Len(r.rows)),
                     cursor |-> (prefill[k] + 1) % Slots]
    IN after[Len(prefill)]

\* The rows decode may take of a budget.
DecodeLimit(decode, prefill, budget) ==
    IF decode = <<>> \/ prefill = <<>> THEN budget
    ELSE IF budget = 1 THEN (IF single_row_prefill THEN 0 ELSE 1)
    ELSE budget - 1

NothingReady(tick) ==
    /\ Ready("Decode", decode_cursor, tick) = <<>>
    /\ Ready("Prefill", prefill_cursor, tick) = <<>>

\* A batch of the first n decoding slots and the given prefill rows; alternate is
\* whether the next one-row batch goes to the other phase.
Batch(decode, n, rest, alternate, tick) ==
    [rows |-> [k \in 1 .. n |-> DecodeRow(decode[k])] \o rest.rows,
     tick |-> tick,
     decode_cursor |-> IF n = 0 THEN decode_cursor ELSE (decode[n] + 1) % Slots,
     prefill_cursor |-> rest.cursor,
     single_row_prefill |-> IF alternate THEN ~single_row_prefill ELSE single_row_prefill]

BatchOf(decode, prefill, tick, budget) ==
    LET n == Min2(Len(decode), DecodeLimit(decode, prefill, budget)) IN
    Batch(decode, n, PrefillRows(prefill, budget - n, prefill_cursor),
          decode # <<>> /\ prefill # <<>> /\ budget = 1, tick)

\* The pending batch prepare builds.
Prepared(tick, budget) ==
    BatchOf(Ready("Decode", decode_cursor, tick), Ready("Prefill", prefill_cursor, tick),
            tick, budget)

-----------------------------------------------------------------------------
(* Completing it *)

\* The rows of a batch that belong to slot s, and those that produce a token.
RowsOf(batch, s) == {k \in DOMAIN batch.rows : batch.rows[k].slot = s}

ChoiceRows(batch) == {k \in DOMAIN batch.rows : batch.rows[k].kind # "PrefillIntermediate"}

\* completion_data: choices is a function from row indices to tokens.
ValidCompletion(batch, choices) ==
    /\ DOMAIN choices = ChoiceRows(batch)
    /\ \A k \in DOMAIN batch.rows :
          LET row == batch.rows[k]
              advance == Cardinality({j \in RowsOf(batch, row.slot) : j < k})
          IN /\ Resolves(<<row.slot, row.generation>>)
             /\ row.position = request[row.slot].committed_position + advance
             /\ row.position < ContextLimit
             /\ k \in ChoiceRows(batch) =>
                   Len(request[row.slot].generated_tokens) < request[row.slot].max_new_tokens

\* The tokens slot s receives (it has at most one row that produces one).
NewTokens(batch, s, choices) ==
    LET mine == RowsOf(batch, s) \cap ChoiceRows(batch) IN
    IF mine = {} THEN <<>> ELSE <<choices[CHOOSE k \in mine : TRUE]>>

\* The requests after a batch: positions advance and tokens are appended.
Progressed(batch, choices) ==
    [s \in Slot |->
        IF request[s] = Vacant THEN Vacant
        ELSE [request[s] EXCEPT
                !.committed_position = @ + Cardinality(RowsOf(batch, s)),
                !.generated_tokens = @ \o NewTokens(batch, s, choices)]]

Id == Slot \X (1 .. MaxGeneration)
=============================================================================
