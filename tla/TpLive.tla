------------------------------- MODULE TpLive -------------------------------
(***************************************************************************)
(* The live session of the tensor-parallel engineering adapter,            *)
(* m1-engineering-execution-v1/src/tp_live_ingress.rs: a reader thread     *)
(* frames commands from standard input into a bounded channel, and the     *)
(* session's loop takes commands, admits requests in order under a         *)
(* worst-case page reservation, runs one batch and retires what ended.     *)
(*                                                                         *)
(* The session runs on TpRuntime; at is the place in the loop of run.      *)
(* finished counts the terminal "request" events of each request id, and   *)
(* accepted holds the ids a "queued" event was emitted for.                *)
(*                                                                         *)
(* Left out: framing and JSON (a malformed line is one more command that   *)
(* changes nothing), tokenization, timing, the other events.  Writing an   *)
(* event may fail, which ends the session like a failed batch.             *)
(***************************************************************************)
EXTENDS TpRuntime

CONSTANTS Kinds,            \* the prompts and output limits of submissions
          MaxRequestId, InputCapacity, MaxPending, InputsPerBatch, MaxBatches

VARIABLES at, channel, held, reader, queue, active, draining,
          last_request_id, tick, batches, inputs, accepted, finished

sessionVars == <<queue, active, draining, last_request_id, tick, batches, inputs,
                 accepted, finished>>
readerVars == <<held, reader>>
liveVars == <<runtimeVars, sessionVars, readerVars, at, channel>>

RequestId == 1 .. MaxRequestId
Ended == at \in {"stopped", "failed"}

Submit(id, kind) == [command |-> "submit", request_id |-> id, kind |-> kind]
CancelCommand(id) == [command |-> "cancel", request_id |-> id]

Command ==
    {Submit(id, kind) : id \in RequestId, kind \in Kinds}
    \cup {CancelCommand(id) : id \in RequestId}
    \cup {[command |-> c] : c \in {"drain", "shutdown", "invalid"}}

Eof == [command |-> "eof"]
Failure == [command |-> "failed"]
Nothing == [command |-> "none"]

LiveInit ==
    /\ RuntimeInit
    /\ at = "top" /\ channel = <<>> /\ held = Nothing /\ reader = "reading"
    /\ queue = <<>> /\ active = <<>> /\ draining = FALSE
    /\ last_request_id = 0 /\ tick = 0 /\ batches = 0 /\ inputs = 0
    /\ accepted = {} /\ finished = [id \in RequestId |-> 0]

-----------------------------------------------------------------------------
(* The reader thread *)

\* read_input: a complete line, the end of input, or an error.
ReaderReads ==
    /\ reader = "reading" /\ held = Nothing
    /\ held' \in Command \cup {Eof, Failure}
    /\ UNCHANGED <<runtimeVars, sessionVars, at, channel, reader>>

\* send_input: try_send succeeds; after the end of input or an error the thread
\* returns.
ReaderSends ==
    /\ reader = "reading" /\ held # Nothing
    /\ Len(channel) < InputCapacity
    /\ channel' = Append(channel, held)
    /\ held' = Nothing
    /\ reader' = IF held \in {Eof, Failure} THEN "done" ELSE reader
    /\ UNCHANGED <<runtimeVars, sessionVars, at>>

ReaderStopsPolling ==
    /\ reader = "reading" /\ Ended /\ held = Nothing
    /\ reader' = "done"
    /\ UNCHANGED <<runtimeVars, sessionVars, at, channel, held>>

\* The stop flag, seen by the poll loop and by a send that finds the channel full.
ReaderStops ==
    /\ reader = "reading" /\ Ended
    /\ reader' = "done"
    /\ held' = Nothing
    /\ UNCHANGED <<runtimeVars, sessionVars, at, channel>>

-----------------------------------------------------------------------------
(* Commands *)

\* The pages a request may come to need.
WorstCase(kind) == P!CeilDiv(Len(kind.prompt) + kind.new_tokens - 1, PageTokens)

Fits(kind) == /\ Len(kind.prompt) + kind.new_tokens - 1 <= ContextTokens
              /\ WorstCase(kind) <= PhysicalPages

\* Submit: rejected, or queued.
Submitted(c) ==
    LET fresh == c.request_id > last_request_id
        taken == fresh /\ ~draining /\ Len(queue) < MaxPending /\ Fits(c.kind)
    IN /\ last_request_id' = IF fresh THEN c.request_id ELSE last_request_id
       /\ queue' = IF taken THEN Append(queue, [request_id |-> c.request_id, kind |-> c.kind])
                   ELSE queue
       /\ accepted' = IF taken THEN accepted \cup {c.request_id} ELSE accepted
       /\ UNCHANGED <<runtimeVars, active, draining, finished>>

Without(s, k) == SubSeq(s, 1, k - 1) \o SubSeq(s, k + 1, Len(s))

\* The terminal event of each of a set of requests.
Finished(ids) == finished' = [id \in RequestId |-> finished[id] + IF id \in ids THEN 1 ELSE 0]

CancelOnly(ids) ==
    LET gone == {ids[k] : k \in DOMAIN ids} IN
    /\ request' = [s \in S!Slot |-> IF <<s, generation[s]>> \in gone
                                     THEN [request[s] EXCEPT !.cancelled = TRUE]
                                     ELSE request[s]]
    /\ UNCHANGED <<state, bindings, generation, last_tick, decode_cursor, prefill_cursor,
                   single_row_prefill, kv, poisoned, closed>>

\* runtime.cancel and runtime.retire of a sequence of active requests, in order.
CancelActive(ids) ==
    LET after[k \in 0 .. Len(ids)] ==
          IF k = 0 THEN state ELSE P!Cancelled(after[k - 1], bindings[ids[k]])
        gone == {ids[k] : k \in DOMAIN ids}
    IN /\ state' = after[Len(ids)]
       /\ request' = [s \in S!Slot |-> IF <<s, generation[s]>> \in gone THEN S!Vacant
                                       ELSE request[s]]
       /\ bindings' = P!Drop(bindings, gone)
       /\ UNCHANGED <<generation, last_tick, decode_cursor, prefill_cursor,
                      single_row_prefill, kv, poisoned, closed>>

CancelRequest(id) ==
    \/ \E k \in DOMAIN queue :
          /\ queue[k].request_id = id
          /\ queue' = Without(queue, k)
          /\ Finished({id})
          /\ UNCHANGED <<runtimeVars, active>>
    \/ \E k \in DOMAIN active :
          /\ active[k].request_id = id
          /\ CancelActive(<<active[k].id>>)
          /\ active' = Without(active, k)
          /\ Finished({id})
          /\ UNCHANGED queue
    \/ /\ \A k \in DOMAIN queue : queue[k].request_id # id
       /\ \A k \in DOMAIN active : active[k].request_id # id
       /\ UNCHANGED <<runtimeVars, queue, active, finished>>

CancelAllSilently ==
    /\ CancelActive([k \in DOMAIN active |-> active[k].id])
    /\ Finished({active[k].request_id : k \in DOMAIN active})
    /\ queue' = <<>> /\ active' = <<>>

CancelAll ==
    /\ CancelActive([k \in DOMAIN active |-> active[k].id])
    /\ Finished({queue[k].request_id : k \in DOMAIN queue}
                \cup {active[k].request_id : k \in DOMAIN active})
    /\ queue' = <<>> /\ active' = <<>>

\* Session::input.
Handle(c) ==
    \/ c.command = "submit" /\ Submitted(c)
    \/ /\ c.command = "cancel" /\ CancelRequest(c.request_id)
       /\ UNCHANGED <<draining, last_request_id, accepted>>
    \/ /\ c.command \in {"drain", "eof"}
       /\ draining' = TRUE
       /\ UNCHANGED <<runtimeVars, queue, active, last_request_id, accepted, finished>>
    \/ /\ c.command = "shutdown"
       /\ draining' = TRUE
       /\ CancelAll
       /\ UNCHANGED <<last_request_id, accepted>>
    \/ /\ c.command = "invalid"
       /\ UNCHANGED <<runtimeVars, queue, active, draining, last_request_id, accepted, finished>>

-----------------------------------------------------------------------------
(* The loop of run *)

Disconnected == channel = <<>> /\ reader = "done"

\* Nothing left and nothing more to come: the session stops.
Top ==
    /\ at = "top"
    /\ at' = IF active = <<>> /\ queue = <<>> /\ draining THEN "stopped" ELSE "inputs"
    /\ inputs' = 0
    /\ UNCHANGED <<runtimeVars, readerVars, channel, queue, active, draining,
                   last_request_id, tick, batches, accepted, finished>>

\* Takes the next command and handles it; an error of the reader ends the session.
Receive(next) ==
    /\ channel # <<>>
    /\ channel' = Tail(channel)
    /\ IF Head(channel) = Failure
       THEN /\ at' = "failed"
            /\ UNCHANGED <<runtimeVars, queue, active, draining, last_request_id,
                           accepted, finished>>
       ELSE Handle(Head(channel)) /\ at' = next
    /\ UNCHANGED <<readerVars, tick, batches>>

TakeInput ==
    /\ at = "inputs" /\ inputs < InputsPerBatch
    /\ Receive("inputs")
    /\ inputs' = inputs + 1

\* The channel is empty, or enough commands were taken for this batch.
InputsDone ==
    /\ at = "inputs"
    /\ channel = <<>> \/ inputs = InputsPerBatch
    /\ draining' = (draining \/ (inputs < InputsPerBatch /\ Disconnected))
    /\ at' = "budget"
    /\ UNCHANGED <<runtimeVars, readerVars, channel, queue, active, last_request_id,
                   tick, batches, inputs, accepted, finished>>

\* enforce_budget.
Budget ==
    /\ at = "budget"
    /\ IF batches < MaxBatches \/ (active = <<>> /\ queue = <<>>)
       THEN /\ at' = "admit"
            /\ UNCHANGED <<runtimeVars, queue, active, draining, finished>>
       ELSE /\ at' = "failed"
            /\ draining' = TRUE
            /\ CancelAll
    /\ UNCHANGED <<readerVars, channel, last_request_id, tick, batches, inputs, accepted>>

SumPages ==
    LET sum[k \in 0 .. Len(active)] ==
          IF k = 0 THEN 0 ELSE sum[k - 1] + WorstCase(active[k].kind)
    IN sum[Len(active)]

MayAdmitAlone ==
    /\ Len(active) < Slots /\ queue # <<>>
    /\ WorstCase(Head(queue).kind) <= PhysicalPages

\* The head of the queue may join: a slot, and pages for every active request's
\* worst case and its own.
MayAdmit ==
    /\ Len(active) < Slots /\ queue # <<>>
    /\ SumPages + WorstCase(Head(queue).kind) <= PhysicalPages

AdmitHead ==
    /\ at = "admit" /\ MayAdmit
    /\ LET r == Head(queue)
           a == [prompt_tokens |-> r.kind.prompt, max_new_tokens |-> r.kind.new_tokens,
                 cached_prefix_tokens |-> 0, arrival_tick |-> tick]
           id == NextId
       IN /\ Admit(a, tick)
          /\ IF id \in DOMAIN bindings'
             THEN /\ active' = Append(active, [request_id |-> r.request_id, id |-> id,
                                               kind |-> r.kind])
                  /\ queue' = Tail(queue)
                  /\ UNCHANGED at
             ELSE at' = "failed" /\ UNCHANGED <<active, queue>>
    /\ UNCHANGED <<readerVars, channel, draining, last_request_id, tick, batches, inputs,
                   accepted, finished>>

AdmitDone ==
    /\ at = "admit" /\ ~MayAdmit
    /\ at' = IF active # <<>> THEN "step" ELSE IF draining THEN "top" ELSE "wait"
    /\ UNCHANGED <<runtimeVars, readerVars, sessionVars, channel>>

\* Session::step, which takes any answer but a committed batch for an error.
RunBatch ==
    /\ at = "step"
    /\ StepCommits(tick)
    /\ at' = "retire"
    /\ UNCHANGED <<readerVars, sessionVars, channel>>

BatchFails ==
    /\ at = "step"
    /\ StepIdle(tick) \/ StepOutOfPages(tick) \/ StepPreflightFails(tick) \/ StepFails(tick)
    /\ at' = "failed"
    /\ UNCHANGED <<readerVars, sessionVars, channel>>

\* Session::retire: the first active request that has ended.
Over == {k \in DOMAIN active : S!Terminal(request[active[k].id[1]])}

RetireNext ==
    /\ at = "retire" /\ Over # {}
    /\ LET k == P!First(Over) IN
       /\ Retire(active[k].id, tick)
       /\ active' = Without(active, k)
       /\ Finished({active[k].request_id})
    /\ UNCHANGED <<readerVars, at, channel, queue, draining, last_request_id, tick,
                   batches, inputs, accepted>>

RetireDone ==
    /\ at = "retire" /\ Over = {}
    /\ tick' = tick + 1 /\ batches' = batches + 1
    /\ at' = "top"
    /\ UNCHANGED <<runtimeVars, readerVars, channel, queue, active, draining,
                   last_request_id, inputs, accepted, finished>>

\* The blocking receive of an idle session. It never finds the channel
\* disconnected: the reader leaves only after its end or its error was sent.
WaitInput ==
    /\ at = "wait"
    /\ Receive("top")
    /\ UNCHANGED inputs

\* An event cannot be written.
EmitFails ==
    /\ ~Ended
    /\ at' = "failed"
    /\ UNCHANGED <<runtimeVars, readerVars, sessionVars, channel>>

SessionNext ==
    \/ Top \/ TakeInput \/ InputsDone \/ Budget \/ AdmitHead \/ AdmitDone \/ RunBatch
    \/ RetireNext \/ RetireDone \/ WaitInput

LiveNext ==
    \/ ReaderReads \/ ReaderSends \/ ReaderStops
    \/ SessionNext \/ BatchFails \/ EmitFails

LiveSpec == LiveInit /\ [][LiveNext]_liveVars

\* The session's thread has a step to take unless it waits for a command.
SessionReady == ~Ended /\ (at = "wait" => channel # <<>> \/ reader = "done")

\* The session's thread and the reader's keep running; nobody has to type.
LiveFairSpec ==
    /\ LiveSpec
    /\ []<>(~SessionReady) \/ []<><<SessionNext \/ BatchFails>>_liveVars
    /\ WF_liveVars(ReaderSends) /\ WF_liveVars(ReaderStops)

-----------------------------------------------------------------------------
(* Properties *)

\* Each queued request gets exactly one terminal event, and gets it when it leaves
\* the queue or the active set, by completion, by either kind of cancellation, by
\* shutdown or by the batch budget; an id that was not queued gets none.
OneTerminalEvent ==
    \A id \in RequestId :
        LET waiting == \/ \E k \in DOMAIN queue : queue[k].request_id = id
                       \/ \E k \in DOMAIN active : active[k].request_id = id
        IN finished[id] = IF id \in accepted /\ ~waiting THEN 1 ELSE 0

\* The active set, the scheduler's requests and the pool's sequences are the same
\* requests: the session never forgets one it admitted, so a slot or a page is not
\* lost while the session runs.
ActiveAgrees ==
    ~Ended => /\ {active[k].id : k \in DOMAIN active} = DOMAIN bindings
              /\ Agreement

\* The worst-case reservation is enough: an admitted request never meets a shortage
\* of pages, and a session with active requests always has a batch to run.
ReservationSuffices ==
    at = "step" => ~S!NothingReady(tick) /\ Attempt(tick).error = "none"

\* A session told to drain (by command, shutdown or end of input) ends, and so does
\* its reader, even one that was blocked on a full channel.
DrainEnds == draining ~> Ended /\ reader = "done"
=============================================================================
