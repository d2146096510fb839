---------------------------- MODULE DurableLedger ----------------------------
(***************************************************************************)
(* The durable ledger of the worker verifier service (durable.rs) with the *)
(* client of its protected head store (head_store_ipc.rs).                 *)
(*                                                                         *)
(* A service appends a record to a file, synchronizes the file, and then   *)
(* advances an external head by compare-and-exchange; only then is the     *)
(* record's challenge granted.  Services crash and restart, several may    *)
(* have the same file open, the host may lose what was not synchronized,   *)
(* and the head store may answer late, after the service gave up, or never.*)
(*                                                                         *)
(* A file is a sequence of blocks: the header, records, and possibly a     *)
(* Torn block that does not decode.  A head holds a count and a chained    *)
(* digest, which identify the blocks they were computed from, so a head is *)
(* that sequence too, and <<>> is the head that was never initialized.     *)
(* The sets of coordinates a service keeps are those of its blocks.        *)
(* Policy, namespace and object identities are fixed and left out.  An     *)
(* error returned before anything has changed is a stuttering step.        *)
(***************************************************************************)
EXTENDS Naturals, Sequences

CONSTANTS Service, NoService, Candidate, Kind, Header, Torn, MaxRecords

\* MaxRecords is at least 1: validate_configuration.
ASSUME LedgerAssumption ==
    /\ NoService \notin Service
    /\ Header \notin Candidate /\ Torn \notin Candidate /\ Header # Torn
    /\ MaxRecords \in Nat \ {0}
    /\ Kind \in {"Replay", "Reservation"}

VARIABLES cache,     \* the file as the processes see it
          disk,      \* the file as it survives the loss of the host
          head,      \* the external head
          lock,      \* the holder of the file lock
          pc,        \* where each service is in its current call
          state,     \* the blocks each service has validated
          candidate, \* the block each service is appending
          peer,      \* whether each service's head-store endpoint is open
          last_observed_head,
          request,   \* what each service has sent to the head store: nothing or one
          response,  \* what it has been answered: nothing or one
          orphans,   \* mutations sent by services that no longer wait for them
          granted    \* the records reported as appended, in order

file == <<cache, disk>>
client == <<peer, last_observed_head, request, response, orphans>>
ledgerVars == <<file, head, lock, pc, state, candidate, client, granted>>

Block == Candidate \cup {Header, Torn}

\* What must not occur twice: for a replay ledger the caller's challenge, for a
\* reservation ledger the challenge, the reservation and the request alike.
Coordinates(c) ==
    IF Kind = "Replay" THEN {<<"replay", c.caller, c.primary>>}
    ELSE {<<"challenge", c.primary>>, <<"reservation", c.secondary>>,
          <<"request", c.request>>}

Disjoint(c, d) == Coordinates(c) \cap Coordinates(d) = {}

\* A plausible slip: only the challenge is compared.
ConflictsChallengeOnly(blocks, c) ==
    \E i \in 2 .. Len(blocks) : blocks[i].primary = c.primary

Conflicts(blocks, c) == \E i \in 2 .. Len(blocks) : ~Disjoint(blocks[i], c)

\* What read_validated_state accepts.
Validated(blocks) ==
    /\ Len(blocks) \in 1 .. (MaxRecords + 1)
    /\ blocks[1] = Header
    /\ \A i \in 2 .. Len(blocks) : blocks[i] \in Candidate
    /\ \A i, j \in 2 .. Len(blocks) : i # j => Disjoint(blocks[i], blocks[j])

Load == [current |-> <<>>, next |-> <<>>]
Advance(s) == [current |-> state[s], next |-> Append(state[s], candidate[s])]

Answer(status, h) == [status |-> status, head |-> h]

Opening(s) == pc[s] = "validate" \/ state[s] = <<>>

\* A call ends: the lock is dropped; a failed provision or open leaves no
\* capability.
Return(s, to) ==
    /\ pc' = [pc EXCEPT ![s] = to]
    /\ lock' = NoService

Fail(s) == Return(s, IF Opening(s) THEN "closed" ELSE "ready")

LedgerInit ==
    /\ cache = <<>> /\ disk = <<>> /\ head = <<>>
    /\ lock = NoService
    /\ pc = [s \in Service |-> "closed"]
    /\ state = [s \in Service |-> <<>>]
    /\ candidate = [s \in Service |-> Header]
    /\ peer = [s \in Service |-> FALSE]
    /\ last_observed_head = [s \in Service |-> <<>>]
    /\ request = [s \in Service |-> {}]
    /\ response = [s \in Service |-> {}]
    /\ orphans = {}
    /\ granted = <<>>

-----------------------------------------------------------------------------
(* Provisioning, opening, and the start of an append *)

\* A new process gets an endpoint of its own that has observed nothing.
NewClient(s) ==
    /\ peer' = [peer EXCEPT ![s] = TRUE]
    /\ last_observed_head' = [last_observed_head EXCEPT ![s] = <<>>]
    /\ UNCHANGED <<request, response, orphans>>

Provision(s) ==
    /\ pc[s] = "closed" /\ lock = NoService
    /\ cache = <<>>
    /\ lock' = s
    /\ pc' = [pc EXCEPT ![s] = "write"]
    /\ state' = [state EXCEPT ![s] = <<>>]
    /\ candidate' = [candidate EXCEPT ![s] = Header]
    /\ NewClient(s)
    /\ UNCHANGED <<file, head, granted>>

\* The lock is taken for the reading and dropped again.
OpenExisting(s) ==
    /\ pc[s] = "closed" /\ lock = NoService
    /\ Validated(cache)
    /\ pc' = [pc EXCEPT ![s] = "read"]
    /\ state' = [state EXCEPT ![s] = cache]
    /\ NewClient(s)
    /\ UNCHANGED <<file, head, lock, candidate, granted>>

SendLoad(s) ==
    /\ peer[s]
    /\ request' = [request EXCEPT ![s] = {Load}]
    /\ UNCHANGED <<peer, last_observed_head, response, orphans>>

\* A plausible slip: the file is not looked at again.
FileUnchecked(s) == lock = NoService

\* validate_cached_file_state, with the lock held.
FileUnchanged(s) == lock = NoService /\ cache = state[s]

ValidateCurrentHead(s) ==
    /\ pc[s] = "read"
    /\ \/ /\ FileUnchanged(s)
          /\ lock' = s
          /\ pc' = [pc EXCEPT ![s] = "validate"]
          /\ SendLoad(s)
       \/ /\ pc' = [pc EXCEPT ![s] = "closed"]
          /\ UNCHANGED <<lock, client>>
    /\ UNCHANGED <<file, head, state, candidate, granted>>

AppendIfAbsent(s, c) ==
    /\ pc[s] = "ready"
    /\ FileUnchanged(s)
    /\ lock' = s
    /\ pc' = [pc EXCEPT ![s] = "load"]
    /\ candidate' = [candidate EXCEPT ![s] = c]
    /\ SendLoad(s)
    /\ UNCHANGED <<file, head, state, granted>>

-----------------------------------------------------------------------------
(* The head store: external, as the client uses it *)

\* A mutation succeeds exactly when the head is what the sender expects.
Apply(r) == head' = IF head = r.current THEN r.next ELSE head

AnswerTo(r) ==
    IF r = Load THEN Answer(IF head = <<>> THEN "Absent" ELSE "Loaded", head)
    ELSE IF head = r.current THEN Answer("Advanced", r.next)
    ELSE Answer("Conflict", <<>>)

StoreHandles(s, r) ==
    /\ r \in request[s]
    /\ \/ /\ Apply(r)
          /\ response' = [response EXCEPT ![s] = {AnswerTo(r)}]
       \/ /\ response' = [response EXCEPT ![s] = {Answer("Rejected", <<>>)}]
          /\ UNCHANGED head
    /\ request' = [request EXCEPT ![s] = {}]
    /\ UNCHANGED <<file, lock, pc, state, candidate, peer, last_observed_head,
                   orphans, granted>>

\* A request nobody waits for any more is handled late, or is lost.
StoreHandlesOrphan(r) ==
    /\ orphans' = orphans \ {r}
    /\ Apply(r) \/ UNCHANGED head
    /\ UNCHANGED <<file, lock, pc, state, candidate, peer, last_observed_head,
                   request, response, granted>>

-----------------------------------------------------------------------------
(* The rest of a call *)

\* Whatever s has sent stays on its way.  A load has no effect.
Orphaned(s) == orphans \cup (request[s] \ {Load})

\* The endpoint is closed and never used again by this process.
Poison(s) ==
    /\ peer' = [peer EXCEPT ![s] = FALSE]
    /\ request' = [request EXCEPT ![s] = {}]
    /\ response' = [response EXCEPT ![s] = {}]
    /\ orphans' = Orphaned(s)

Waiting(s) == pc[s] \in {"validate", "load", "await"}

\* After sending: a deadline, a closed endpoint, a malformed answer or one that
\* is evidence of a rollback.  Also a send that fails at the start of an append.
ExchangeFails(s) ==
    /\ \/ Waiting(s) /\ Fail(s)
       \/ pc[s] = "ready" /\ FileUnchanged(s) /\ peer[s] /\ UNCHANGED <<pc, lock>>
    /\ Poison(s)
    /\ UNCHANGED <<file, head, state, candidate, last_observed_head, granted>>

\* A plausible slip: seeing the same head again counts as a rollback.
RegressedOrSame(s, h) == Len(h) <= Len(last_observed_head[s])

\* observe_loaded_head
Regressed(s, h) ==
    \/ Len(h) < Len(last_observed_head[s])
    \/ Len(h) = Len(last_observed_head[s]) /\ h # last_observed_head[s]

Consume(s) ==
    /\ response' = [response EXCEPT ![s] = {}]
    /\ UNCHANGED <<peer, request, orphans>>

Observe(s, h) ==
    /\ last_observed_head' = [last_observed_head EXCEPT ![s] = h]
    /\ Consume(s)

\* A plausible slip: a refused exchange is reported as an append.
RefusedGrants(s, a) ==
    /\ Waiting(s) /\ a \in response[s]
    /\ a.status \in {"Rejected", "Conflict", "Absent"}
    /\ Fail(s)
    /\ Consume(s)
    /\ granted' = IF pc[s] = "await" /\ candidate[s] # Header
                  THEN Append(granted, candidate[s]) ELSE granted
    /\ UNCHANGED <<file, head, state, candidate, last_observed_head>>

\* Rejected, Conflict, or a load without a head: an error, the endpoint stays.
Refused(s, a) ==
    /\ Waiting(s) /\ a \in response[s]
    /\ a.status \in {"Rejected", "Conflict", "Absent"}
    /\ a.status = "Absent" => ~Regressed(s, <<>>)
    /\ Fail(s)
    /\ Consume(s)
    /\ UNCHANGED <<file, head, state, candidate, last_observed_head, granted>>

\* The end of validate_current_head, and the checks of append_if_absent between
\* the load and the write.
HeadLoaded(s, a) ==
    /\ pc[s] \in {"validate", "load"} /\ a \in response[s]
    /\ a.status = "Loaded" /\ ~Regressed(s, a.head)
    /\ \/ a.head # state[s] /\ Fail(s)
       \/ a.head = state[s] /\ pc[s] = "validate" /\ Return(s, "ready")
       \/ /\ a.head = state[s] /\ pc[s] = "load"
          /\ Conflicts(state[s], candidate[s]) \/ Len(state[s]) > MaxRecords
          /\ Return(s, "ready")
       \/ /\ a.head = state[s] /\ pc[s] = "load"
          /\ ~Conflicts(state[s], candidate[s]) /\ Len(state[s]) <= MaxRecords
          /\ pc' = [pc EXCEPT ![s] = "write"]
          /\ UNCHANGED lock
    /\ Observe(s, a.head)
    /\ UNCHANGED <<file, head, state, candidate, granted>>

\* pwrite_all: whole, stopped in the middle, or refused at once.
Write(s) ==
    /\ pc[s] = "write"
    /\ \/ /\ cache' = Append(cache, candidate[s])
          /\ pc' = [pc EXCEPT ![s] = "sync"]
          /\ UNCHANGED lock
       \/ cache' = Append(cache, Torn) /\ Fail(s)
       \/ UNCHANGED cache /\ Fail(s)
    /\ UNCHANGED <<disk, head, state, candidate, client, granted>>

\* A plausible slip: the head is advanced without waiting for the disk.
SynchronizeSkipped(s) ==
    /\ pc[s] = "sync"
    /\ pc' = [pc EXCEPT ![s] = "swap"]
    /\ UNCHANGED <<file, head, lock, state, candidate, client, granted>>

\* fdatasync.  When it fails nothing is known of the disk.
Synchronize(s) ==
    /\ pc[s] = "sync"
    /\ \/ /\ disk' = cache
          /\ pc' = [pc EXCEPT ![s] = "swap"]
          /\ UNCHANGED lock
       \/ UNCHANGED disk /\ Fail(s)
    /\ UNCHANGED <<cache, head, state, candidate, client, granted>>

\* initialize_head or compare_exchange_head.  A deadline before the packet is
\* out leaves the endpoint open, any other failure to send closes it.
SendAdvance(s) ==
    /\ pc[s] = "swap"
    /\ \/ /\ peer[s]
          /\ request' = [request EXCEPT ![s] = {Advance(s)}]
          /\ pc' = [pc EXCEPT ![s] = "await"]
          /\ UNCHANGED <<lock, peer, last_observed_head, response, orphans>>
       \/ Fail(s) /\ UNCHANGED client
       \/ Fail(s) /\ Poison(s) /\ UNCHANGED last_observed_head
    /\ UNCHANGED <<file, head, state, candidate, granted>>

\* The head is advanced: the record is published and reported as appended.
\* Provisioning reports no record.
Advanced(s, a) ==
    /\ pc[s] = "await" /\ a \in response[s]
    /\ a.status = "Advanced" /\ ~Regressed(s, a.head)
    /\ Observe(s, a.head)
    /\ Return(s, "ready")
    /\ state' = [state EXCEPT ![s] = a.head]
    /\ granted' = IF candidate[s] = Header THEN granted
                  ELSE Append(granted, candidate[s])
    /\ UNCHANGED <<file, head, candidate>>

-----------------------------------------------------------------------------
(* Crashes *)

\* The process ends; the kernel drops its lock and closes its endpoint.
ServiceCrash(s) ==
    /\ pc[s] # "closed"
    /\ pc' = [pc EXCEPT ![s] = "closed"]
    /\ lock' = IF lock = s THEN NoService ELSE lock
    /\ Poison(s)
    /\ UNCHANGED <<file, head, state, candidate, last_observed_head, granted>>

\* The last block that was written and not synchronized survives, is lost, or
\* is damaged.
HostCrash ==
    /\ cache # disk \/ \E s \in Service : pc[s] # "closed"
    /\ \/ disk' = disk
       \/ disk' = cache
       \/ cache # disk /\ disk' = Append(disk, Torn)
    /\ cache' = disk'
    /\ lock' = NoService
    /\ pc' = [s \in Service |-> "closed"]
    /\ peer' = [s \in Service |-> FALSE]
    /\ request' = [s \in Service |-> {}]
    /\ response' = [s \in Service |-> {}]
    /\ orphans' = UNION {Orphaned(s) : s \in Service}
    /\ UNCHANGED <<head, state, candidate, last_observed_head, granted>>

LedgerStep(s) ==
    \/ Provision(s) \/ OpenExisting(s) \/ ValidateCurrentHead(s)
    \/ \E c \in Candidate : AppendIfAbsent(s, c)
    \/ \E a \in response[s] : Refused(s, a) \/ HeadLoaded(s, a) \/ Advanced(s, a)
    \/ Write(s) \/ Synchronize(s) \/ SendAdvance(s)
    \/ ExchangeFails(s) \/ ServiceCrash(s)

LedgerNext ==
    \/ \E s \in Service : LedgerStep(s) \/ \E r \in request[s] : StoreHandles(s, r)
    \/ \E r \in orphans : StoreHandlesOrphan(r)
    \/ HostCrash

LedgerSpec == LedgerInit /\ [][LedgerNext]_ledgerVars

-----------------------------------------------------------------------------
(* Properties *)

\* Every variable has its type, and the lock is held exactly by the service that
\* is inside a locked section (LedgerLockV1 lives for the whole call).
LedgerTypeOK ==
    /\ cache \in Seq(Block) /\ disk \in Seq(Block) /\ head \in Seq(Block)
    /\ lock \in Service \cup {NoService}
    /\ pc \in [Service -> {"closed", "read", "ready", "validate", "load",
                          "write", "sync", "swap", "await"}]
    /\ state \in [Service -> Seq(Block)]
    /\ candidate \in [Service -> Candidate \cup {Header}]
    /\ peer \in [Service -> BOOLEAN]
    /\ granted \in Seq(Candidate)
    /\ \A s \in Service : pc[s] \notin {"closed", "read", "ready"} <=> lock = s

\* Whatever crashes, restarts, runs at once or answers late, no coordinate is
\* reported as appended twice: append_if_absent returns Ok(true) at most once
\* for a challenge, a reservation and a request.
GrantedOnce ==
    \A i, j \in DOMAIN granted : i # j => Disjoint(granted[i], granted[j])

\* The head is never ahead of what survives the loss of the host and at most one
\* block behind the file, and what was granted is below the head: fdatasync comes
\* before compare_exchange_head and that before Ok(true).
GrantDurable ==
    /\ disk \in {head, cache}
    /\ cache = head \/ \E b \in Block : cache = Append(head, b)
    /\ \A i \in DOMAIN granted : \E j \in 2 .. Len(head) : head[j] = granted[i]

\* What append_if_absent and provision checked at the start of the call still
\* holds when they write, although the load was answered by another process and
\* older mutations may be on their way; so the exchange that follows never
\* conflicts.
CheckStillCurrent ==
    \A s \in Service :
        /\ pc[s] = "write" => cache = state[s] /\ disk = state[s] /\ head = state[s]
        /\ \A a \in response[s] : a.status # "Conflict"

\* A head store that only ever advances is never taken for one that was rolled
\* back (observe_loaded_head), however late its answers are.
NoFalseRollback ==
    \A s \in Service : \A a \in response[s] :
        a.status \in {"Loaded", "Absent", "Advanced"} => ~Regressed(s, a.head)

\* A block is on the disk above the head and nobody will advance the head to it.
Stranded ==
    /\ Len(head) < Len(disk)
    /\ orphans = {} /\ \A s \in Service : request[s] \subseteq {Load}
    /\ \A s \in Service : pc[s] # "swap"

\* A tail that was left above the head is never truncated, adopted or written
\* over: from then on the ledger appends nothing (ExternalHeadMismatch).
StrandedForever == [][Stranded => Stranded' /\ granted' = granted]_ledgerVars

Registry == INSTANCE ChallengeRegistry WITH
                burned <- {head[i] : i \in 2 .. Len(head)},
                admitted <- {granted[i] : i \in DOMAIN granted}

\* The ledger implements the registry: the head moves by one fresh record at a
\* time, and a record is granted at most once, after it was burned.
RegistryRefined == Registry!RegistrySpec

-----------------------------------------------------------------------------
(* The inductive invariant *)

Idle == {"closed", "read", "ready"}

Request == [current : Seq(Block), next : Seq(Block)]
Response == [status : {"Absent", "Loaded", "Advanced", "Conflict", "Rejected"},
             head : Seq(Block)]

\* b may follow blocks in a ledger.
Fresh(blocks, b) ==
    IF blocks = <<>> THEN b = Header
    ELSE b \in Candidate /\ ~Conflicts(blocks, b) /\ Len(blocks) <= MaxRecords

Within(a, b) == Len(a) <= Len(b) /\ \A i \in 1 .. Len(a) : a[i] = b[i]

MessageTypes ==
    /\ request \in [Service -> SUBSET Request]
    /\ response \in [Service -> SUBSET Response]
    /\ orphans \subseteq Request
    /\ last_observed_head \in [Service -> Seq(Block)]

\* A mutation on its way takes the head to the end of the synchronized file.
ExactMutation(r) ==
    /\ r.current = head /\ r.next = disk /\ disk = cache
    /\ \E b \in Block : Fresh(head, b) /\ disk = Append(head, b)

Written(s) == Append(state[s], candidate[s])

\* What a service knows in each phase of its call.
Session(s) ==
    /\ request[s] = {} \/ response[s] = {}
    /\ pc[s] \in Idle \cup {"write", "sync", "swap"} =>
          request[s] = {} /\ response[s] = {}
    /\ pc[s] \in {"validate", "load"} =>
          /\ cache = state[s]
          /\ request[s] \subseteq {Load}
          /\ \A a \in response[s] : a.status \in {"Loaded", "Absent", "Rejected"}
          /\ \A a \in response[s] : a.status = "Loaded" => a.head # <<>>
    /\ pc[s] = "load" => candidate[s] \in Candidate
    /\ pc[s] \in {"write", "sync", "swap", "await"} => Fresh(state[s], candidate[s])
    /\ pc[s] = "write" => cache = state[s] /\ disk = state[s] /\ head = state[s]
    /\ pc[s] = "sync" => cache = Written(s) /\ disk = state[s] /\ head = state[s]
    /\ pc[s] \in {"swap", "await"} =>
          cache = Written(s) /\ disk = cache /\ orphans = {}
    /\ pc[s] = "swap" => head = state[s]
    /\ pc[s] = "await" =>
          /\ request[s] \subseteq {Advance(s)}
          /\ request[s] # {} => head = state[s]
          /\ \A a \in response[s] : a.status \in {"Advanced", "Rejected"}
          /\ \A a \in response[s] : a.status = "Advanced" =>
                /\ a.head = Written(s) /\ head = Written(s)
                /\ \A i \in DOMAIN granted :
                      \E j \in 2 .. Len(state[s]) : state[s][j] = granted[i]
    /\ Within(last_observed_head[s], head)
    /\ \A a \in response[s] : a.status \in {"Loaded", "Absent", "Advanced"} =>
          Within(last_observed_head[s], a.head) /\ Within(a.head, head)

LedgerInv ==
    /\ LedgerTypeOK /\ MessageTypes
    /\ GrantDurable /\ GrantedOnce
    /\ head = <<>> \/ Validated(head)
    /\ \A r \in orphans : ExactMutation(r)
    /\ \A s \in Service : Session(s)
=============================================================================
