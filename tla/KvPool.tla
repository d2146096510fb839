------------------------------- MODULE KvPool -------------------------------
(***************************************************************************)
(* The paged KV cache pool of ferric-engine/src/cache.rs: KvPool.          *)
(*                                                                         *)
(* A request owns a chain of pages, its logical page table.  Tokens are    *)
(* appended tentatively (resident), and a finalized speculation commits a  *)
(* prefix of them and drops the rest.  A page-aligned committed prefix can *)
(* be shared with an empty request, which seals its pages for good.  A     *)
(* page goes back to the free stack, under its next generation, when the   *)
(* last request that references it lets go of it.                          *)
(*                                                                         *)
(* reference_mask (a bit per request slot) is a set of slots; free_bitmap, *)
(* which only the proofs of the code read, is left out; token contents are *)
(* left out, token counts are kept.  MaxPageGeneration stands for          *)
(* u32::MAX, MaxPagesPerRequest for MAX_PAGES_PER_REQUEST = 512.           *)
(* A call that returns an error changes nothing and is a stuttering step.  *)
(***************************************************************************)
EXTENDS Identity, Sequences

CONSTANTS PageCount, PageTokens, MaxContext, MaxPagesPerRequest,
          MaxPageGeneration

\* The bounds new_bounded checks.
ASSUME KvPoolAssumption ==
    /\ PageCount \in Nat \ {0} /\ PageTokens \in Nat \ {0}
    /\ MaxContext \in Nat /\ PageTokens <= MaxContext
    /\ MaxPagesPerRequest \in Nat
    /\ MaxContext <= MaxPagesPerRequest * PageTokens
    /\ MaxPageGeneration \in Nat \ {0}

VARIABLES pages, free_stack, requests

kvVars == <<pages, free_stack, requests>>

PageIndex == 0 .. (PageCount - 1)

PageId == [index : PageIndex, generation : 1 .. MaxPageGeneration]

\* PageState: Free, Sealed, or Writable{owner_slot}, which is the owner's slot.
Free == -2
Sealed == -1

PageSlot == [generation : 1 .. MaxPageGeneration,
             state : {Free, Sealed} \cup RequestSlot,
             initialized_tokens : 0 .. PageTokens,
             references : SUBSET RequestSlot]

FreePage(g) == [generation |-> g, state |-> Free,
                initialized_tokens |-> 0, references |-> {}]

\* page_count is the length of pages.
EmptyRequest(g, l) == [generation |-> g, live |-> l,
                       committed_tokens |-> 0, resident_tokens |-> 0,
                       pages |-> <<>>]

\* live_request_index: r is the live generation of its slot.
LiveKv(r) ==
    requests[r.slot].live /\ requests[r.slot].generation = r.generation

\* The number of pages n tokens take.
PagesFor(n) == (n + PageTokens - 1) \div PageTokens

KvInit ==
    /\ pages = [p \in PageIndex |-> FreePage(1)]
    /\ free_stack = [i \in 1 .. PageCount |-> PageCount - i]
    /\ requests = [s \in RequestSlot |-> EmptyRequest(1, FALSE)]

-----------------------------------------------------------------------------
(* Creation, tentative append, prefix sharing *)

CanCreate(r) ==
    /\ ~requests[r.slot].live
    /\ requests[r.slot].generation = r.generation

CreateRequest(r) ==
    /\ CanCreate(r)
    /\ requests' = [requests EXCEPT ![r.slot].live = TRUE]
    /\ UNCHANGED <<pages, free_stack>>

\* The last page of a chain, and how many tokens r may still write on it: none
\* on a sealed page.
TailPage(chain) == chain[Len(chain)]

TailCapacity(chain) ==
    IF chain = <<>> \/ pages[TailPage(chain).index].state = Sealed THEN 0
    ELSE PageTokens - pages[TailPage(chain).index].initialized_tokens

\* page_slot and the state check on the tail page.
TailUsable(r, chain) ==
    chain # <<>> =>
        LET tail == TailPage(chain) IN
        /\ pages[tail.index].generation = tail.generation
        /\ pages[tail.index].state \in {Sealed, r.slot}

\* The n free pages append_fresh_page pops one after the other.
PoppedPages(n) == [i \in 1 .. n |-> free_stack[Len(free_stack) + 1 - i]]

AppendTentative(r, n) ==
    LET slot  == requests[r.slot]
        chain == slot.pages
        kept  == MinOf(n, TailCapacity(chain))
        rest  == n - kept
        fresh == PagesFor(rest)
        taken == PoppedPages(fresh)
    IN
    /\ LiveKv(r)
    /\ slot.resident_tokens + n <= MaxContext
    /\ n > 0
    /\ TailUsable(r, chain)
    /\ Len(chain) + fresh <= MaxPagesPerRequest
    /\ fresh <= Len(free_stack)
    /\ pages' = [p \in PageIndex |->
          IF \E i \in 1 .. fresh : taken[i] = p
          THEN LET i == CHOOSE i \in 1 .. fresh : taken[i] = p IN
               [generation |-> pages[p].generation, state |-> r.slot,
                initialized_tokens |-> MinOf(PageTokens, rest - (i - 1) * PageTokens),
                references |-> pages[p].references \cup {r.slot}]
          ELSE IF kept > 0 /\ p = TailPage(chain).index
          THEN [pages[p] EXCEPT !.initialized_tokens = @ + kept]
          ELSE pages[p]]
    /\ free_stack' = SubSeq(free_stack, 1, Len(free_stack) - fresh)
    /\ requests' = [requests EXCEPT
          ![r.slot].resident_tokens = @ + n,
          ![r.slot].pages = @ \o [i \in 1 .. fresh |->
                [index |-> taken[i], generation |-> pages[taken[i]].generation]]]

\* A plausible slip: the prefix may reach into tokens still tentative.
ShareableTentative(source, target, n) ==
    /\ LiveKv(source) /\ LiveKv(target) /\ source.slot # target.slot
    /\ n > 0 /\ n % PageTokens = 0
    /\ n <= requests[source.slot].resident_tokens
    /\ requests[target.slot].resident_tokens = 0
    /\ n \div PageTokens <= MaxPagesPerRequest

Shareable(source, target, n) ==
    /\ LiveKv(source) /\ LiveKv(target) /\ source.slot # target.slot
    /\ n > 0 /\ n % PageTokens = 0
    /\ n <= requests[source.slot].committed_tokens
    /\ requests[target.slot].resident_tokens = 0
    /\ n \div PageTokens <= MaxPagesPerRequest

\* share_next_page for each page of the prefix.
ShareCommittedPrefix(source, target, n) ==
    LET count == n \div PageTokens
        chain == requests[source.slot].pages
    IN
    /\ Shareable(source, target, n)
    /\ pages' = [p \in PageIndex |->
          IF \E i \in 1 .. count : chain[i].index = p
          THEN [pages[p] EXCEPT !.state = Sealed, !.references = @ \cup {target.slot}]
          ELSE pages[p]]
    /\ requests' = [requests EXCEPT
          ![target.slot].pages = SubSeq(chain, 1, count),
          ![target.slot].resident_tokens = n,
          ![target.slot].committed_tokens = n]
    /\ UNCHANGED free_stack

-----------------------------------------------------------------------------
(* Finalization and release *)

\* A plausible slip: the accepted count replaces the committed one.
CommittedAfterReplaced(slot, accepted) == accepted

CommittedAfter(slot, accepted) == slot.committed_tokens + accepted

AcceptInRange(r, accepted) ==
    CommittedAfter(requests[r.slot], accepted) <= requests[r.slot].resident_tokens

\* Every page to be dropped still has a next generation.
CanDrop(chain, positions) ==
    \A i \in positions : pages[chain[i].index].generation # MaxPageGeneration

CanFinalize(r, accepted) ==
    LET slot == requests[r.slot]
        retained == PagesFor(CommittedAfter(slot, accepted)) IN
    /\ LiveKv(r)
    /\ AcceptInRange(r, accepted)
    /\ CanDrop(slot.pages, (retained + 1) .. Len(slot.pages))

\* A plausible slip: a dropped page keeps its generation.
DroppedPageSame(p) == FreePage(pages[p].generation)

\* drop_sole_tail's page, to be pushed on the free stack.
DroppedPage(p) == FreePage(pages[p].generation + 1)

\* A plausible slip: the rejected tokens of the last page stay initialized.
TruncatedTailKept(p, tokens) == pages[p]

\* truncate_writable_tail.
TruncatedTail(p, tokens) == [pages[p] EXCEPT !.initialized_tokens = tokens]

\* raise_committed, drop_sole_tail for every page past the committed prefix,
\* from the tail, then truncate_writable_tail on a partly used last page.
FinalizeTentative(r, accepted) ==
    LET slot == requests[r.slot]
        chain == slot.pages
        committed == CommittedAfter(slot, accepted)
        retained == PagesFor(committed)
        spare == committed % PageTokens
        dropped == Len(chain) - retained
    IN
    /\ CanFinalize(r, accepted)
    /\ pages' = [p \in PageIndex |->
          IF \E i \in (retained + 1) .. Len(chain) : chain[i].index = p
          THEN DroppedPage(p)
          ELSE IF spare # 0 /\ chain[retained].index = p
          THEN TruncatedTail(p, spare)
          ELSE pages[p]]
    /\ free_stack' = free_stack \o
          [i \in 1 .. dropped |-> chain[Len(chain) + 1 - i].index]
    /\ requests' = [requests EXCEPT
          ![r.slot].committed_tokens = committed,
          ![r.slot].resident_tokens = committed,
          ![r.slot].pages = SubSeq(chain, 1, retained)]

\* page_has_other_reference.
Shared(p, s) == pages[p].references \ {s} # {}

\* A plausible slip: release returns every page of the chain.
SolePositionsAll(s, chain) == 1 .. Len(chain)

\* The positions of the chain whose page no other request references.
SolePositions(s, chain) == {i \in 1 .. Len(chain) : ~Shared(chain[i].index, s)}

CanRelease(r) ==
    LET slot == requests[r.slot] IN
    /\ LiveKv(r)
    /\ slot.generation # MaxGeneration
    /\ CanDrop(slot.pages, SolePositions(r.slot, slot.pages))

\* From the tail, detach_shared_tail on a shared page and drop_sole_tail on any
\* other, then retire_empty_request.  pushed is the order in which the pages
\* reach the free stack.
ReleaseInto(r, reopen) ==
    LET slot  == requests[r.slot]
        chain == slot.pages
        sole  == SolePositions(r.slot, chain)
    IN
    /\ CanRelease(r)
    /\ pages' = [p \in PageIndex |->
          IF \E i \in sole : chain[i].index = p
          THEN DroppedPage(p)
          ELSE IF \E i \in 1 .. Len(chain) : chain[i].index = p
          THEN [pages[p] EXCEPT !.references = @ \ {r.slot}]
          ELSE pages[p]]
    /\ \E k \in 0 .. Len(chain) : \E pushed \in [1 .. k -> sole] :
          /\ \A i, j \in 1 .. k : i < j => pushed[i] > pushed[j]
          /\ \A i \in sole : \E j \in 1 .. k : pushed[j] = i
          /\ free_stack' = free_stack \o [i \in 1 .. k |-> chain[pushed[i]].index]
    /\ requests' = [requests EXCEPT ![r.slot] = EmptyRequest(slot.generation + 1, reopen)]

ReleaseRequest(r) == ReleaseInto(r, FALSE)

\* release_request and the create_request of the slot's next generation, which
\* Engine::reincarnate_next_retiring calls one after the other.
ReleaseThenCreate(r) == ReleaseInto(r, TRUE)

KvNext ==
    \/ \E r \in RequestId :
          CreateRequest(r) \/ ReleaseRequest(r) \/ ReleaseThenCreate(r)
    \/ \E r \in RequestId, n \in 1 .. MaxContext :
          AppendTentative(r, n)
    \/ \E r \in RequestId, n \in 0 .. MaxContext : FinalizeTentative(r, n)
    \/ \E source, target \in RequestId, n \in 1 .. MaxContext :
          ShareCommittedPrefix(source, target, n)

KvSpec == KvInit /\ [][KvNext]_kvVars

-----------------------------------------------------------------------------
(* Properties *)

RequestEntry == [generation : Generation, live : BOOLEAN,
                 committed_tokens : 0 .. MaxContext,
                 resident_tokens : 0 .. MaxContext, pages : Seq(PageId)]

\* The state of the pool has its type; no generation passes its limit.
KvTypeOK ==
    /\ pages \in [PageIndex -> PageSlot]
    /\ free_stack \in Seq(PageIndex) /\ Len(free_stack) <= PageCount
    /\ requests \in [RequestSlot -> RequestEntry]
    /\ \A s \in RequestSlot : Len(requests[s].pages) <= MaxPagesPerRequest

Positions(s) == 1 .. Len(requests[s].pages)

\* Every page table entry names the current generation of its page, no table
\* names a page twice, a page's reference set is exactly the requests whose
\* tables name it, and the free stack holds the unreferenced pages, each once:
\* release and finalize neither leak a page nor hand one out that is in use,
\* and no page or request passes its generation limit.
PageOwnership ==
    /\ KvTypeOK
    /\ \A s \in RequestSlot :
        /\ ~requests[s].live => requests[s].pages = <<>>
        /\ \A i \in Positions(s) :
            LET page == requests[s].pages[i] IN
            /\ pages[page.index].generation = page.generation
            /\ \A j \in Positions(s) : requests[s].pages[j].index = page.index => i = j
    /\ \A p \in PageIndex :
        /\ pages[p].references =
              {s \in RequestSlot : \E i \in Positions(s) : requests[s].pages[i].index = p}
        /\ pages[p].state = Free <=> pages[p].references = {}
        /\ pages[p].state = Free <=> \E i \in 1 .. Len(free_stack) : free_stack[i] = p
    /\ \A i, j \in 1 .. Len(free_stack) : free_stack[i] = free_stack[j] => i = j

\* A token of a live request lies below resident_tokens, which is all that
\* validate_read asks, exactly when the request's page table has a page for it
\* on which it is initialized; and what is committed is resident.
ReadsInitialized ==
    \A s \in RequestSlot :
        /\ requests[s].committed_tokens <= requests[s].resident_tokens
        /\ \A i \in Positions(s), t \in 0 .. (PageTokens - 1) :
              (i - 1) * PageTokens + t < requests[s].resident_tokens
              <=> t < pages[requests[s].pages[i].index].initialized_tokens
        /\ requests[s].resident_tokens <= Len(requests[s].pages) * PageTokens

\* A writable page is referenced by its owner alone, and a page that is
\* referenced by two requests is sealed; a sealed page is full and lies in the
\* committed prefix of every request that references it, so that no append,
\* truncation or rollback of one request reaches what another one reads.
WriteExclusive ==
    \A s \in RequestSlot : \A i \in Positions(s) :
        LET page == pages[requests[s].pages[i].index] IN
        \/ page.state = s /\ page.references = {s}
        \/ /\ page.state = Sealed
           /\ page.initialized_tokens = PageTokens
           /\ i * PageTokens <= requests[s].committed_tokens

\* While a request lives, its committed prefix only grows: no operation of any
\* request lowers its committed count or changes a page of that prefix.
CommittedStep ==
    \A s \in RequestSlot :
        requests[s].live /\ requests'[s].live
            /\ requests'[s].generation = requests[s].generation
        => /\ requests'[s].committed_tokens >= requests[s].committed_tokens
           /\ \A i \in 1 .. PagesFor(requests[s].committed_tokens) :
                /\ requests'[s].pages[i] = requests[s].pages[i]
                /\ pages'[requests[s].pages[i].index].generation
                      = requests[s].pages[i].generation

CommittedStable == [][CommittedStep]_kvVars

\* A page is written only between leaving the free stack and being sealed, is
\* never unsealed, and is never the same page again once it has been freed: a
\* PageId a device buffer still holds cannot come to name other data.
PageStep ==
    \A p \in PageIndex :
        LET old == pages[p]
            new == pages'[p] IN
        \/ new.generation = old.generation + 1 /\ new.state = Free /\ old.state # Free
        \/ /\ new.generation = old.generation
           /\ old.state = Free \/ new.state # Free
           /\ old.state = Sealed => /\ new.state = Sealed
                                    /\ new.initialized_tokens = old.initialized_tokens

PageLifecycle == [][PageStep]_kvVars

=============================================================================
