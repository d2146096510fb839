------------------------------ MODULE TpPaged ------------------------------
(***************************************************************************)
(* The paged KV pool of the tensor-parallel engineering adapter,           *)
(* m1-engineering-execution-v1/src/tp_paged.rs: EngineeringTpPagedPoolV1.  *)
(*                                                                         *)
(* A sequence holds a chain of physical pages, counted by reference.  A    *)
(* retired sequence may leave its full pages in a radix cache: one node    *)
(* per page, keyed by the parent node and the page's tokens, with a time   *)
(* to live.  A later prompt that begins with a cached path takes those     *)
(* pages.  A batch works on a copy of the metadata (proposed) that becomes *)
(* the state when every rank has finished, and poisons the pool when a     *)
(* submitted batch fails.                                                  *)
(*                                                                         *)
(* The device is part of the model: kv holds, for each token slot of each  *)
(* page, the tokens whose keys and values were computed into it.  A row    *)
(* attends to what the previous slot of its page table holds, whatever     *)
(* that is, and writes its own slot.                                       *)
(*                                                                         *)
(* The operations are functions from metadata to metadata, with the error  *)
(* the code returns; TpRuntime, the pool's only caller, makes the steps    *)
(* of them.  Left out: pool, session and batch identities, the speculative *)
(* sequences, and the statistics counters.  MaxSerial bounds next_sequence,*)
(* which is u64 in the code.                                               *)
(***************************************************************************)
EXTENDS Integers, Sequences, FiniteSets

CONSTANTS PageTokens, PhysicalPages, MaxSequences, ContextTokens, CacheTtl

VARIABLES state, kv

Page == 1 .. PhysicalPages

\* Option<usize> of a node's parent, and a failed lookup.
Root == 0
Absent == -1

EmptyState == [pages |-> [p \in Page |-> [refs |-> 0, cached |-> FALSE]],
               sequences |-> <<>>, nodes |-> <<>>, clock |-> 0,
               next_sequence |-> 1]

PagedInit ==
    /\ state = EmptyState
    /\ kv = [p \in Page |-> [o \in 0 .. (PageTokens - 1) |-> <<>>]]

-----------------------------------------------------------------------------
(* The radix tree.  The operators take a State record, the committed one or *)
(* the proposed one.                                                        *)

Drop(f, S) == [x \in DOMAIN f \ S |-> f[x]]

With(f, x, v) == [y \in DOMAIN f \cup {x} |-> IF y = x THEN v ELSE f[y]]

FreePages(st) == {p \in Page : st.pages[p].refs = 0}

\* The first of a set of indices, as Iterator::position finds it.
First(S) == CHOOSE i \in S : \A j \in S : i <= j

FindAnywhere(st, parent, edge) ==
    LET found == {i \in DOMAIN st.nodes : st.nodes[i].edge = edge}
    IN IF found = {} THEN Absent ELSE First(found)

FindChild(st, parent, edge) ==
    LET found == {i \in DOMAIN st.nodes : /\ st.nodes[i].parent = parent
                                          /\ st.nodes[i].edge = edge}
    IN IF found = {} THEN Absent ELSE First(found)

IsLeaf(st, i) == \A j \in DOMAIN st.nodes : st.nodes[j].parent # i

\* Node i, its parent, its parent's parent and so on up to the root.
PathUp(st, i) ==
    LET up[k \in 0 .. PhysicalPages] ==
          IF k = 0 THEN i
          ELSE IF up[k - 1] \in DOMAIN st.nodes THEN st.nodes[up[k - 1]].parent
          ELSE Root
    IN {up[k] : k \in 0 .. PhysicalPages} \cap DOMAIN st.nodes

\* remove_node, for a set of nodes: the cache lets go of their pages.
RemoveNodes(st, S) ==
    LET let_go == {st.nodes[i].page : i \in S} IN
    [st EXCEPT
        !.nodes = Drop(@, S),
        !.pages = [p \in Page |-> IF p \in let_go
                                  THEN [refs |-> @[p].refs - 1, cached |-> FALSE]
                                  ELSE @[p]]]

\* expire_nodes removes expired leaves until there is none: what goes are the
\* nodes under which every node has expired.
Expired(st, now) ==
    LET late == {i \in DOMAIN st.nodes : st.nodes[i].expires <= now} IN
    {i \in late : \A j \in DOMAIN st.nodes : i \in PathUp(st, j) => j \in late}

ExpireNodes(st, now) ==
    RemoveNodes([st EXCEPT !.clock = now], Expired(st, now))

\* Tokens k * PageTokens + 1 onwards, one page of them, for k = 0, 1, ...
Chunk(tokens, k) == SubSeq(tokens, k * PageTokens + 1, (k + 1) * PageTokens)

\* The node that the first k chunks of tokens lead to from the root.
Walk(st, tokens, n) ==
    LET at[k \in 0 .. n] ==
          IF k = 0 THEN Root
          ELSE IF at[k - 1] = Absent THEN Absent
          ELSE FindChild(st, at[k - 1], Chunk(tokens, k - 1))
    IN at

-----------------------------------------------------------------------------
(* Admission *)

\* The pages open_sequence may take from the cache: the last prompt token is
\* always computed again.
Reusable(prompt) == (Len(prompt) - 1) \div PageTokens

\* The longest prefix of a walk on which no node is missing or expired.
LivePrefix(st, at, now) ==
    LET ok == {k \in DOMAIN at : \A j \in 1 .. k :
                  at[j] # Absent /\ st.nodes[at[j]].expires > now}
    IN [k \in 1 .. (CHOOSE k \in ok : \A j \in ok : j <= k) |-> at[k]]

\* The cached path open_sequence follows, as nodes: it stops at a missing or an
\* expired node.
Hits(st, prompt, now) == LivePrefix(st, Walk(st, prompt, Reusable(prompt)), now)

\* The nodes on a path are used at time now and live on from there.
Touch(st, path, now) ==
    [st EXCEPT !.nodes = [i \in DOMAIN @ |->
        IF \E k \in DOMAIN path : path[k] = i
        THEN [@[i] EXCEPT !.touched = now, !.expires = now + CacheTtl] ELSE @[i]]]

\* The new sequence holds a reference to each page of the cached path.
OpenedOn(st, prompt, hit, now) ==
    LET held  == [k \in DOMAIN hit |-> st.nodes[hit[k]].page]
        taken == {held[k] : k \in DOMAIN hit}
        seq   == [tokens |-> SubSeq(prompt, 1, Len(hit) * PageTokens), pages |-> held]
    IN [Touch(st, hit, now) EXCEPT
          !.pages = [p \in Page |-> IF p \in taken THEN [@[p] EXCEPT !.refs = @ + 1]
                                    ELSE @[p]],
          !.sequences = With(@, st.next_sequence, seq),
          !.next_sequence = @ + 1]

OpenedLive(st, prompt, now) == OpenedOn(st, prompt, Hits(st, prompt, now), now)

\* open_sequence on the metadata.
Opened(st, prompt, now) == OpenedLive(ExpireNodes(st, now), prompt, now)

-----------------------------------------------------------------------------
(* Batches *)

\* The next token of a sequence starts a page: take the first free one.
AtBoundary(row) == row.position % PageTokens = 0

\* One row of reserve_batch: [error, st].
Reserved1(st, row) ==
    LET seq   == st.sequences[row.sequence]
        empty == {p \in Page : st.pages[p].refs = 0 /\ ~st.pages[p].cached}
        page  == IF AtBoundary(row) THEN First(empty)
                 ELSE seq.pages[row.position \div PageTokens + 1]
        next  == [st EXCEPT
                    !.pages[page].refs = IF AtBoundary(row) THEN 1 ELSE @,
                    !.sequences[row.sequence] =
                        [tokens |-> Append(@.tokens, row.token),
                         pages |-> IF AtBoundary(row) THEN Append(@.pages, page) ELSE @.pages]]
    IN IF row.position >= ContextTokens \/ row.position # Len(seq.tokens)
       THEN [error |-> "InvalidRows", st |-> st]
       ELSE IF AtBoundary(row) /\ empty = {} THEN [error |-> "OutOfPages", st |-> st]
       ELSE IF next.pages[page].refs # 1 \/ next.pages[page].cached
       THEN [error |-> "Invariant", st |-> st]
       ELSE [error |-> "none", st |-> next]

Fine(st) == [error |-> "none", st |-> st]

\* Every row in input order, stopping at the first error.
Reserved(st, rows) ==
    LET after[k \in 0 .. Len(rows)] ==
          IF k = 0 THEN Fine(st)
          ELSE IF after[k - 1].error # "none" THEN after[k - 1]
          ELSE Reserved1(after[k - 1].st, rows[k])
    IN after[Len(rows)]

-----------------------------------------------------------------------------
(* Retirement *)

\* drop_sequence_refs.
DropRefs(st, seq) ==
    LET held == {seq.pages[k] : k \in DOMAIN seq.pages} IN
    [st EXCEPT !.pages = [p \in Page |-> IF p \in held THEN [@[p] EXCEPT !.refs = @ - 1]
                                         ELSE @[p]]]

\* One full page of a retired sequence: the matching child of the node reached so
\* far, or a new node for the sequence's own page; either is used now.
Published1(r, edge, page, now) ==
    LET st    == r.st
        child == FindChild(st, r.parent, edge)
        fresh == First(Page \ DOMAIN st.nodes)
        node  == [parent |-> r.parent, edge |-> edge, page |-> page,
                  touched |-> now, expires |-> now + CacheTtl]
    IN IF child # Absent
       THEN [r EXCEPT !.st = Touch(st, <<child>>, now), !.parent = child]
       ELSE IF st.pages[page].cached \/ Page \subseteq DOMAIN st.nodes
       THEN [r EXCEPT !.error = "Invariant"]
       ELSE [r EXCEPT
               !.st = [st EXCEPT !.pages[page] = [refs |-> @.refs + 1, cached |-> TRUE],
                                 !.nodes = With(@, fresh, node)],
               !.parent = fresh]

\* Every full page, from the root down; the partial last page is never cached.
Published(st, seq, now) ==
    LET n == Len(seq.tokens) \div PageTokens
        after[k \in 0 .. n] ==
          IF k = 0 THEN [error |-> "none", st |-> st, parent |-> Root]
          ELSE IF after[k - 1].error # "none" THEN after[k - 1]
          ELSE Published1(after[k - 1], Chunk(seq.tokens, k - 1), seq.pages[k], now)
    IN after[n]

\* What publication made of a retired sequence's pages, its own references dropped.
Unreferenced(done, seq) == [error |-> done.error, st |-> DropRefs(done.st, seq)]

Forgotten(st, s) == [st EXCEPT !.sequences = Drop(@, {s})]

\* retire_sequence on the metadata: [error, st].
Retired(st, s, publish, now) ==
    Unreferenced(IF publish
                 THEN Published(Forgotten(ExpireNodes(st, now), s), st.sequences[s], now)
                 ELSE Fine(Forgotten(ExpireNodes(st, now), s)),
                 st.sequences[s])

\* cancel_sequence on the metadata.
Cancelled(st, s) == DropRefs(Forgotten(st, s), st.sequences[s])

-----------------------------------------------------------------------------
(* Eviction *)

\* The leaves evict_unused may remove: those that only the cache holds.
EvictableUnheld(st) ==
    {i \in DOMAIN st.nodes : st.pages[st.nodes[i].page].refs = 0 /\ IsLeaf(st, i)}

EvictableInner(st) == {i \in DOMAIN st.nodes : st.pages[st.nodes[i].page].refs = 1}

Evictable(st) == {i \in DOMAIN st.nodes : st.pages[st.nodes[i].page].refs = 1 /\ IsLeaf(st, i)}

\* The one it removes next: touched longest ago, and of those the lowest index.
Oldest(st) ==
    CHOOSE i \in Evictable(st) : \A j \in Evictable(st) :
        \/ st.nodes[i].touched < st.nodes[j].touched
        \/ st.nodes[i].touched = st.nodes[j].touched /\ i <= j

\* One removal, if it is needed and possible; st is what the call began with.
Evicted1(st, r, needed) ==
    IF r.error # "none" \/ Cardinality(FreePages(r.st)) >= needed THEN r
    ELSE IF Evictable(r.st) = {} THEN [error |-> "OutOfPages", st |-> st]
    ELSE Fine(RemoveNodes(r.st, {Oldest(r.st)}))

\* evict_unused on the metadata: [error, st].
Evicted(st, needed) ==
    LET after[k \in 0 .. PhysicalPages] ==
          IF k = 0 THEN Fine(st) ELSE Evicted1(st, after[k - 1], needed)
    IN after[PhysicalPages]

-----------------------------------------------------------------------------
(* validate_state *)

Holders(st, p) == {s \in DOMAIN st.sequences :
                      \E k \in DOMAIN st.sequences[s].pages : st.sequences[s].pages[k] = p}
CacheHolders(st, p) == {i \in DOMAIN st.nodes : st.nodes[i].page = p}

CeilDiv(n, d) == (n + d - 1) \div d

ValidSequence(st, s) ==
    LET seq == st.sequences[s]
        n   == Len(seq.tokens)
    IN /\ s < st.next_sequence
       /\ n <= ContextTokens
       /\ Len(seq.pages) = CeilDiv(n, PageTokens)
       /\ \A j, k \in DOMAIN seq.pages : seq.pages[j] = seq.pages[k] => j = k
       /\ n % PageTokens # 0 =>
             st.pages[seq.pages[Len(seq.pages)]] = [refs |-> 1, cached |-> FALSE]

ValidNode(st, i) ==
    LET node == st.nodes[i] IN
    /\ \A j \in DOMAIN st.nodes \ {i} :
          /\ st.nodes[j].page # node.page
          /\ <<st.nodes[j].parent, st.nodes[j].edge>> # <<node.parent, node.edge>>
    /\ node.touched <= st.clock /\ node.touched < node.expires
    /\ node.parent # i
    /\ node.parent \in DOMAIN st.nodes \cup {Root}
    /\ Cardinality(PathUp(st, i)) <= CeilDiv(ContextTokens, PageTokens)
    /\ \E j \in PathUp(st, i) : st.nodes[j].parent = Root

ValidState(st) ==
    /\ Cardinality(DOMAIN st.sequences) <= MaxSequences
    /\ \A s \in DOMAIN st.sequences : ValidSequence(st, s)
    /\ \A i \in DOMAIN st.nodes : ValidNode(st, i)
    /\ \A p \in Page :
          /\ st.pages[p].refs = Cardinality(Holders(st, p)) + Cardinality(CacheHolders(st, p))
          /\ st.pages[p].cached <=> CacheHolders(st, p) # {}

-----------------------------------------------------------------------------
(* The device *)

Slot(pages, position) == <<pages[position \div PageTokens + 1], position % PageTokens>>

\* The device's write of one prepared row (external: the paged-attention kernels).
Written(mem, row) ==
    LET before == IF row.position = 0 THEN <<>>
                  ELSE LET at == Slot(row.pages, row.position - 1) IN mem[at[1]][at[2]]
        here   == Slot(row.pages, row.position)
    IN [mem EXCEPT ![here[1]][here[2]] = Append(before, row.token)]

-----------------------------------------------------------------------------
(* Properties *)

\* The tokens along the path from the root to node i, and the node's pages.
NodeTokens(st, i) ==
    LET path[k \in 0 .. PhysicalPages] ==
          IF k = 0 THEN [at |-> i, tokens |-> <<>>]
          ELSE IF path[k - 1].at = Root THEN path[k - 1]
          ELSE [at |-> st.nodes[path[k - 1].at].parent,
                tokens |-> st.nodes[path[k - 1].at].edge \o path[k - 1].tokens]
    IN path[PhysicalPages].tokens

\* A page holds, from slot 0 on, the keys and values of tokens after the first k.
Holds(page, tokens, k) ==
    \A o \in 0 .. (PageTokens - 1) :
        k + o < Len(tokens) => kv[page][o] = SubSeq(tokens, 1, k + o + 1)

\* Whatever was reserved, aborted, shared, cached, expired, evicted or left behind
\* by a refused batch, every committed token of a live sequence has its keys and values,
\* computed over exactly that sequence's prefix, in the page the pool names for it;
\* and every cached page holds exactly the prefix its path in the tree spells.
KvExact ==
    /\ \A s \in DOMAIN state.sequences :
          LET seq == state.sequences[s] IN
          \A k \in DOMAIN seq.pages : Holds(seq.pages[k], seq.tokens, (k - 1) * PageTokens)
    /\ \A i \in DOMAIN state.nodes :
          LET tokens == NodeTokens(state, i) IN
          Holds(state.nodes[i].page, tokens, Len(tokens) - PageTokens)

\* evict_unused refuses only a target no sequence of evictions could reach: oldest-
\* leaf-first removal frees every node under which no live sequence holds a page.
EvictionComplete ==
    LET free == {i \in DOMAIN state.nodes : \A j \in DOMAIN state.nodes :
                    i \in PathUp(state, j) => state.pages[state.nodes[j].page].refs = 1}
    IN \A needed \in Page :
          Evicted(state, needed).error = "none" <=>
             Cardinality(FreePages(state)) + Cardinality(free) >= needed
=============================================================================
