---------------------------- MODULE KvPoolSafety ----------------------------
(***************************************************************************)
(* The rest of the proof that KvInv is inductive (finalize_tentative and   *)
(* release_request), and the theorems about every behaviour of the pool.   *)
(***************************************************************************)
EXTENDS KvPoolProofs

-----------------------------------------------------------------------------
(* Finalization *)

\* Pushing distinct pages that are not on the stack.
LEMMA StackPush ==
    ASSUME NEW stack \in Seq(PageIndex), NEW push \in Seq(PageIndex),
           \A i, j \in 1 .. Len(stack) : stack[i] = stack[j] => i = j,
           \A i, j \in 1 .. Len(push) : push[i] = push[j] => i = j,
           \A i \in 1 .. Len(stack), j \in 1 .. Len(push) : stack[i] # push[j]
    PROVE  LET all == stack \o push IN
           /\ all \in Seq(PageIndex) /\ Len(all) <= PageCount
           /\ \A i, j \in 1 .. Len(all) : all[i] = all[j] => i = j
           /\ \A p : (\E i \in 1 .. Len(all) : all[i] = p)
                     <=> \/ \E i \in 1 .. Len(stack) : stack[i] = p
                         \/ \E i \in 1 .. Len(push) : push[i] = p
<1> DEFINE all == stack \o push
           m == Len(stack)
           k == Len(push)
<1>1. m \in Nat /\ k \in Nat
  OBVIOUS
<1>2. /\ all \in Seq(PageIndex) /\ Len(all) = m + k
      /\ \A i \in 1 .. (m + k) : all[i] = IF i <= m THEN stack[i] ELSE push[i - m]
  BY ConcatProperties
<1>0. /\ \A i, j \in 1 .. m : stack[i] = stack[j] => i = j
      /\ \A i, j \in 1 .. k : push[i] = push[j] => i = j
      /\ \A i \in 1 .. m, j \in 1 .. k : stack[i] # push[j]
  BY Zenon
<1> HIDE DEF all, m, k
<1>3. ASSUME NEW i \in 1 .. (m + k)
      PROVE  \/ i \in 1 .. m /\ all[i] = stack[i]
             \/ i > m /\ i - m \in 1 .. k /\ all[i] = push[i - m]
  BY <1>1, <1>2
<1>4. \A i, j \in 1 .. (m + k) : all[i] = all[j] => i = j
  <2> SUFFICES ASSUME NEW i \in 1 .. (m + k), NEW j \in 1 .. (m + k), all[i] = all[j]
               PROVE  i = j
    BY Zenon
  <2>1. CASE i \in 1 .. m /\ all[i] = stack[i]
    BY <1>0, <1>3, <2>1
  <2>2. CASE i > m /\ i - m \in 1 .. k /\ all[i] = push[i - m]
    <3>1. j > m /\ j - m \in 1 .. k /\ all[j] = push[j - m]
      <4>1. CASE j \in 1 .. m /\ all[j] = stack[j]
        <5> DEFINE a == i - m
        <5>1. a \in 1 .. k /\ stack[j] = push[a]
          BY Zenon, <2>2, <4>1
        <5> HIDE DEF a
        <5> QED
          BY Zenon, <1>0, <4>1, <5>1
      <4> QED
        BY Zenon, <1>3, <4>1
    <3> DEFINE a == i - m
               b == j - m
    <3>2. a \in 1 .. k /\ b \in 1 .. k /\ push[a] = push[b] /\ (a = b => i = j)
      <4>1. a = b => i = j
        BY <1>1
      <4>2. push[a] = push[b]
        BY <2>2, <3>1, Zenon
      <4> QED
        BY Zenon, <2>2, <3>1, <4>1, <4>2
    <3> HIDE DEF a, b
    <3> QED
      BY Zenon, <1>0, <3>2
  <2> QED
    BY Zenon, <1>3, <2>1, <2>2
<1>5. ASSUME NEW p
      PROVE  (\E i \in 1 .. (m + k) : all[i] = p)
             <=> \/ \E i \in 1 .. m : stack[i] = p
                 \/ \E i \in 1 .. k : push[i] = p
  <2>1. ASSUME NEW i \in 1 .. m PROVE i \in 1 .. (m + k) /\ all[i] = stack[i]
    BY <1>1, <1>2
  <2>2. ASSUME NEW i \in 1 .. k PROVE \E j \in 1 .. (m + k) : all[j] = push[i]
    <3>1. m + i \in 1 .. (m + k) /\ ~(m + i <= m) /\ (m + i) - m = i
      BY <1>1
    <3>2. all[m + i] = push[i]
      BY Zenon, <1>2, <3>1
    <3> QED
      BY Zenon, <3>1, <3>2
  <2> QED
    BY <1>3, <2>1, <2>2
<1>6. Len(all) <= PageCount
  BY Zenon, <1>2, <1>4, StackBound
<1> QED
  BY Zenon, <1>2, <1>4, <1>5, <1>6 DEF all, m, k

\* Beyond the committed tokens, a chain's pages belong to its request alone.
LEMMA TentativePage ==
    ASSUME KvInv, NEW s \in RequestSlot, NEW i \in Positions(s),
           requests[s].committed_tokens < Offset(i)
    PROVE  LET p == requests[s].pages[i].index IN
           /\ p \in PageIndex
           /\ pages[p].state = s /\ pages[p].references = {s}
           /\ \A t \in RequestSlot : t # s =>
                 \A j \in Positions(t) : requests[t].pages[j].index # p
<1> DEFINE p == requests[s].pages[i].index
<1>0. KvTypeOK
  BY Zenon DEF KvInv, PageOwnership
<1>1. i \in Int
  BY DEF Positions
<1>2. ~(i * PageTokens <= requests[s].committed_tokens)
  <2>1. Offset(i) \in Int /\ requests[s].committed_tokens \in Int
    <3>1. requests[s].committed_tokens \in Int
      BY <1>0, EntryTypes, KvPoolAssumption
    <3> QED
      BY Zenon, <1>1, <3>1, OffsetFacts
  <2>2. ~(Offset(i) <= requests[s].committed_tokens)
    BY <2>1
  <2> QED
    BY Zenon, <2>2 DEF Offset
<1>3. pages[p].state = s /\ pages[p].references = {s}
  BY Zenon, <1>2 DEF KvInv, WriteExclusive
<1>4. p \in PageIndex
  BY Zenon, <1>0, EntryTypes
<1>5. ASSUME NEW t \in RequestSlot, t # s, NEW j \in Positions(t)
      PROVE  requests[t].pages[j].index # p
  BY <1>3, <1>5, NamedPage
<1> QED
  BY Zenon, <1>3, <1>4, <1>5

\* The tokens and pages a finalization keeps.
KeptAfter(r, accepted) == CommittedAfter(requests[r.slot], accepted)
RetainedPages(r, accepted) == PagesFor(KeptAfter(r, accepted))

\* The chain a finalization leaves, and the pages it drops or truncates: these
\* are the request's own.
LEMMA FinalizeChain ==
    ASSUME KvInv, NEW r \in RequestId, NEW accepted \in 0 .. MaxContext,
           FinalizeTentative(r, accepted)
    PROVE  LET own == r.slot
               chain == requests[own].pages
               l == Len(chain)
               total == KeptAfter(r, accepted)
               k == RetainedPages(r, accepted)
               spare == total % PageTokens IN
           /\ own \in RequestSlot /\ l \in Nat /\ k \in 0 .. l
           /\ total \in Nat /\ spare \in 0 .. (PageTokens - 1)
           /\ requests[own].committed_tokens <= total
           /\ total <= requests[own].resident_tokens
           /\ total <= Offset(k) /\ (k > 0 => Offset(k - 1) < total)
           /\ spare # 0 => k \in 1 .. l /\ Filled(k, total) = spare
           /\ \A i \in 1 .. k : (spare = 0 \/ i # k) =>
                 Filled(i, total) = Filled(i, requests[own].resident_tokens)
           /\ \A i \in (k + 1) .. l : i \in Positions(own)
                 /\ requests[own].committed_tokens < Offset(i)
           /\ spare # 0 => requests[own].committed_tokens < Offset(k)
<1> DEFINE own == r.slot
           chain == requests[own].pages
           l == Len(chain)
           old == requests[own].committed_tokens
           res == requests[own].resident_tokens
           total == KeptAfter(r, accepted)
           k == RetainedPages(r, accepted)
           spare == total % PageTokens
<1>0. KvTypeOK /\ own \in RequestSlot
  BY Zenon DEF KvInv, PageOwnership, RequestId
<1>1. l \in Nat /\ old \in Nat /\ res \in Nat /\ accepted \in Nat
  BY <1>0, EntryTypes, KvPoolAssumption
<1>2. total = old + accepted /\ total <= res /\ k = PagesFor(total)
  BY Zenon
  DEF FinalizeTentative, CanFinalize, AcceptInRange, KeptAfter, RetainedPages, CommittedAfter
<1>3. total \in Nat /\ old <= total
  <2> HIDE DEF total, old
  <2> QED
    BY <1>1, <1>2
<1>4. res <= Offset(l)
  BY Zenon, <1>0 DEF KvInv, Filling, FillingOf
<1> HIDE DEF own, l, old, res, total, k
<1>5. /\ k \in 0 .. l /\ total <= Offset(k) /\ (k > 0 => Offset(k - 1) < total)
      /\ spare \in 0 .. (PageTokens - 1)
      /\ spare # 0 => /\ k > 0 /\ total < Offset(k) /\ Filled(k, total) = spare
                      /\ \A i \in 1 .. (k - 1) : Filled(i, total) = Filled(i, res)
      /\ spare = 0 => \A i \in 1 .. k : Filled(i, total) = Filled(i, res)
  BY <1>1, <1>2, <1>3, <1>4, FinalizeNumbers
<1>6. k \in Int /\ Offset(k) \in Int
  BY <1>1, <1>5, OffsetFacts
<1>7. ASSUME NEW i \in (k + 1) .. l
      PROVE  i \in 1 .. l /\ old < Offset(i)
  <2>1. i \in Int /\ k < i /\ i \in 1 .. l
    BY <1>1, <1>5
  <2>2. Offset(i) \in Int /\ Offset(k) < Offset(i)
    BY Zenon, <1>6, <2>1, OffsetFacts
  <2> QED
    BY <1>1, <1>3, <1>5, <1>6, <2>1, <2>2
<1>8. spare # 0 => old < Offset(k) /\ k \in 1 .. l
  BY <1>1, <1>3, <1>5, <1>6
<1>9. ASSUME NEW i \in 1 .. k, spare = 0 \/ i # k
      PROVE  Filled(i, total) = Filled(i, res)
  <2>1. CASE spare = 0
    BY Zenon, <1>5, <2>1
  <2>2. CASE spare # 0
    <3>1. i \in 1 .. (k - 1)
      BY <1>6, <1>9, <2>2
    <3> QED
      BY Zenon, <1>5, <2>2, <3>1
  <2> QED
    BY Zenon, <2>1, <2>2
<1> QED
  <2>1. \A i \in (k + 1) .. l : i \in Positions(own) /\ old < Offset(i)
    BY Zenon, <1>7 DEF Positions, l
  <2> QED
    BY <1>0, <1>1, <1>2, <1>3, <1>5, <1>8, <1>9, <2>1, Zenon DEF own, l, old, res, total, k

\* What a finalization does to the free stack and to the pages.
LEMMA FinalizePages ==
    ASSUME KvInv, NEW r \in RequestId, NEW accepted \in 0 .. MaxContext,
           FinalizeTentative(r, accepted)
    PROVE  LET own == r.slot
               chain == requests[own].pages
               l == Len(chain)
               total == KeptAfter(r, accepted)
               k == RetainedPages(r, accepted)
               spare == total % PageTokens IN
           /\ free_stack' \in Seq(PageIndex) /\ Len(free_stack') <= PageCount
           /\ \A i, j \in 1 .. Len(free_stack') : free_stack'[i] = free_stack'[j] => i = j
           /\ \A p \in PageIndex :
                 (\E i \in 1 .. Len(free_stack') : free_stack'[i] = p)
                 <=> \/ \E i \in 1 .. Len(free_stack) : free_stack[i] = p
                     \/ \E i \in (k + 1) .. l : chain[i].index = p
           /\ \A i \in (k + 1) .. l :
                 LET p == chain[i].index IN
                 /\ pages'[p].generation = pages[p].generation + 1
                 /\ pages'[p].generation \in 1 .. MaxPageGeneration
                 /\ pages'[p].state = Free
                 /\ pages'[p].initialized_tokens = 0
                 /\ pages'[p].references = {}
           /\ \A p \in PageIndex : (\A i \in (k + 1) .. l : chain[i].index # p) =>
                 /\ pages'[p].generation = pages[p].generation
                 /\ pages'[p].state = pages[p].state
                 /\ pages'[p].references = pages[p].references
                 /\ spare # 0 /\ chain[k].index = p => pages'[p].initialized_tokens = spare
                 /\ ~(spare # 0 /\ chain[k].index = p) =>
                       pages'[p].initialized_tokens = pages[p].initialized_tokens
           /\ pages' \in [PageIndex -> PageSlot]
<1> DEFINE own == r.slot
           chain == requests[own].pages
           l == Len(chain)
           total == KeptAfter(r, accepted)
           k == RetainedPages(r, accepted)
           spare == total % PageTokens
           dropped(p) == \E i \in (k + 1) .. l : chain[i].index = p
<1>0. KvTypeOK /\ own \in RequestSlot
  BY Zenon DEF KvInv, PageOwnership, RequestId
<1>1. /\ l \in Nat /\ k \in 0 .. l /\ spare \in 0 .. (PageTokens - 1)
      /\ \A i \in (k + 1) .. l : i \in Positions(own)
  BY FinalizeChain, Zenon
<1>2. /\ chain \in Seq(PageId)
      /\ \A i \in (k + 1) .. l : chain[i].index \in PageIndex
      /\ \A i, j \in (k + 1) .. l : chain[i].index = chain[j].index => i = j
      /\ \A i \in (k + 1) .. l : \A j \in 1 .. Len(free_stack) : free_stack[j] # chain[i].index
  <2>1. chain \in Seq(PageId)
    BY Zenon, <1>0, EntryTypes
  <2>2. \A i \in (k + 1) .. l : chain[i].index \in PageIndex
    BY Zenon, <1>0, <1>1, EntryTypes
  <2>3. \A i, j \in Positions(own) : chain[i].index = chain[j].index => i = j
    BY <1>0 DEF KvInv, PageOwnership
  <2>4. \A i \in (k + 1) .. l : \A j \in 1 .. Len(free_stack) : free_stack[j] # chain[i].index
    BY Zenon, <1>0, <1>1, NamedPage
  <2> QED
    BY Zenon, <1>1, <2>1, <2>2, <2>3, <2>4
<1>3. /\ free_stack' = free_stack \o [i \in 1 .. (l - k) |-> chain[l + 1 - i].index]
      /\ CanDrop(chain, (k + 1) .. l)
      /\ pages' = [p \in PageIndex |->
             IF dropped(p) THEN DroppedPage(p)
             ELSE IF spare # 0 /\ chain[k].index = p THEN TruncatedTail(p, spare)
             ELSE pages[p]]
  BY Zenon DEF FinalizeTentative, CanFinalize, KeptAfter, RetainedPages
<1>4. /\ free_stack' \in Seq(PageIndex) /\ Len(free_stack') <= PageCount
      /\ \A i, j \in 1 .. Len(free_stack') : free_stack'[i] = free_stack'[j] => i = j
      /\ \A p : (\E i \in 1 .. Len(free_stack') : free_stack'[i] = p)
                <=> \/ \E i \in 1 .. Len(free_stack) : free_stack[i] = p
                    \/ dropped(p)
  <2> DEFINE push == [i \in 1 .. (l - k) |-> chain[l + 1 - i].index]
  <2> HIDE DEF l, k, chain
  <2>1. \A i \in 1 .. (l - k) : l + 1 - i \in (k + 1) .. l
    BY <1>1
  <2>2. push \in Seq(PageIndex) /\ Len(push) = l - k
    <3>1. push \in [1 .. (l - k) -> PageIndex]
      BY Zenon, <1>2, <2>1
    <3>2. l - k \in Nat
      BY <1>1
    <3> HIDE DEF push
    <3> QED
      BY <3>1, <3>2
  <2>3. ASSUME NEW i \in 1 .. (l - k), NEW j \in 1 .. (l - k), push[i] = push[j]
        PROVE  i = j
    <3> DEFINE a == l + 1 - i
               b == l + 1 - j
    <3>1. a \in (k + 1) .. l /\ b \in (k + 1) .. l /\ (a = b => i = j)
      BY <1>1
    <3>2. chain[a].index = chain[b].index
      BY Zenon, <2>3
    <3> HIDE DEF a, b
    <3> QED
      BY Zenon, <1>2, <3>1, <3>2
  <2>4. ASSUME NEW p
        PROVE  (\E i \in 1 .. (l - k) : push[i] = p) <=> dropped(p)
    <3>1. ASSUME NEW i \in (k + 1) .. l
          PROVE  \E j \in 1 .. (l - k) : push[j] = chain[i].index
      <4> DEFINE j == l + 1 - i
      <4>1. j \in 1 .. (l - k) /\ l + 1 - j = i
        BY <1>1
      <4>2. push[j] = chain[l + 1 - j].index
        BY Zenon, <4>1
      <4>3. push[j] = chain[i].index
        BY Zenon, <4>1, <4>2
      <4> HIDE DEF j
      <4> QED
        BY Zenon, <4>1, <4>3
    <3>2. ASSUME NEW i \in 1 .. (l - k) PROVE dropped(push[i])
      BY Zenon, <2>1
    <3> QED
      BY <3>1, <3>2
  <2>5. free_stack \in Seq(PageIndex)
        /\ \A i, j \in 1 .. Len(free_stack) : free_stack[i] = free_stack[j] => i = j
    BY Zenon DEF KvInv, PageOwnership, KvTypeOK
  <2>6. \A i \in 1 .. Len(free_stack), j \in 1 .. (l - k) : free_stack[i] # push[j]
    BY Zenon, <1>2, <2>1
  <2>7. free_stack' = free_stack \o push
    BY Zenon, <1>3
  <2> HIDE DEF push, dropped
  <2>8. /\ \A i, j \in 1 .. Len(push) : push[i] = push[j] => i = j
        /\ \A i \in 1 .. Len(free_stack), j \in 1 .. Len(push) : free_stack[i] # push[j]
    BY Zenon, <2>2, <2>3, <2>6
  <2>9. LET all == free_stack \o push IN
        /\ all \in Seq(PageIndex) /\ Len(all) <= PageCount
        /\ \A i, j \in 1 .. Len(all) : all[i] = all[j] => i = j
        /\ \A p : (\E i \in 1 .. Len(all) : all[i] = p)
                  <=> \/ \E i \in 1 .. Len(free_stack) : free_stack[i] = p
                      \/ \E i \in 1 .. Len(push) : push[i] = p
    BY Zenon, <2>2, <2>5, <2>8, StackPush
  <2> QED
    BY Zenon, <2>2, <2>4, <2>7, <2>9
<1>5. ASSUME NEW p \in PageIndex, dropped(p)
      PROVE  /\ pages'[p].generation = pages[p].generation + 1
             /\ pages'[p].generation \in 1 .. MaxPageGeneration
             /\ pages'[p].state = Free
             /\ pages'[p].initialized_tokens = 0
             /\ pages'[p].references = {}
             /\ pages'[p] \in PageSlot
  <2>1. pages'[p] = FreePage(pages[p].generation + 1)
    BY Zenon, <1>3, <1>5 DEF DroppedPage
  <2>2. pages[p].generation # MaxPageGeneration
    BY Zenon, <1>3, <1>5 DEF CanDrop
  <2>3. pages[p].generation + 1 \in 1 .. MaxPageGeneration
    BY <1>0, <2>2, PageTypes, KvPoolAssumption
  <2> QED
    BY <2>1, <2>3, KvPoolAssumption DEF FreePage, PageSlot
<1>6. ASSUME NEW p \in PageIndex, ~dropped(p)
      PROVE  /\ pages'[p].generation = pages[p].generation
             /\ pages'[p].state = pages[p].state
             /\ pages'[p].references = pages[p].references
             /\ spare # 0 /\ chain[k].index = p => pages'[p].initialized_tokens = spare
             /\ ~(spare # 0 /\ chain[k].index = p) =>
                   pages'[p].initialized_tokens = pages[p].initialized_tokens
             /\ pages'[p] \in PageSlot
  <2>1. pages[p] \in PageSlot /\ spare \in 0 .. PageTokens
    BY <1>0, <1>1, PageTypes, KvPoolAssumption
  <2>2. pages'[p] = IF spare # 0 /\ chain[k].index = p THEN TruncatedTail(p, spare) ELSE pages[p]
    BY Zenon, <1>3, <1>6
  <2> HIDE DEF spare, k, chain
  <2> QED
    BY Zenon, <2>1, <2>2 DEF TruncatedTail, PageSlot
<1>7. pages' \in [PageIndex -> PageSlot]
  <2>1. pages' = [p \in PageIndex |-> pages'[p]]
    BY Zenon, <1>3
  <2> HIDE DEF dropped
  <2> QED
    BY Zenon, <1>5, <1>6, <2>1
<1> QED
  <2>1. \A i \in (k + 1) .. l :
                 LET p == chain[i].index IN
                 /\ pages'[p].generation = pages[p].generation + 1
                 /\ pages'[p].generation \in 1 .. MaxPageGeneration
                 /\ pages'[p].state = Free
                 /\ pages'[p].initialized_tokens = 0
                 /\ pages'[p].references = {}
    BY Zenon, <1>2, <1>5
  <2>2. \A p \in PageIndex : (\A i \in (k + 1) .. l : chain[i].index # p) =>
                 /\ pages'[p].generation = pages[p].generation
                 /\ pages'[p].state = pages[p].state
                 /\ pages'[p].references = pages[p].references
                 /\ spare # 0 /\ chain[k].index = p => pages'[p].initialized_tokens = spare
                 /\ ~(spare # 0 /\ chain[k].index = p) =>
                       pages'[p].initialized_tokens = pages[p].initialized_tokens
    BY Zenon, <1>6
  <2> QED
    BY Zenon, <1>4, <1>7, <2>1, <2>2

\* What a finalization does to the requests.
LEMMA FinalizeRequests ==
    ASSUME KvInv, NEW r \in RequestId, NEW accepted \in 0 .. MaxContext,
           FinalizeTentative(r, accepted)
    PROVE  LET own == r.slot
               total == KeptAfter(r, accepted)
               k == RetainedPages(r, accepted) IN
           /\ \A s \in RequestSlot : s # own => requests'[s] = requests[s]
           /\ requests'[own].live
           /\ requests'[own].generation = requests[own].generation
           /\ requests'[own].committed_tokens = total
           /\ requests'[own].resident_tokens = total
           /\ requests'[own].pages \in Seq(PageId) /\ Len(requests'[own].pages) = k
           /\ \A i \in 1 .. k : requests'[own].pages[i] = requests[own].pages[i]
           /\ requests' \in [RequestSlot -> RequestEntry]
<1> DEFINE own == r.slot
           chain == requests[own].pages
           l == Len(chain)
           total == KeptAfter(r, accepted)
           k == RetainedPages(r, accepted)
           prefix == SubSeq(chain, 1, k)
           entry == requests'[own]
           before == requests[own]
<1>0. KvTypeOK /\ own \in RequestSlot
  BY Zenon DEF KvInv, PageOwnership, RequestId
<1>1. l \in Nat /\ k \in 0 .. l /\ total \in Nat /\ total <= before.resident_tokens
  BY FinalizeChain, Zenon
<1>2. chain \in Seq(PageId) /\ before.resident_tokens \in 0 .. MaxContext
  BY Zenon, <1>0, EntryTypes
<1>3. /\ requests' = [requests EXCEPT ![own] = [before EXCEPT
            !.committed_tokens = total, !.resident_tokens = total, !.pages = prefix]]
      /\ before \in RequestEntry /\ before.live
      /\ requests \in [RequestSlot -> RequestEntry]
  BY Zenon, <1>0 DEF FinalizeTentative, CanFinalize, LiveKv, KvTypeOK, KeptAfter, RetainedPages
<1>4. prefix \in Seq(PageId) /\ Len(prefix) = k /\ \A i \in 1 .. k : prefix[i] = chain[i]
  <2> HIDE DEF k, chain
  <2> QED
    BY <1>1, <1>2 DEF l
<1>5. total \in 0 .. MaxContext
  <2> DEFINE res == before.resident_tokens
  <2>1. res \in 0 .. MaxContext /\ total \in Nat /\ total <= res
    BY Zenon, <1>1, <1>2
  <2> HIDE DEF res, total
  <2> QED
    BY <2>1, KvPoolAssumption
<1> HIDE DEF prefix, before, total, own
<1>6. /\ \A s \in RequestSlot : s # own => requests'[s] = requests[s]
      /\ entry = [before EXCEPT
            !.committed_tokens = total, !.resident_tokens = total, !.pages = prefix]
      /\ requests' = [s \in RequestSlot |-> requests'[s]]
  BY Zenon, <1>0, <1>3
<1> HIDE DEF entry
<1>7. /\ entry.live /\ entry.generation = before.generation
      /\ entry.committed_tokens = total /\ entry.resident_tokens = total
      /\ entry.pages = prefix /\ entry \in RequestEntry
  BY Zenon, <1>3, <1>4, <1>5, <1>6 DEF RequestEntry
<1>8. requests' \in [RequestSlot -> RequestEntry]
  BY Zenon, <1>3, <1>6, <1>7 DEF entry
<1> QED
  BY <1>4, <1>6, <1>7, <1>8, Zenon DEF entry, before, total, own

LEMMA FinalizeInv ==
    ASSUME KvInv, NEW r \in RequestId, NEW accepted \in 0 .. MaxContext,
           FinalizeTentative(r, accepted)
    PROVE  KvInv'
<1> DEFINE own == r.slot
           chain == requests[own].pages
           l == Len(chain)
           old == requests[own].committed_tokens
           res == requests[own].resident_tokens
           total == KeptAfter(r, accepted)
           k == RetainedPages(r, accepted)
           spare == total % PageTokens
<1>0. KvTypeOK /\ Free \notin RequestSlot /\ Sealed \notin RequestSlot /\ Free # Sealed
  BY IdentityAssumption DEF KvInv, PageOwnership, RequestSlot, Free, Sealed
<1>1. /\ own \in RequestSlot /\ l \in Nat /\ k \in 0 .. l
      /\ total \in Nat /\ spare \in 0 .. (PageTokens - 1)
      /\ old <= total /\ total <= res
      /\ total <= Offset(k) /\ (k > 0 => Offset(k - 1) < total)
      /\ spare # 0 => k \in 1 .. l /\ Filled(k, total) = spare
      /\ \A i \in 1 .. k : (spare = 0 \/ i # k) => Filled(i, total) = Filled(i, res)
      /\ \A i \in (k + 1) .. l : i \in Positions(own) /\ old < Offset(i)
      /\ spare # 0 => old < Offset(k)
  BY FinalizeChain, Zenon
<1>2. /\ free_stack' \in Seq(PageIndex) /\ Len(free_stack') <= PageCount
      /\ \A i, j \in 1 .. Len(free_stack') : free_stack'[i] = free_stack'[j] => i = j
      /\ \A p \in PageIndex :
            (\E i \in 1 .. Len(free_stack') : free_stack'[i] = p)
            <=> \/ \E i \in 1 .. Len(free_stack) : free_stack[i] = p
                \/ \E i \in (k + 1) .. l : chain[i].index = p
      /\ pages' \in [PageIndex -> PageSlot]
  BY Zenon, FinalizePages
<1>3. \A i \in (k + 1) .. l : /\ pages'[chain[i].index].state = Free
                              /\ pages'[chain[i].index].references = {}
  <2>1. \A i \in (k + 1) .. l :
           LET p == chain[i].index IN
           /\ pages'[p].generation = pages[p].generation + 1
           /\ pages'[p].generation \in 1 .. MaxPageGeneration
           /\ pages'[p].state = Free
           /\ pages'[p].initialized_tokens = 0
           /\ pages'[p].references = {}
    BY FinalizePages, Zenon
  <2> QED
    BY Zenon, <2>1
<1>4. \A p \in PageIndex : (\A i \in (k + 1) .. l : chain[i].index # p) =>
         /\ pages'[p].generation = pages[p].generation
         /\ pages'[p].state = pages[p].state
         /\ pages'[p].references = pages[p].references
         /\ spare # 0 /\ chain[k].index = p => pages'[p].initialized_tokens = spare
         /\ ~(spare # 0 /\ chain[k].index = p) =>
               pages'[p].initialized_tokens = pages[p].initialized_tokens
  BY Zenon, FinalizePages
<1>5. /\ \A s \in RequestSlot : s # own => requests'[s] = requests[s]
      /\ requests'[own].live
      /\ requests'[own].committed_tokens = total
      /\ requests'[own].resident_tokens = total
      /\ Len(requests'[own].pages) = k
      /\ \A i \in 1 .. k : requests'[own].pages[i] = chain[i]
      /\ requests' \in [RequestSlot -> RequestEntry]
  BY Zenon, FinalizeRequests
<1>6. /\ Positions(own) = 1 .. l /\ Positions(own)' = 1 .. k
      /\ \A s \in RequestSlot : s # own => Positions(s)' = Positions(s)
      /\ \A i \in 1 .. k : i \in Positions(own)
  BY <1>1, <1>5 DEF Positions
\* The pages that are dropped or truncated are the request's alone.
<1>7. \A i \in (k + 1) .. l :
         /\ chain[i].index \in PageIndex
         /\ pages[chain[i].index].references = {own}
         /\ \A s \in RequestSlot : s # own =>
               \A j \in Positions(s) : requests[s].pages[j].index # chain[i].index
  BY ZenonT(30), <1>1, TentativePage
<1>8. spare # 0 =>
         /\ pages[chain[k].index].state = own
         /\ \A s \in RequestSlot : s # own =>
               \A j \in Positions(s) : requests[s].pages[j].index # chain[k].index
  <2> SUFFICES ASSUME spare # 0
               PROVE  /\ pages[chain[k].index].state = own
                      /\ \A s \in RequestSlot : s # own =>
                            \A j \in Positions(s) : requests[s].pages[j].index # chain[k].index
    BY Zenon
  <2>1. k \in Positions(own) /\ old < Offset(k)
    BY Zenon, <1>1, <1>6
  <2> QED
    BY ZenonT(30), <1>1, <2>1, TentativePage
<1>9. /\ \A i \in 1 .. k : /\ chain[i].index \in PageIndex
                           /\ pages[chain[i].index].generation = chain[i].generation
      /\ \A i, j \in 1 .. l : chain[i].index = chain[j].index => i = j
      /\ \A i \in 1 .. k : \A j \in (k + 1) .. l : chain[j].index # chain[i].index
  <2>1. \A i \in Positions(own) :
           /\ pages[chain[i].index].generation = chain[i].generation
           /\ \A j \in Positions(own) : chain[j].index = chain[i].index => i = j
    BY Zenon, <1>1 DEF KvInv, PageOwnership
  <2>2. \A i \in 1 .. k : chain[i].index \in PageIndex
    BY Zenon, <1>0, <1>1, <1>6, EntryTypes
  <2>3. \A i \in 1 .. k : i \in 1 .. l /\ \A j \in (k + 1) .. l : i # j
    BY <1>1
  <2> QED
    BY <1>1, <1>6, <2>1, <2>2, <2>3
<1> HIDE DEF own, chain, l, old, res, total, k, spare
<1>10. KvTypeOK'
  <2>1. k <= MaxPagesPerRequest
    <3>1. l <= MaxPagesPerRequest
      BY Zenon, <1>0, <1>1 DEF KvTypeOK, l, chain
    <3> QED
      BY <1>1, <3>1, KvPoolAssumption
  <2>2. \A s \in RequestSlot : Len(requests'[s].pages) <= MaxPagesPerRequest
    BY Zenon, <1>0, <1>5, <2>1 DEF KvTypeOK
  <2> QED
    BY Zenon, <1>2, <1>5, <2>2 DEF KvTypeOK
<1>11. PageOwnership'
  <2>1. ASSUME NEW s \in RequestSlot PROVE ~requests'[s].live => requests'[s].pages = <<>>
    BY Zenon, <1>5 DEF KvInv, PageOwnership
  <2>2. ASSUME NEW s \in RequestSlot, NEW i \in Positions(s)'
        PROVE  /\ pages'[requests'[s].pages[i].index].generation = requests'[s].pages[i].generation
               /\ \A j \in Positions(s)' :
                     requests'[s].pages[j].index = requests'[s].pages[i].index => i = j
    <3>1. CASE s = own
      <4>1. i \in 1 .. k /\ requests'[s].pages[i] = chain[i]
        BY Zenon, <1>5, <1>6, <3>1
      <4>2. pages'[chain[i].index].generation = chain[i].generation
        BY Zenon, <1>4, <1>9, <4>1
      <4>3. ASSUME NEW j \in Positions(s)',
                   requests'[s].pages[j].index = requests'[s].pages[i].index
            PROVE  i = j
        <5>1. j \in 1 .. k /\ requests'[s].pages[j] = chain[j]
          BY Zenon, <1>5, <1>6, <3>1
        <5>2. i \in 1 .. l /\ j \in 1 .. l
          BY <1>1, <4>1, <5>1
        <5> QED
          BY Zenon, <1>9, <4>1, <4>3, <5>1, <5>2
      <4> QED
        BY Zenon, <4>1, <4>2, <4>3
    <3>2. CASE s # own
      <4>1. i \in Positions(s) /\ requests'[s] = requests[s] /\ Positions(s)' = Positions(s)
        BY Zenon, <1>5, <1>6, <3>2
      <4>2. requests[s].pages[i].index \in PageIndex
        BY Zenon, <1>0, <4>1, EntryTypes
      <4>3. \A j \in (k + 1) .. l : chain[j].index # requests[s].pages[i].index
        BY Zenon, <1>7, <3>2, <4>1
      <4>4. pages'[requests[s].pages[i].index].generation
               = pages[requests[s].pages[i].index].generation
        BY Zenon, <1>4, <4>2, <4>3
      <4> QED
        BY <4>1, <4>4 DEF KvInv, PageOwnership
    <3> QED
      BY Zenon, <3>1, <3>2
  <2>3. ASSUME NEW p \in PageIndex
        PROVE  /\ pages'[p].references =
                     {s \in RequestSlot : \E i \in Positions(s)' : requests'[s].pages[i].index = p}
               /\ pages'[p].state = Free <=> pages'[p].references = {}
               /\ pages'[p].state = Free <=> \E i \in 1 .. Len(free_stack') : free_stack'[i] = p
    <3>0. /\ pages[p].references =
                {s \in RequestSlot : \E i \in Positions(s) : requests[s].pages[i].index = p}
          /\ pages[p].state = Free <=> pages[p].references = {}
          /\ pages[p].state = Free <=> \E i \in 1 .. Len(free_stack) : free_stack[i] = p
      BY Zenon DEF KvInv, PageOwnership
    <3>1. ASSUME NEW s \in RequestSlot, s # own
          PROVE  (\E i \in Positions(s)' : requests'[s].pages[i].index = p)
                 <=> \E i \in Positions(s) : requests[s].pages[i].index = p
      BY Zenon, <1>5, <1>6, <3>1
    <3>2. (\E i \in Positions(own)' : requests'[own].pages[i].index = p)
          <=> \E i \in 1 .. k : chain[i].index = p
      BY Zenon, <1>5, <1>6
    <3>3. (\E i \in Positions(own) : requests[own].pages[i].index = p)
          <=> \/ \E i \in 1 .. k : chain[i].index = p
              \/ \E i \in (k + 1) .. l : chain[i].index = p
      <4>1. \A i : i \in 1 .. l <=> i \in 1 .. k \/ i \in (k + 1) .. l
        BY <1>1
      <4> QED
        BY Zenon, <1>6, <4>1 DEF chain
    <3>4. CASE \A i \in (k + 1) .. l : chain[i].index # p
      <4>1. pages'[p].state = pages[p].state /\ pages'[p].references = pages[p].references
        BY Zenon, <1>4, <3>4
      <4>2. pages[p].references =
               {s \in RequestSlot : \E i \in Positions(s)' : requests'[s].pages[i].index = p}
        BY Zenon, <3>0, <3>1, <3>2, <3>3, <3>4
      <4> QED
        BY Zenon, <1>2, <3>0, <3>4, <4>1, <4>2
    <3>5. CASE \E i \in (k + 1) .. l : chain[i].index = p
      <4>1. PICK i \in (k + 1) .. l : chain[i].index = p
        BY Zenon, <3>5
      <4>2. pages'[p].state = Free /\ pages'[p].references = {}
        BY Zenon, <1>3, <4>1
      <4>3. ~ \E j \in 1 .. k : chain[j].index = p
        BY Zenon, <1>9, <4>1
      <4>4. \A s \in RequestSlot : s # own =>
               ~ \E j \in Positions(s) : requests[s].pages[j].index = p
        BY Zenon, <1>7, <4>1
      <4>5. {s \in RequestSlot : \E j \in Positions(s)' : requests'[s].pages[j].index = p} = {}
        BY Zenon, <3>1, <3>2, <4>3, <4>4
      <4> QED
        BY Zenon, <1>2, <3>5, <4>2, <4>5
    <3> QED
      BY Zenon, <3>4, <3>5
  <2> QED
    BY Zenon, <1>2, <1>10, <2>1, <2>2, <2>3 DEF PageOwnership
<1>12. WriteExclusive'
  <2> SUFFICES ASSUME NEW s \in RequestSlot, NEW i \in Positions(s)'
               PROVE  LET page == pages'[requests'[s].pages[i].index] IN
                      \/ page.state = s /\ page.references = {s}
                      \/ /\ page.state = Sealed
                         /\ page.initialized_tokens = PageTokens
                         /\ i * PageTokens <= requests'[s].committed_tokens
    BY Zenon DEF WriteExclusive
  <2> DEFINE p == requests[s].pages[i].index
  <2>1. i \in Positions(s) /\ requests'[s].pages[i] = requests[s].pages[i] /\ p \in PageIndex
    <3>1. i \in Positions(s) /\ requests'[s].pages[i] = requests[s].pages[i]
      BY Zenon, <1>5, <1>6 DEF chain
    <3> QED
      BY Zenon, <1>0, <3>1, EntryTypes
  <2>2. \A j \in (k + 1) .. l : chain[j].index # p
    BY ZenonT(30), <1>6, <1>7, <1>9, <2>1 DEF chain
  <2>3. \/ pages[p].state = s /\ pages[p].references = {s}
        \/ /\ pages[p].state = Sealed
           /\ pages[p].initialized_tokens = PageTokens
           /\ i * PageTokens <= requests[s].committed_tokens
    BY Zenon, <2>1 DEF KvInv, WriteExclusive
  <2>4. pages[p].state = Sealed => ~(spare # 0 /\ chain[k].index = p)
    BY Zenon, <1>0, <1>1, <1>8
  <2>5. i * PageTokens <= requests[s].committed_tokens
        => i * PageTokens <= requests'[s].committed_tokens
    <3>1. i \in Int /\ Offset(i) \in Int /\ requests[s].committed_tokens \in Int
      <4>1. i \in Int
        BY DEF Positions
      <4>2. requests[s].committed_tokens \in Int
        BY <1>0, EntryTypes, KvPoolAssumption
      <4> QED
        BY Zenon, <4>1, <4>2, OffsetFacts
    <3>2. requests[s].committed_tokens <= requests'[s].committed_tokens
          /\ requests'[s].committed_tokens \in Int
      BY <1>1, <1>5, <3>1 DEF old
    <3>3. Offset(i) <= requests[s].committed_tokens => Offset(i) <= requests'[s].committed_tokens
      BY <3>1, <3>2
    <3> QED
      BY Zenon, <3>3 DEF Offset
  <2>6. /\ pages'[p].state = pages[p].state /\ pages'[p].references = pages[p].references
        /\ pages[p].state = Sealed => pages'[p].initialized_tokens = pages[p].initialized_tokens
    BY Zenon, <1>4, <2>1, <2>2, <2>4
  <2> HIDE DEF p
  <2>7. \/ pages'[p].state = s /\ pages'[p].references = {s}
        \/ /\ pages'[p].state = Sealed
           /\ pages'[p].initialized_tokens = PageTokens
           /\ i * PageTokens <= requests'[s].committed_tokens
    BY Zenon, <2>3, <2>5, <2>6
  <2> QED
    BY Zenon, <2>1, <2>7 DEF p
<1>13. Filling'
  <2> SUFFICES ASSUME NEW s \in RequestSlot PROVE FillingOf(s)'
    BY Zenon DEF Filling
  <2>1. CASE s = own
    <3>1. ASSUME NEW i \in 1 .. k
          PROVE  pages'[requests'[own].pages[i].index].initialized_tokens = Filled(i, total)
      <4>1. requests'[own].pages[i] = chain[i] /\ chain[i].index \in PageIndex
        BY Zenon, <1>5, <1>9
      <4>2. pages[chain[i].index].initialized_tokens = Filled(i, res)
        BY Zenon, <1>1, <1>6 DEF KvInv, Filling, FillingOf, res, chain
      <4>3. CASE spare # 0 /\ i = k
        BY Zenon, <1>1, <1>4, <1>9, <4>1, <4>3
      <4>4. CASE spare = 0 \/ i # k
        <5>1. ~(spare # 0 /\ chain[k].index = chain[i].index)
          BY <1>1, <1>9, <4>4
        <5> QED
          BY Zenon, <1>1, <1>4, <1>9, <4>1, <4>2, <4>4, <5>1
      <4> QED
        BY Zenon, <4>3, <4>4
    <3>2. total <= total
      BY <1>1
    <3> QED
      BY Zenon, <1>1, <1>5, <1>6, <2>1, <3>1, <3>2 DEF FillingOf
  <2>2. CASE s # own
    <3>1. requests'[s] = requests[s] /\ Positions(s)' = Positions(s)
      BY Zenon, <1>5, <1>6, <2>2
    <3>2. FillingOf(s)
      BY Zenon DEF KvInv, Filling
    <3>3. ASSUME NEW i \in Positions(s)
          PROVE  pages'[requests[s].pages[i].index].initialized_tokens
                   = pages[requests[s].pages[i].index].initialized_tokens
      <4>1. requests[s].pages[i].index \in PageIndex
        BY Zenon, <1>0, EntryTypes
      <4>2. \A j \in (k + 1) .. l : chain[j].index # requests[s].pages[i].index
        BY Zenon, <1>7, <2>2
      <4>3. ~(spare # 0 /\ chain[k].index = requests[s].pages[i].index)
        BY Zenon, <1>8, <2>2
      <4> QED
        BY Zenon, <1>4, <4>1, <4>2, <4>3
    <3> QED
      BY Zenon, <3>1, <3>2, <3>3 DEF FillingOf
  <2> QED
    BY Zenon, <2>1, <2>2
<1> QED
  BY Zenon, <1>11, <1>12, <1>13 DEF KvInv

-----------------------------------------------------------------------------
(* Release *)

\* What a release does: the request's own pages go to the free stack, and the
\* pages it shares lose its reference.
LEMMA ReleaseEffect ==
    ASSUME KvInv, NEW r \in RequestId, NEW reopen \in BOOLEAN, ReleaseInto(r, reopen)
    PROVE  LET own == r.slot
               chain == requests[own].pages
               sole == SolePositions(own, chain) IN
           /\ own \in RequestSlot
           /\ sole = {i \in Positions(own) : pages[chain[i].index].references = {own}}
           /\ free_stack' \in Seq(PageIndex) /\ Len(free_stack') <= PageCount
           /\ \A i, j \in 1 .. Len(free_stack') : free_stack'[i] = free_stack'[j] => i = j
           /\ \A p \in PageIndex :
                 (\E i \in 1 .. Len(free_stack') : free_stack'[i] = p)
                 <=> \/ \E i \in 1 .. Len(free_stack) : free_stack[i] = p
                     \/ \E i \in sole : chain[i].index = p
           /\ \A p \in PageIndex : (\E i \in sole : chain[i].index = p) =>
                 /\ pages'[p].generation = pages[p].generation + 1
                 /\ pages'[p].state = Free
                 /\ pages'[p].references = {}
           /\ \A p \in PageIndex : (\A i \in sole : chain[i].index # p) =>
                 /\ pages'[p].generation = pages[p].generation
                 /\ pages'[p].state = pages[p].state
                 /\ pages'[p].initialized_tokens = pages[p].initialized_tokens
                 /\ pages'[p].references = pages[p].references \ {own}
           /\ pages' \in [PageIndex -> PageSlot]
           /\ \A s \in RequestSlot : s # own => requests'[s] = requests[s]
           /\ requests'[own] = EmptyRequest(requests[own].generation + 1, reopen)
           /\ requests' \in [RequestSlot -> RequestEntry]
<1> DEFINE own == r.slot
           chain == requests[own].pages
           sole == SolePositions(own, chain)
           l == Len(chain)
           dropped(p) == \E i \in sole : chain[i].index = p
           named(p) == \E i \in 1 .. l : chain[i].index = p
<1>0. KvTypeOK /\ own \in RequestSlot
  BY Zenon DEF KvInv, PageOwnership, RequestId
<1>1. /\ chain \in Seq(PageId) /\ l \in Nat /\ Positions(own) = 1 .. l
      /\ \A i \in 1 .. l : chain[i].index \in PageIndex
      /\ \A i, j \in 1 .. l : chain[i].index = chain[j].index => i = j
      /\ \A i \in 1 .. l : own \in pages[chain[i].index].references
      /\ \A i \in 1 .. l : \A j \in 1 .. Len(free_stack) : free_stack[j] # chain[i].index
  <2>1. chain \in Seq(PageId) /\ l \in Nat /\ Positions(own) = 1 .. l
    BY Zenon, <1>0, EntryTypes DEF Positions
  <2>2. \A i \in Positions(own) : chain[i].index \in PageIndex
    BY Zenon, <1>0, EntryTypes
  <2>3. \A i, j \in Positions(own) : chain[i].index = chain[j].index => i = j
    BY <1>0 DEF KvInv, PageOwnership
  <2>4. \A i \in Positions(own) :
           /\ own \in pages[chain[i].index].references
           /\ \A j \in 1 .. Len(free_stack) : free_stack[j] # chain[i].index
    BY Zenon, <1>0, NamedPage
  <2> QED
    BY Zenon, <2>1, <2>2, <2>3, <2>4
<1>2. sole = {i \in Positions(own) : pages[chain[i].index].references = {own}}
  BY <1>1 DEF SolePositions, Shared
<1>3. sole \subseteq 1 .. l
  BY Zenon DEF SolePositions
<1>4. /\ CanDrop(chain, sole) /\ requests[own].generation # MaxGeneration
      /\ pages' = [p \in PageIndex |->
             IF dropped(p) THEN DroppedPage(p)
             ELSE IF named(p) THEN [pages[p] EXCEPT !.references = @ \ {own}]
             ELSE pages[p]]
      /\ \E k \in 0 .. l : \E pushed \in [1 .. k -> sole] :
             /\ \A i, j \in 1 .. k : i < j => pushed[i] > pushed[j]
             /\ \A i \in sole : \E j \in 1 .. k : pushed[j] = i
             /\ free_stack' = free_stack \o [i \in 1 .. k |-> chain[pushed[i]].index]
      /\ requests' = [requests EXCEPT
             ![own] = EmptyRequest(requests[own].generation + 1, reopen)]
  BY Zenon DEF ReleaseInto, CanRelease
<1> HIDE DEF own, chain, sole, l
<1>5. /\ free_stack' \in Seq(PageIndex) /\ Len(free_stack') <= PageCount
      /\ \A i, j \in 1 .. Len(free_stack') : free_stack'[i] = free_stack'[j] => i = j
      /\ \A p : (\E i \in 1 .. Len(free_stack') : free_stack'[i] = p)
                <=> \/ \E i \in 1 .. Len(free_stack) : free_stack[i] = p
                    \/ dropped(p)
  <2>0. PICK k \in 0 .. l : \E pushed \in [1 .. k -> sole] :
             /\ \A i, j \in 1 .. k : i < j => pushed[i] > pushed[j]
             /\ \A i \in sole : \E j \in 1 .. k : pushed[j] = i
             /\ free_stack' = free_stack \o [i \in 1 .. k |-> chain[pushed[i]].index]
    BY <1>4, Zenon
  <2>1. PICK pushed \in [1 .. k -> sole] :
             /\ \A i, j \in 1 .. k : i < j => pushed[i] > pushed[j]
             /\ \A i \in sole : \E j \in 1 .. k : pushed[j] = i
             /\ free_stack' = free_stack \o [i \in 1 .. k |-> chain[pushed[i]].index]
    BY Zenon, <2>0
  <2> DEFINE push == [i \in 1 .. k |-> chain[pushed[i]].index]
  <2>2. k \in Nat /\ \A i \in 1 .. k : pushed[i] \in sole /\ pushed[i] \in 1 .. l
    <3>1. k \in Nat
      BY <1>1
    <3>2. \A i \in 1 .. k : pushed[i] \in sole
      BY Zenon
    <3> QED
      BY Zenon, <1>3, <3>1, <3>2
  <2>3. push \in Seq(PageIndex) /\ Len(push) = k
    <3>1. push \in [1 .. k -> PageIndex]
      BY Zenon, <1>1, <2>2
    <3> HIDE DEF push
    <3> QED
      BY <2>2, <3>1
  <2>4. ASSUME NEW i \in 1 .. k, NEW j \in 1 .. k, push[i] = push[j]
        PROVE  i = j
    <3>1. pushed[i] = pushed[j]
      BY Zenon, <1>1, <2>2, <2>4
    <3>2. pushed[i] \in Int /\ pushed[j] \in Int
      BY <2>2
    <3>3. ~(i < j) /\ ~(j < i)
      BY <2>1, <3>1, <3>2
    <3> QED
      BY <3>3
  <2>5. ASSUME NEW p
        PROVE  (\E i \in 1 .. k : push[i] = p) <=> dropped(p)
    BY Zenon, <2>1, <2>2
  <2>6. free_stack \in Seq(PageIndex)
        /\ \A i, j \in 1 .. Len(free_stack) : free_stack[i] = free_stack[j] => i = j
    BY Zenon DEF KvInv, PageOwnership, KvTypeOK
  <2>7. \A i \in 1 .. Len(free_stack), j \in 1 .. k : free_stack[i] # push[j]
    BY Zenon, <1>1, <2>2
  <2>8. free_stack' = free_stack \o push
    BY Zenon, <2>1
  <2> HIDE DEF push, dropped
  <2>9. /\ \A i, j \in 1 .. Len(push) : push[i] = push[j] => i = j
        /\ \A i \in 1 .. Len(free_stack), j \in 1 .. Len(push) : free_stack[i] # push[j]
    BY Zenon, <2>3, <2>4, <2>7
  <2>10. LET all == free_stack \o push IN
        /\ all \in Seq(PageIndex) /\ Len(all) <= PageCount
        /\ \A i, j \in 1 .. Len(all) : all[i] = all[j] => i = j
        /\ \A p : (\E i \in 1 .. Len(all) : all[i] = p)
                  <=> \/ \E i \in 1 .. Len(free_stack) : free_stack[i] = p
                      \/ \E i \in 1 .. Len(push) : push[i] = p
    BY Zenon, <2>3, <2>6, <2>9, StackPush
  <2> QED
    BY Zenon, <2>3, <2>5, <2>8, <2>10
<1>6. ASSUME NEW p \in PageIndex, dropped(p)
      PROVE  /\ pages'[p].generation = pages[p].generation + 1
             /\ pages'[p].state = Free
             /\ pages'[p].references = {}
             /\ pages'[p] \in PageSlot
  <2>1. pages'[p] = FreePage(pages[p].generation + 1)
    BY Zenon, <1>4, <1>6 DEF DroppedPage
  <2>2. pages[p].generation # MaxPageGeneration
    BY Zenon, <1>4, <1>6 DEF CanDrop
  <2>3. pages[p].generation + 1 \in 1 .. MaxPageGeneration
    BY <1>0, <2>2, PageTypes, KvPoolAssumption
  <2> QED
    BY <2>1, <2>3, KvPoolAssumption DEF FreePage, PageSlot
<1>7. ASSUME NEW p \in PageIndex, ~dropped(p)
      PROVE  /\ pages'[p].generation = pages[p].generation
             /\ pages'[p].state = pages[p].state
             /\ pages'[p].initialized_tokens = pages[p].initialized_tokens
             /\ pages'[p].references = pages[p].references \ {own}
             /\ pages'[p] \in PageSlot
  <2>1. pages[p] \in PageSlot
    BY Zenon, <1>0, PageTypes
  <2>2. pages'[p] = IF named(p) THEN [pages[p] EXCEPT !.references = @ \ {own}] ELSE pages[p]
    BY Zenon, <1>4, <1>7
  <2>3. ~named(p) => pages[p].references \ {own} = pages[p].references
    <3>1. pages[p].references =
             {s \in RequestSlot : \E i \in Positions(s) : requests[s].pages[i].index = p}
      BY Zenon DEF KvInv, PageOwnership
    <3>2. ~named(p) => own \notin pages[p].references
      BY Zenon, <1>1, <3>1 DEF chain
    <3> QED
      BY Zenon, <3>2
  <2> HIDE DEF named
  <2> QED
    BY Zenon, <2>1, <2>2, <2>3 DEF PageSlot
<1>8. pages' \in [PageIndex -> PageSlot]
  <2>1. pages' = [p \in PageIndex |-> pages'[p]]
    BY Zenon, <1>4
  <2> HIDE DEF dropped
  <2> QED
    BY Zenon, <1>6, <1>7, <2>1
<1>9. /\ \A s \in RequestSlot : s # own => requests'[s] = requests[s]
      /\ requests'[own] = EmptyRequest(requests[own].generation + 1, reopen)
      /\ requests' \in [RequestSlot -> RequestEntry]
  <2>1. requests[own].generation + 1 \in Generation
    BY <1>0, <1>4, EntryTypes, IdentityAssumption DEF Generation
  <2>2. EmptyRequest(requests[own].generation + 1, reopen) \in RequestEntry
    BY <2>1, KvPoolAssumption DEF EmptyRequest, RequestEntry
  <2>3. requests \in [RequestSlot -> RequestEntry]
    BY Zenon, <1>0 DEF KvTypeOK
  <2> QED
    BY Zenon, <1>0, <1>4, <2>2, <2>3
<1> QED
  <2>1. \A p \in PageIndex : (\E i \in sole : chain[i].index = p) =>
                 /\ pages'[p].generation = pages[p].generation + 1
                 /\ pages'[p].state = Free
                 /\ pages'[p].references = {}
    BY Zenon, <1>6
  <2>2. \A p \in PageIndex : (\A i \in sole : chain[i].index # p) =>
                 /\ pages'[p].generation = pages[p].generation
                 /\ pages'[p].state = pages[p].state
                 /\ pages'[p].initialized_tokens = pages[p].initialized_tokens
                 /\ pages'[p].references = pages[p].references \ {own}
    BY Zenon, <1>7
  <2> QED
    BY Zenon, <1>0, <1>2, <1>5, <1>8, <1>9, <2>1, <2>2 DEF own, chain, sole

LEMMA ReleaseInv ==
    ASSUME KvInv, NEW r \in RequestId, NEW reopen \in BOOLEAN, ReleaseInto(r, reopen)
    PROVE  KvInv'
<1> DEFINE own == r.slot
           chain == requests[own].pages
           sole == SolePositions(own, chain)
<1>0. KvTypeOK /\ Free \notin RequestSlot /\ Sealed \notin RequestSlot /\ Free # Sealed
  BY IdentityAssumption DEF KvInv, PageOwnership, RequestSlot, Free, Sealed
<1>1. /\ own \in RequestSlot
      /\ sole = {i \in Positions(own) : pages[chain[i].index].references = {own}}
      /\ free_stack' \in Seq(PageIndex) /\ Len(free_stack') <= PageCount
      /\ \A i, j \in 1 .. Len(free_stack') : free_stack'[i] = free_stack'[j] => i = j
      /\ \A p \in PageIndex :
            (\E i \in 1 .. Len(free_stack') : free_stack'[i] = p)
            <=> \/ \E i \in 1 .. Len(free_stack) : free_stack[i] = p
                \/ \E i \in sole : chain[i].index = p
  BY ReleaseEffect, Zenon
<1>2. /\ \A p \in PageIndex : (\E i \in sole : chain[i].index = p) =>
            /\ pages'[p].generation = pages[p].generation + 1
            /\ pages'[p].state = Free
            /\ pages'[p].references = {}
      /\ \A p \in PageIndex : (\A i \in sole : chain[i].index # p) =>
            /\ pages'[p].generation = pages[p].generation
            /\ pages'[p].state = pages[p].state
            /\ pages'[p].initialized_tokens = pages[p].initialized_tokens
            /\ pages'[p].references = pages[p].references \ {own}
  BY ReleaseEffect
<1>3. /\ pages' \in [PageIndex -> PageSlot]
      /\ \A s \in RequestSlot : s # own => requests'[s] = requests[s]
      /\ requests'[own] = EmptyRequest(requests[own].generation + 1, reopen)
      /\ requests' \in [RequestSlot -> RequestEntry]
  BY ReleaseEffect, Zenon
<1>4. /\ requests'[own].pages = <<>> /\ requests'[own].committed_tokens = 0
      /\ requests'[own].resident_tokens = 0 /\ Positions(own)' = {}
      /\ \A s \in RequestSlot : s # own => Positions(s)' = Positions(s)
  BY <1>3 DEF EmptyRequest, Positions
<1> HIDE DEF own, chain, sole
\* What another request names is not dropped.
<1>5. \A s \in RequestSlot : s # own =>
         \A i \in Positions(s) :
            /\ requests[s].pages[i].index \in PageIndex
            /\ \A j \in sole : chain[j].index # requests[s].pages[i].index
  <2> SUFFICES ASSUME NEW s \in RequestSlot, s # own, NEW i \in Positions(s)
               PROVE  /\ requests[s].pages[i].index \in PageIndex
                      /\ \A j \in sole : chain[j].index # requests[s].pages[i].index
    BY Zenon
  <2>1. /\ requests[s].pages[i].index \in PageIndex
        /\ s \in pages[requests[s].pages[i].index].references
    BY Zenon, NamedPage
  <2> QED
    BY <1>1, <2>1
<1>6. KvTypeOK'
  <2>1. \A s \in RequestSlot : Len(requests'[s].pages) <= MaxPagesPerRequest
    BY <1>0, <1>3, <1>4, KvPoolAssumption DEF KvTypeOK
  <2> QED
    BY Zenon, <1>1, <1>3, <2>1 DEF KvTypeOK
<1>7. PageOwnership'
  <2>1. ASSUME NEW s \in RequestSlot PROVE ~requests'[s].live => requests'[s].pages = <<>>
    BY Zenon, <1>3, <1>4 DEF KvInv, PageOwnership
  <2>2. ASSUME NEW s \in RequestSlot, NEW i \in Positions(s)'
        PROVE  /\ pages'[requests'[s].pages[i].index].generation = requests'[s].pages[i].generation
               /\ \A j \in Positions(s)' :
                     requests'[s].pages[j].index = requests'[s].pages[i].index => i = j
    <3>1. /\ s # own /\ i \in Positions(s)
          /\ requests'[s] = requests[s] /\ Positions(s)' = Positions(s)
      BY Zenon, <1>3, <1>4
    <3>2. pages'[requests[s].pages[i].index].generation
             = pages[requests[s].pages[i].index].generation
      BY Zenon, <1>2, <1>5, <3>1
    <3> QED
      BY <3>1, <3>2 DEF KvInv, PageOwnership
  <2>3. ASSUME NEW p \in PageIndex
        PROVE  /\ pages'[p].references =
                     {s \in RequestSlot : \E i \in Positions(s)' : requests'[s].pages[i].index = p}
               /\ pages'[p].state = Free <=> pages'[p].references = {}
               /\ pages'[p].state = Free <=> \E i \in 1 .. Len(free_stack') : free_stack'[i] = p
    <3>0. /\ pages[p].references =
                {s \in RequestSlot : \E i \in Positions(s) : requests[s].pages[i].index = p}
          /\ pages[p].state = Free <=> pages[p].references = {}
          /\ pages[p].state = Free <=> \E i \in 1 .. Len(free_stack) : free_stack[i] = p
      BY Zenon DEF KvInv, PageOwnership
    <3>1. pages[p].references \ {own} =
             {s \in RequestSlot : \E i \in Positions(s)' : requests'[s].pages[i].index = p}
      <4>1. ASSUME NEW s \in RequestSlot
            PROVE  (\E i \in Positions(s)' : requests'[s].pages[i].index = p)
                   <=> s # own /\ s \in pages[p].references
        BY Zenon, <1>3, <1>4, <3>0
      <4> QED
        BY Zenon, <3>0, <4>1
    <3>2. CASE \E i \in sole : chain[i].index = p
      <4>1. PICK i \in sole : chain[i].index = p
        BY Zenon, <3>2
      <4>2. pages'[p].state = Free /\ pages'[p].references = {} /\ pages[p].references = {own}
        BY Zenon, <1>1, <1>2, <4>1
      <4>3. \E j \in 1 .. Len(free_stack') : free_stack'[j] = p
        BY Zenon, <1>1, <4>1
      <4> QED
        BY Zenon, <3>1, <4>2, <4>3
    <3>3. CASE \A i \in sole : chain[i].index # p
      <4>1. /\ pages'[p].state = pages[p].state
            /\ pages'[p].references = pages[p].references \ {own}
        BY Zenon, <1>2, <3>3
      <4>2. pages[p].references \ {own} = {} => pages[p].references = {}
        <5> SUFFICES ASSUME pages[p].references = {own} PROVE FALSE
          BY Zenon
        <5>1. PICK i \in Positions(own) : chain[i].index = p
          BY <1>1, <3>0 DEF chain
        <5> QED
          BY Zenon, <1>1, <3>3, <5>1
      <4>3. (\E i \in 1 .. Len(free_stack') : free_stack'[i] = p)
            <=> \E i \in 1 .. Len(free_stack) : free_stack[i] = p
        BY Zenon, <1>1, <3>3
      <4> QED
        BY Zenon, <3>0, <3>1, <4>1, <4>2, <4>3
    <3> QED
      BY Zenon, <3>2, <3>3
  <2> QED
    BY Zenon, <1>1, <1>6, <2>1, <2>2, <2>3 DEF PageOwnership
<1>8. WriteExclusive'
  <2> SUFFICES ASSUME NEW s \in RequestSlot, NEW i \in Positions(s)'
               PROVE  LET page == pages'[requests'[s].pages[i].index] IN
                      \/ page.state = s /\ page.references = {s}
                      \/ /\ page.state = Sealed
                         /\ page.initialized_tokens = PageTokens
                         /\ i * PageTokens <= requests'[s].committed_tokens
    BY Zenon DEF WriteExclusive
  <2> DEFINE p == requests[s].pages[i].index
  <2>1. s # own /\ i \in Positions(s) /\ requests'[s] = requests[s]
    BY Zenon, <1>3, <1>4
  <2>2. /\ pages'[p].state = pages[p].state
        /\ pages'[p].initialized_tokens = pages[p].initialized_tokens
        /\ pages'[p].references = pages[p].references \ {own}
    BY Zenon, <1>2, <1>5, <2>1
  <2>3. \/ pages[p].state = s /\ pages[p].references = {s}
        \/ /\ pages[p].state = Sealed
           /\ pages[p].initialized_tokens = PageTokens
           /\ i * PageTokens <= requests[s].committed_tokens
    BY Zenon, <2>1 DEF KvInv, WriteExclusive
  <2> HIDE DEF p
  <2>4. \/ pages'[p].state = s /\ pages'[p].references = {s}
        \/ /\ pages'[p].state = Sealed
           /\ pages'[p].initialized_tokens = PageTokens
           /\ i * PageTokens <= requests[s].committed_tokens
    BY Zenon, <2>1, <2>2, <2>3
  <2> QED
    BY Zenon, <2>1, <2>4 DEF p
<1>9. Filling'
  <2> SUFFICES ASSUME NEW s \in RequestSlot PROVE FillingOf(s)'
    BY Zenon DEF Filling
  <2>1. CASE s = own
    <3>1. Offset(0) = 0 /\ Len(<<>>) = 0
      BY Zenon, OffsetFacts
    <3> QED
      BY <1>4, <2>1, <3>1 DEF FillingOf
  <2>2. CASE s # own
    <3>1. requests'[s] = requests[s] /\ Positions(s)' = Positions(s)
      BY Zenon, <1>3, <1>4, <2>2
    <3>2. FillingOf(s)
      BY Zenon DEF KvInv, Filling
    <3>3. \A i \in Positions(s) : pages'[requests[s].pages[i].index].initialized_tokens
                                  = pages[requests[s].pages[i].index].initialized_tokens
      BY Zenon, <1>2, <1>5, <2>2
    <3> QED
      BY Zenon, <3>1, <3>2, <3>3 DEF FillingOf
  <2> QED
    BY Zenon, <2>1, <2>2
<1> QED
  BY Zenon, <1>7, <1>8, <1>9 DEF KvInv

-----------------------------------------------------------------------------
(* The invariant of the pool *)

LEMMA KvNextInv == KvInv /\ [KvNext]_kvVars => KvInv'
<1> SUFFICES ASSUME KvInv, [KvNext]_kvVars PROVE KvInv'
  BY Zenon
<1>1. CASE UNCHANGED kvVars
  <2>1. pages' = pages /\ free_stack' = free_stack /\ requests' = requests
    BY Zenon, <1>1 DEF kvVars
  <2>2. PageOwnership'
    <3>1. KvTypeOK' /\ \A s \in RequestSlot : Positions(s)' = Positions(s)
      BY Zenon, <2>1 DEF KvInv, PageOwnership, KvTypeOK, Positions
    <3> QED
      BY <2>1, <3>1 DEF KvInv, PageOwnership
  <2>3. WriteExclusive'
    BY <2>1, Zenon DEF KvInv, WriteExclusive, Positions
  <2>4. Filling'
    BY <2>1, Zenon DEF KvInv, Filling, FillingOf, Positions
  <2> QED
    BY Zenon, <2>2, <2>3, <2>4 DEF KvInv
<1>2. ASSUME NEW r \in RequestId, CreateRequest(r) PROVE KvInv'
  BY Zenon, <1>2, CreateInv
<1>3. ASSUME NEW r \in RequestId, ReleaseRequest(r) \/ ReleaseThenCreate(r) PROVE KvInv'
  BY Zenon, <1>3, ReleaseInv DEF ReleaseRequest, ReleaseThenCreate
<1>4. ASSUME NEW r \in RequestId, NEW n \in 1 .. MaxContext, AppendTentative(r, n) PROVE KvInv'
  BY Zenon, <1>4, AppendInv
<1>5. ASSUME NEW r \in RequestId, NEW n \in 0 .. MaxContext, FinalizeTentative(r, n) PROVE KvInv'
  BY Zenon, <1>5, FinalizeInv
<1>6. ASSUME NEW source \in RequestId, NEW target \in RequestId, NEW n \in 1 .. MaxContext,
             ShareCommittedPrefix(source, target, n)
      PROVE  KvInv'
  BY Zenon, <1>6, ShareInv
<1> QED
  BY Zenon, <1>1, <1>2, <1>3, <1>4, <1>5, <1>6 DEF KvNext

\* The pool keeps its inductive invariant, whatever sequence of calls is made.
THEOREM KvInvariant == KvSpec => []KvInv
<1>1. KvInit => KvInv
  BY Zenon, KvInitInv
<1>2. KvInv /\ [KvNext]_kvVars => KvInv'
  BY Zenon, KvNextInv
<1> QED
  BY <1>1, <1>2, PTL DEF KvSpec

\* cache.rs neither leaks a page nor hands out one that is in use, and its page
\* tables, reference sets and free stack agree in every reachable state.
THEOREM KvOwnership == KvSpec => []PageOwnership
<1>1. KvInv => PageOwnership
  BY Zenon DEF KvInv
<1> QED
  BY <1>1, KvInvariant, PTL

\* validate_read's comparison with resident_tokens is exact in every reachable
\* state: it admits the initialized tokens and no others.
THEOREM KvReads == KvSpec => []ReadsInitialized
BY FillingReads, KvInvariant, PTL

\* A writable page has one owner and no other reader, and a sealed page is full
\* and committed by every request that references it.
THEOREM KvExclusive == KvSpec => []WriteExclusive
<1>1. KvInv => WriteExclusive
  BY Zenon DEF KvInv
<1> QED
  BY <1>1, KvInvariant, PTL

-----------------------------------------------------------------------------
(* What a step may never do *)

\* PagesFor is the least number of pages.
LEMMA PagesForLeast ==
    ASSUME NEW n \in Nat, NEW j \in Nat, n <= Offset(j)
    PROVE  PagesFor(n) <= j
<1> DEFINE k == PagesFor(n)
<1>0. PageTokens \in Int /\ PageTokens > 0
  BY KvPoolAssumption
<1>1. k \in Nat /\ Offset(k) < n + PageTokens
  BY Zenon, PagesForFacts
<1> HIDE DEF k
<1>2. /\ Offset(k) \in Int /\ Offset(j) \in Int
      /\ j < k <=> Offset(j) + PageTokens <= Offset(k)
  BY <1>1, OffsetFacts
<1>3. ~(j < k)
  BY <1>0, <1>1, <1>2
<1> QED
  BY <1>1, <1>3 DEF k

\* The committed prefix lies within the chain.
LEMMA CommittedChain ==
    ASSUME KvInv, NEW s \in RequestSlot, NEW i \in 1 .. PagesFor(requests[s].committed_tokens)
    PROVE  /\ i \in Positions(s)
           /\ requests[s].pages[i].index \in PageIndex
           /\ pages[requests[s].pages[i].index].generation = requests[s].pages[i].generation
<1> DEFINE old == requests[s].committed_tokens
           l == Len(requests[s].pages)
<1>0. KvTypeOK
  BY Zenon DEF KvInv, PageOwnership
<1>1. old \in Nat /\ l \in Nat /\ requests[s].resident_tokens \in Nat
  BY <1>0, EntryTypes, KvPoolAssumption
<1>2. old <= requests[s].resident_tokens /\ requests[s].resident_tokens <= Offset(l)
  BY Zenon DEF KvInv, Filling, FillingOf
<1>3. Offset(l) \in Int
  <2> HIDE DEF l
  <2> QED
    BY <1>1, OffsetFacts
<1>4. old <= Offset(l)
  BY <1>1, <1>2, <1>3
<1> HIDE DEF old, l
<1>5. PagesFor(old) <= l /\ PagesFor(old) \in Nat
  BY Zenon, <1>1, <1>4, PagesForLeast, PagesForFacts
<1>6. i \in 1 .. l
  BY <1>1, <1>5 DEF old
<1>7. i \in Positions(s)
  BY Zenon, <1>6 DEF Positions, l
<1> QED
  BY Zenon, <1>7, NamedPage

\* A request that a step leaves alone keeps its committed prefix if the step
\* keeps the generations of the pages its chain names.
LEMMA CommittedKept ==
    ASSUME KvInv, NEW s \in RequestSlot,
           requests'[s].committed_tokens = requests[s].committed_tokens,
           \A i \in Positions(s) :
              /\ requests'[s].pages[i] = requests[s].pages[i]
              /\ pages'[requests[s].pages[i].index].generation
                    = pages[requests[s].pages[i].index].generation
    PROVE  /\ requests'[s].committed_tokens >= requests[s].committed_tokens
           /\ \A i \in 1 .. PagesFor(requests[s].committed_tokens) :
                /\ requests'[s].pages[i] = requests[s].pages[i]
                /\ pages'[requests[s].pages[i].index].generation
                      = requests[s].pages[i].generation
<1>1. requests[s].committed_tokens \in Nat
  BY EntryTypes DEF KvInv, PageOwnership
<1>2. requests'[s].committed_tokens >= requests[s].committed_tokens
  BY <1>1
<1> QED
  BY Zenon, <1>2, CommittedChain

LEMMA AppendStep ==
    ASSUME KvInv, NEW r \in RequestId, NEW n \in 1 .. MaxContext, AppendTentative(r, n)
    PROVE  CommittedStep /\ PageStep
<1> DEFINE own == r.slot
           kept == KeptTokens(r, n)
           fresh == FreshPages(r, n)
           taken == TakenPages(r, n)
           tail == TailPage(requests[own].pages).index
<1>0. KvTypeOK /\ own \in RequestSlot /\ Free \notin RequestSlot /\ Sealed \notin RequestSlot
      /\ Free # Sealed
  BY IdentityAssumption DEF KvInv, PageOwnership, RequestId, RequestSlot, Free, Sealed
<1>1. /\ \A p \in PageIndex : pages'[p].generation = pages[p].generation
      /\ \A i \in 1 .. fresh :
            /\ pages'[taken[i]].state = own
            /\ pages'[taken[i]].references = {own}
            /\ pages'[taken[i]].initialized_tokens = FreshTokens(r, n, i)
      /\ \A p \in PageIndex : (\A i \in 1 .. fresh : taken[i] # p) =>
            /\ pages'[p].state = pages[p].state
            /\ pages'[p].references = pages[p].references
            /\ kept > 0 /\ p = tail =>
                  pages'[p].initialized_tokens = pages[p].initialized_tokens + kept
            /\ ~(kept > 0 /\ p = tail) =>
                  pages'[p].initialized_tokens = pages[p].initialized_tokens
  BY Zenon, AppendPages
<1>2. /\ \A s \in RequestSlot : s # own => requests'[s] = requests[s]
      /\ requests'[own].committed_tokens = requests[own].committed_tokens
  BY Zenon, AppendPages
<1>3. \A i \in Positions(own) : requests'[own].pages[i] = requests[own].pages[i]
  BY Zenon, AppendChain DEF Positions
<1>4. /\ AppendPoint(Len(requests[own].pages), requests[own].resident_tokens, n, kept)
      /\ \A i \in 1 .. fresh : pages[taken[i]].state = Free
  BY Zenon, AppendStack
<1>5. kept > 0 => pages[tail].state = own
  <2> SUFFICES ASSUME kept > 0 PROVE pages[tail].state = own
    BY Zenon
  <2>1. TailCapacity(requests[own].pages) # 0
    BY <1>0, <1>4, KvPoolAssumption DEF KeptTokens, MinOf
  <2> QED
    BY Zenon, <1>0, <2>1, TailRoom
<1> HIDE DEF own, kept, fresh, taken, tail
<1>6. CommittedStep
  <2> SUFFICES ASSUME NEW s \in RequestSlot
               PROVE  /\ requests'[s].committed_tokens >= requests[s].committed_tokens
                      /\ \A i \in 1 .. PagesFor(requests[s].committed_tokens) :
                           /\ requests'[s].pages[i] = requests[s].pages[i]
                           /\ pages'[requests[s].pages[i].index].generation
                                 = requests[s].pages[i].generation
    BY Zenon DEF CommittedStep
  <2>1. requests'[s].committed_tokens = requests[s].committed_tokens
    BY Zenon, <1>2
  <2>2. \A i \in Positions(s) : requests'[s].pages[i] = requests[s].pages[i]
    BY Zenon, <1>2, <1>3
  <2>3. \A i \in Positions(s) : pages'[requests[s].pages[i].index].generation
                                   = pages[requests[s].pages[i].index].generation
    BY Zenon, <1>0, <1>1, EntryTypes
  <2> QED
    BY Zenon, <2>1, <2>2, <2>3, CommittedKept
<1>7. PageStep
  <2> SUFFICES ASSUME NEW p \in PageIndex
               PROVE  /\ pages'[p].generation = pages[p].generation
                      /\ pages[p].state = Free \/ pages'[p].state # Free
                      /\ pages[p].state = Sealed =>
                            /\ pages'[p].state = Sealed
                            /\ pages'[p].initialized_tokens = pages[p].initialized_tokens
    BY Zenon DEF PageStep
  <2>1. CASE \E i \in 1 .. fresh : taken[i] = p
    BY Zenon, <1>0, <1>1, <1>4, <2>1
  <2>2. CASE \A i \in 1 .. fresh : taken[i] # p
    <3>1. pages'[p].state = pages[p].state /\ pages'[p].generation = pages[p].generation
      BY Zenon, <1>1, <2>2
    <3>2. pages[p].state = Sealed => ~(kept > 0 /\ p = tail)
      BY Zenon, <1>0, <1>5
    <3> QED
      BY Zenon, <1>1, <2>2, <3>1, <3>2
  <2> QED
    BY Zenon, <2>1, <2>2
<1> QED
  BY Zenon, <1>6, <1>7

LEMMA ShareStep ==
    ASSUME KvInv, NEW source \in RequestId, NEW target \in RequestId,
           NEW n \in 1 .. MaxContext, ShareCommittedPrefix(source, target, n)
    PROVE  CommittedStep /\ PageStep
<1> DEFINE count == n \div PageTokens
           from == source.slot
           to == target.slot
           chain == requests[from].pages
<1>0. KvTypeOK /\ Free # Sealed
  BY DEF KvInv, PageOwnership, Free, Sealed
<1>1. /\ from \in RequestSlot /\ to \in RequestSlot
      /\ Positions(to) = {}
      /\ \A i \in 1 .. count : i \in Positions(from)
  BY ShareEffect, Zenon
<1>2. \A p \in PageIndex :
         /\ pages'[p].generation = pages[p].generation
         /\ pages'[p].initialized_tokens = pages[p].initialized_tokens
         /\ (\E i \in 1 .. count : chain[i].index = p) => pages'[p].state = Sealed
         /\ (\A i \in 1 .. count : chain[i].index # p) => pages'[p] = pages[p]
  BY ShareEffect
<1>3. /\ \A s \in RequestSlot : s # to => requests'[s] = requests[s]
      /\ requests'[to].committed_tokens = n
  BY ShareEffect
<1>4. requests[to].committed_tokens = 0
  <2>1. /\ requests[to].committed_tokens <= requests[to].resident_tokens
        /\ requests[to].resident_tokens = 0
    BY Zenon, <1>1 DEF KvInv, Filling, FillingOf, ShareCommittedPrefix, Shareable
  <2>2. requests[to].committed_tokens \in Nat
    BY <1>0, <1>1, EntryTypes, KvPoolAssumption
  <2> QED
    BY <2>1, <2>2
<1> HIDE DEF count, from, to, chain
<1>5. CommittedStep
  <2> SUFFICES ASSUME NEW s \in RequestSlot
               PROVE  /\ requests'[s].committed_tokens >= requests[s].committed_tokens
                      /\ \A i \in 1 .. PagesFor(requests[s].committed_tokens) :
                           /\ requests'[s].pages[i] = requests[s].pages[i]
                           /\ pages'[requests[s].pages[i].index].generation
                                 = requests[s].pages[i].generation
    BY Zenon DEF CommittedStep
  <2>1. CASE s = to
    <3>1. requests'[s].committed_tokens >= requests[s].committed_tokens
      BY <1>3, <1>4, <2>1, KvPoolAssumption
    <3>2. PagesFor(0) = 0
      BY Zenon, PagesForFacts
    <3>3. 1 .. PagesFor(requests[s].committed_tokens) = {}
      BY <1>4, <2>1, <3>2
    <3> QED
      BY Zenon, <3>1, <3>3
  <2>2. CASE s # to
    <3>1. requests'[s] = requests[s]
      BY Zenon, <1>3, <2>2
    <3>2. \A i \in Positions(s) : pages'[requests[s].pages[i].index].generation
                                     = pages[requests[s].pages[i].index].generation
      BY Zenon, <1>0, <1>2, EntryTypes
    <3> QED
      BY Zenon, <3>1, <3>2, CommittedKept
  <2> QED
    BY Zenon, <2>1, <2>2
<1>6. PageStep
  <2> SUFFICES ASSUME NEW p \in PageIndex
               PROVE  /\ pages'[p].generation = pages[p].generation
                      /\ pages[p].state = Free \/ pages'[p].state # Free
                      /\ pages[p].state = Sealed =>
                            /\ pages'[p].state = Sealed
                            /\ pages'[p].initialized_tokens = pages[p].initialized_tokens
    BY Zenon DEF PageStep
  <2> QED
    BY Zenon, <1>0, <1>2
<1> QED
  BY Zenon, <1>5, <1>6

LEMMA FinalizeStep ==
    ASSUME KvInv, NEW r \in RequestId, NEW accepted \in 0 .. MaxContext,
           FinalizeTentative(r, accepted)
    PROVE  CommittedStep /\ PageStep
<1> DEFINE own == r.slot
           chain == requests[own].pages
           l == Len(chain)
           old == requests[own].committed_tokens
           total == KeptAfter(r, accepted)
           k == RetainedPages(r, accepted)
           spare == total % PageTokens
<1>0. KvTypeOK /\ Free # Sealed /\ Sealed \notin RequestSlot /\ Free \notin RequestSlot
  BY IdentityAssumption DEF KvInv, PageOwnership, RequestSlot, Free, Sealed
<1>1. /\ own \in RequestSlot /\ l \in Nat /\ k \in 0 .. l /\ total \in Nat
      /\ old <= total
      /\ spare # 0 => k \in 1 .. l
      /\ \A i \in (k + 1) .. l : i \in Positions(own) /\ old < Offset(i)
      /\ spare # 0 => old < Offset(k)
  BY FinalizeChain, Zenon
<1>2. \A i \in (k + 1) .. l :
         LET p == chain[i].index IN
         /\ pages'[p].generation = pages[p].generation + 1
         /\ pages'[p].generation \in 1 .. MaxPageGeneration
         /\ pages'[p].state = Free
         /\ pages'[p].initialized_tokens = 0
         /\ pages'[p].references = {}
  BY FinalizePages, Zenon
<1>3. \A p \in PageIndex : (\A i \in (k + 1) .. l : chain[i].index # p) =>
         /\ pages'[p].generation = pages[p].generation
         /\ pages'[p].state = pages[p].state
         /\ pages'[p].references = pages[p].references
         /\ spare # 0 /\ chain[k].index = p => pages'[p].initialized_tokens = spare
         /\ ~(spare # 0 /\ chain[k].index = p) =>
               pages'[p].initialized_tokens = pages[p].initialized_tokens
  BY Zenon, FinalizePages
<1>4. /\ \A s \in RequestSlot : s # own => requests'[s] = requests[s]
      /\ requests'[own].committed_tokens = total
      /\ \A i \in 1 .. k : requests'[own].pages[i] = chain[i]
  BY Zenon, FinalizeRequests
<1>5. \A i \in (k + 1) .. l :
         /\ chain[i].index \in PageIndex
         /\ pages[chain[i].index].state = own
         /\ \A s \in RequestSlot : s # own =>
               \A j \in Positions(s) : requests[s].pages[j].index # chain[i].index
  BY ZenonT(30), <1>1, TentativePage
<1>6. spare # 0 => pages[chain[k].index].state = own
  <2> SUFFICES ASSUME spare # 0 PROVE pages[chain[k].index].state = own
    BY Zenon
  <2>1. k \in Positions(own) /\ old < Offset(k)
    BY Zenon, <1>1 DEF Positions
  <2> QED
    BY Zenon, <1>1, <2>1, TentativePage
<1>7. \A i, j \in Positions(own) : chain[i].index = chain[j].index => i = j
  BY <1>1 DEF KvInv, PageOwnership
<1>8. PagesFor(old) \in Nat /\ PagesFor(old) <= k /\ old \in Nat
  <2>1. old \in Nat
    BY <1>0, <1>1, EntryTypes, KvPoolAssumption
  <2>2. total <= Offset(k) /\ k \in Nat
    <3>1. total <= Offset(k)
      BY Zenon, FinalizeChain
    <3> QED
      BY <1>1, <3>1
  <2>3. Offset(k) \in Int /\ total \in Int
    <3> HIDE DEF k
    <3> QED
      BY <1>1, OffsetFacts
  <2> HIDE DEF k, old, total
  <2>4. old <= Offset(k)
    BY <1>1, <2>1, <2>2, <2>3
  <2> QED
    BY Zenon, <2>1, <2>2, <2>4, PagesForLeast, PagesForFacts
<1> HIDE DEF own, chain, l, old, total, k, spare
<1>9. CommittedStep
  <2> SUFFICES ASSUME NEW s \in RequestSlot
               PROVE  /\ requests'[s].committed_tokens >= requests[s].committed_tokens
                      /\ \A i \in 1 .. PagesFor(requests[s].committed_tokens) :
                           /\ requests'[s].pages[i] = requests[s].pages[i]
                           /\ pages'[requests[s].pages[i].index].generation
                                 = requests[s].pages[i].generation
    BY Zenon DEF CommittedStep
  <2>1. CASE s = own
    <3>1. requests'[s].committed_tokens >= requests[s].committed_tokens
      BY Zenon, <1>1, <1>4, <1>8, <2>1 DEF old
    <3>2. ASSUME NEW i \in 1 .. PagesFor(old)
          PROVE  /\ requests'[own].pages[i] = chain[i]
                 /\ pages'[chain[i].index].generation = chain[i].generation
      <4>1. i \in 1 .. k /\ ~(i \in (k + 1) .. l)
        BY <1>1, <1>8
      <4>2. /\ i \in Positions(own) /\ chain[i].index \in PageIndex
            /\ pages[chain[i].index].generation = chain[i].generation
        BY Zenon, <1>1, CommittedChain DEF old, chain
      <4>3. \A j \in (k + 1) .. l : chain[j].index # chain[i].index
        BY Zenon, <1>1, <1>7, <4>1, <4>2
      <4> QED
        BY Zenon, <1>3, <1>4, <4>1, <4>2, <4>3
    <3> QED
      BY Zenon, <2>1, <3>1, <3>2 DEF old, chain
  <2>2. CASE s # own
    <3>1. requests'[s] = requests[s]
      BY Zenon, <1>4, <2>2
    <3>2. \A i \in Positions(s) : pages'[requests[s].pages[i].index].generation
                                     = pages[requests[s].pages[i].index].generation
      BY Zenon, <1>0, <1>3, <1>5, <2>2, EntryTypes
    <3> QED
      BY Zenon, <3>1, <3>2, CommittedKept
  <2> QED
    BY Zenon, <2>1, <2>2
<1>10. PageStep
  <2> SUFFICES ASSUME NEW p \in PageIndex
               PROVE  \/ /\ pages'[p].generation = pages[p].generation + 1
                         /\ pages'[p].state = Free /\ pages[p].state # Free
                      \/ /\ pages'[p].generation = pages[p].generation
                         /\ pages[p].state = Free \/ pages'[p].state # Free
                         /\ pages[p].state = Sealed =>
                               /\ pages'[p].state = Sealed
                               /\ pages'[p].initialized_tokens = pages[p].initialized_tokens
    BY Zenon DEF PageStep
  <2>1. CASE \E i \in (k + 1) .. l : chain[i].index = p
    <3>1. /\ pages'[p].generation = pages[p].generation + 1
          /\ pages'[p].state = Free /\ pages[p].state # Free
      BY Zenon, <1>0, <1>1, <1>2, <1>5, <2>1
    <3> QED
      BY Zenon, <3>1
  <2>2. CASE \A i \in (k + 1) .. l : chain[i].index # p
    <3>1. pages'[p].state = pages[p].state /\ pages'[p].generation = pages[p].generation
      BY Zenon, <1>3, <2>2
    <3>2. pages[p].state = Sealed => ~(spare # 0 /\ chain[k].index = p)
      BY Zenon, <1>0, <1>1, <1>6
    <3>3. pages[p].state = Sealed =>
             pages'[p].initialized_tokens = pages[p].initialized_tokens
      BY Zenon, <1>3, <2>2, <3>2
    <3> QED
      BY Zenon, <3>1, <3>3
  <2> QED
    BY Zenon, <2>1, <2>2
<1> QED
  BY Zenon, <1>9, <1>10

LEMMA ReleaseStep ==
    ASSUME KvInv, NEW r \in RequestId, NEW reopen \in BOOLEAN, ReleaseInto(r, reopen)
    PROVE  CommittedStep /\ PageStep
<1> DEFINE own == r.slot
           chain == requests[own].pages
           sole == SolePositions(own, chain)
<1>0. KvTypeOK /\ Free # Sealed
  BY DEF KvInv, PageOwnership, Free, Sealed
<1>1. /\ own \in RequestSlot
      /\ sole = {i \in Positions(own) : pages[chain[i].index].references = {own}}
  BY ReleaseEffect, Zenon
<1>2. /\ \A p \in PageIndex : (\E i \in sole : chain[i].index = p) =>
            /\ pages'[p].generation = pages[p].generation + 1
            /\ pages'[p].state = Free
            /\ pages'[p].references = {}
      /\ \A p \in PageIndex : (\A i \in sole : chain[i].index # p) =>
            /\ pages'[p].generation = pages[p].generation
            /\ pages'[p].state = pages[p].state
            /\ pages'[p].initialized_tokens = pages[p].initialized_tokens
            /\ pages'[p].references = pages[p].references \ {own}
  BY ReleaseEffect
<1>3. /\ \A s \in RequestSlot : s # own => requests'[s] = requests[s]
      /\ requests'[own] = EmptyRequest(requests[own].generation + 1, reopen)
  BY ReleaseEffect, Zenon
<1>4. requests'[own].generation # requests[own].generation
  <2>1. requests'[own].generation = requests[own].generation + 1
    BY <1>3 DEF EmptyRequest
  <2>2. requests[own].generation \in Int
    BY <1>0, <1>1, EntryTypes, IdentityAssumption DEF Generation
  <2> QED
    BY <2>1, <2>2
<1> HIDE DEF own, chain, sole
<1>5. CommittedStep
  <2> SUFFICES ASSUME NEW s \in RequestSlot, s # own
               PROVE  /\ requests'[s].committed_tokens >= requests[s].committed_tokens
                      /\ \A i \in 1 .. PagesFor(requests[s].committed_tokens) :
                           /\ requests'[s].pages[i] = requests[s].pages[i]
                           /\ pages'[requests[s].pages[i].index].generation
                                 = requests[s].pages[i].generation
    BY Zenon, <1>4 DEF CommittedStep
  <2>1. requests'[s] = requests[s]
    BY Zenon, <1>3
  <2>2. ASSUME NEW i \in Positions(s)
        PROVE  pages'[requests[s].pages[i].index].generation
                  = pages[requests[s].pages[i].index].generation
    <3>1. /\ requests[s].pages[i].index \in PageIndex
          /\ s \in pages[requests[s].pages[i].index].references
      BY Zenon, NamedPage
    <3>2. \A j \in sole : chain[j].index # requests[s].pages[i].index
      BY Zenon, <1>1, <3>1
    <3> QED
      BY Zenon, <1>2, <3>1, <3>2
  <2> QED
    BY Zenon, <2>1, <2>2, CommittedKept
<1>6. PageStep
  <2> SUFFICES ASSUME NEW p \in PageIndex
               PROVE  \/ /\ pages'[p].generation = pages[p].generation + 1
                         /\ pages'[p].state = Free /\ pages[p].state # Free
                      \/ /\ pages'[p].generation = pages[p].generation
                         /\ pages[p].state = Free \/ pages'[p].state # Free
                         /\ pages[p].state = Sealed =>
                               /\ pages'[p].state = Sealed
                               /\ pages'[p].initialized_tokens = pages[p].initialized_tokens
    BY Zenon DEF PageStep
  <2>1. CASE \E i \in sole : chain[i].index = p
    <3>1. pages[p].state # Free
      BY Zenon, <1>1, <2>1, NamedPage DEF chain
    <3> QED
      BY Zenon, <1>2, <2>1, <3>1
  <2>2. CASE \A i \in sole : chain[i].index # p
    BY Zenon, <1>2, <2>2
  <2> QED
    BY Zenon, <2>1, <2>2
<1> QED
  BY Zenon, <1>5, <1>6

LEMMA CreateStep ==
    ASSUME KvInv, NEW r \in RequestId, CreateRequest(r)
    PROVE  CommittedStep /\ PageStep
<1>0. KvTypeOK /\ r.slot \in RequestSlot
  BY Zenon DEF KvInv, PageOwnership, RequestId
<1>1. /\ pages' = pages
      /\ \A s \in RequestSlot :
            /\ requests'[s].pages = requests[s].pages
            /\ requests'[s].committed_tokens = requests[s].committed_tokens
  BY Zenon, <1>0 DEF CreateRequest, KvTypeOK, RequestEntry
<1>2. CommittedStep
  BY Zenon, <1>1, CommittedKept DEF CommittedStep
<1>3. PageStep
  BY Zenon, <1>1 DEF PageStep
<1> QED
  BY Zenon, <1>2, <1>3

LEMMA KvNextStep == KvInv /\ [KvNext]_kvVars => [CommittedStep /\ PageStep]_kvVars
<1> SUFFICES ASSUME KvInv, KvNext PROVE CommittedStep /\ PageStep
  BY Zenon
<1>1. ASSUME NEW r \in RequestId, CreateRequest(r) PROVE CommittedStep /\ PageStep
  BY Zenon, <1>1, CreateStep
<1>2. ASSUME NEW r \in RequestId, ReleaseRequest(r) \/ ReleaseThenCreate(r)
      PROVE  CommittedStep /\ PageStep
  BY Zenon, <1>2, ReleaseStep DEF ReleaseRequest, ReleaseThenCreate
<1>3. ASSUME NEW r \in RequestId, NEW n \in 1 .. MaxContext, AppendTentative(r, n)
      PROVE  CommittedStep /\ PageStep
  BY Zenon, <1>3, AppendStep
<1>4. ASSUME NEW r \in RequestId, NEW n \in 0 .. MaxContext, FinalizeTentative(r, n)
      PROVE  CommittedStep /\ PageStep
  BY Zenon, <1>4, FinalizeStep
<1>5. ASSUME NEW source \in RequestId, NEW target \in RequestId, NEW n \in 1 .. MaxContext,
             ShareCommittedPrefix(source, target, n)
      PROVE  CommittedStep /\ PageStep
  BY Zenon, <1>5, ShareStep
<1> QED
  BY Zenon, <1>1, <1>2, <1>3, <1>4, <1>5 DEF KvNext

\* No call on the pool lowers or rewrites the committed prefix of a request that
\* it does not release, its own or another's.
THEOREM KvCommitted == KvSpec => CommittedStable
<1>1. KvInv /\ [KvNext]_kvVars => [CommittedStep]_kvVars
  BY Zenon, KvNextStep
<1> QED
  BY <1>1, KvInvariant, PTL DEF KvSpec, CommittedStable

\* A page is freed only under its next generation, and is neither unsealed nor
\* rewritten once it is sealed.
THEOREM KvPages == KvSpec => PageLifecycle
<1>1. KvInv /\ [KvNext]_kvVars => [PageStep]_kvVars
  BY Zenon, KvNextStep
<1> QED
  BY <1>1, KvInvariant, PTL DEF KvSpec, PageLifecycle

=============================================================================
