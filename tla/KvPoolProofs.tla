---------------------------- MODULE KvPoolProofs ----------------------------
(***************************************************************************)
(* Proofs about KvPool, for every number of request slots and pages, every *)
(* page size, context and bound on generations.                            *)
(*                                                                         *)
(* PageOwnership, WriteExclusive and ReadsInitialized are proved together. *)
(* KvInv replaces the last one by Filling, which says what each page of a  *)
(* chain holds: every page but the last is full, and the last is not empty *)
(* and holds the rest.  Here it is shown to hold initially and to survive  *)
(* create_request, append_tentative and share_prefix; KvPoolSafety has the *)
(* other two operations and the theorems.                                  *)
(***************************************************************************)
EXTENDS KvPool, SequenceTheorems, FiniteSetTheorems, TLAPS

\* The tokens of i full pages.
Offset(i) == i * PageTokens

\* What the i-th page of a chain of n tokens holds.
Filled(i, n) ==
    IF n <= Offset(i - 1) THEN 0
    ELSE IF Offset(i) <= n THEN PageTokens ELSE n - Offset(i - 1)

\* A chain is exactly as long as its resident tokens need, and each of its pages
\* is filled accordingly.
FillingOf(s) ==
    LET slot == requests[s] IN
    /\ slot.committed_tokens <= slot.resident_tokens
    /\ slot.resident_tokens <= Offset(Len(slot.pages))
    /\ Len(slot.pages) > 0 => Offset(Len(slot.pages) - 1) < slot.resident_tokens
    /\ \A i \in Positions(s) :
          pages[slot.pages[i].index].initialized_tokens = Filled(i, slot.resident_tokens)

Filling == \A s \in RequestSlot : FillingOf(s)

KvInv == PageOwnership /\ WriteExclusive /\ Filling

-----------------------------------------------------------------------------
(* Arithmetic of pages *)

\* Offset is additive and monotone.
LEMMA OffsetFacts ==
    /\ \A i \in Int : Offset(i) \in Int
    /\ Offset(0) = 0
    /\ \A i \in Int : Offset(i + 1) = Offset(i) + PageTokens
    /\ \A i \in Int : Offset(i - 1) = Offset(i) - PageTokens
    /\ \A i, j \in Int : Offset(i + j) = Offset(i) + Offset(j)
    /\ \A i, j \in Int : Offset(i - j) = Offset(i) - Offset(j)
    /\ \A i, j \in Int : i <= j <=> Offset(i) <= Offset(j)
    /\ \A i, j \in Int : i < j <=> Offset(i) + PageTokens <= Offset(j)
    /\ \A i, j \in Int : i < j <=> Offset(i) < Offset(j)
<1>0. PageTokens \in Int /\ PageTokens > 0
  BY KvPoolAssumption
<1>1. /\ \A i \in Int : Offset(i) \in Int
      /\ Offset(0) = 0
      /\ \A i \in Int : Offset(i + 1) = Offset(i) + PageTokens
      /\ \A i \in Int : Offset(i - 1) = Offset(i) - PageTokens
  BY <1>0 DEF Offset
<1>2. /\ \A i, j \in Int : Offset(i + j) = Offset(i) + Offset(j)
      /\ \A i, j \in Int : Offset(i - j) = Offset(i) - Offset(j)
  BY <1>0 DEF Offset
<1>3. ASSUME NEW i \in Int, NEW j \in Int, i <= j
      PROVE  Offset(i) <= Offset(j)
  <2>1. (j - i) * PageTokens >= 0
    BY <1>0, <1>3
  <2>2. Offset(j - i) = (j - i) * PageTokens /\ Offset(j - i) = Offset(j) - Offset(i)
    BY Zenon, <1>2 DEF Offset
  <2> QED
    BY <1>1, <2>1, <2>2
<1>4. ASSUME NEW i \in Int, NEW j \in Int, i < j
      PROVE  Offset(i) + PageTokens <= Offset(j)
  <2>1. i + 1 \in Int /\ i + 1 <= j
    BY <1>4
  <2>2. Offset(i + 1) <= Offset(j)
    BY Zenon, <2>1, <1>3
  <2> QED
    BY Zenon, <2>2, <1>1
<1> HIDE DEF Offset
<1>5. ASSUME NEW i \in Int, NEW j \in Int
      PROVE  /\ i <= j <=> Offset(i) <= Offset(j)
             /\ i < j <=> Offset(i) + PageTokens <= Offset(j)
             /\ i < j <=> Offset(i) < Offset(j)
  <2>1. Offset(i) \in Int /\ Offset(j) \in Int
    BY Zenon, <1>1
  <2>2. CASE i < j
    BY <1>0, <1>4, <2>1, <2>2
  <2>3. CASE i = j
    BY <1>0, <2>1, <2>3
  <2>4. CASE j < i
    <3>1. Offset(j) + PageTokens <= Offset(i)
      BY Zenon, <1>4, <2>4
    <3> QED
      BY <1>0, <2>1, <2>4, <3>1
  <2> QED
    BY <2>2, <2>3, <2>4
<1> QED
  BY Zenon, <1>1, <1>2, <1>5

\* The pages before, at and after a position.
LEMMA OffsetStep ==
    ASSUME NEW i \in Int
    PROVE  /\ Offset(i) \in Int /\ Offset(i - 1) \in Int /\ Offset(i + 1) \in Int
           /\ Offset(i + 1) = Offset(i) + PageTokens
           /\ Offset(i - 1) = Offset(i) - PageTokens
BY KvPoolAssumption DEF Offset

\* The position of a page of a second chain put after a first one.
LEMMA OffsetSum ==
    ASSUME NEW i \in Int, NEW j \in Int
    PROVE  /\ Offset(i) \in Int /\ Offset(j) \in Int /\ Offset(i + j) \in Int
           /\ Offset((i + j) - 1) \in Int
           /\ Offset(i + j) = Offset(i) + Offset(j)
           /\ Offset((i + j) - 1) = Offset(i) + Offset(j) - PageTokens
BY KvPoolAssumption DEF Offset

\* PagesFor(n) is the least number of pages that hold n tokens.
LEMMA PagesForFacts ==
    ASSUME NEW n \in Nat
    PROVE  /\ PagesFor(n) \in Nat
           /\ n <= Offset(PagesFor(n))
           /\ Offset(PagesFor(n)) < n + PageTokens
           /\ PagesFor(n) = 0 <=> n = 0
<1>0. PageTokens \in Int /\ PageTokens > 0
  BY KvPoolAssumption
<1> DEFINE m == n + PageTokens - 1
<1>1. m \in Nat
  BY <1>0
<1> HIDE DEF m
<1>2. /\ m \div PageTokens \in Nat
      /\ PageTokens * (m \div PageTokens) <= m
      /\ m < PageTokens * (m \div PageTokens) + PageTokens
  BY <1>0, <1>1
<1>3. PagesFor(n) = m \div PageTokens
  BY Zenon DEF PagesFor, m
<1>4. Offset(PagesFor(n)) = PageTokens * (m \div PageTokens)
  BY <1>0, <1>2, <1>3 DEF Offset
<1>5. n <= Offset(PagesFor(n)) /\ Offset(PagesFor(n)) < n + PageTokens
  BY <1>0, <1>1, <1>2, <1>4 DEF m
<1> DEFINE k == PagesFor(n)
<1>6. k \in Nat /\ n <= Offset(k) /\ Offset(k) < n + PageTokens
  BY Zenon, <1>2, <1>3, <1>5
<1> HIDE DEF k
<1>7. k = 0 <=> n = 0
  <2>1. 0 \in Int /\ k \in Int /\ Offset(k) \in Int /\ Offset(0) = 0
    BY <1>6, OffsetFacts
  <2>2. 0 < k <=> Offset(0) + PageTokens <= Offset(k)
    BY Zenon, <2>1, OffsetFacts
  <2> QED
    BY <1>0, <1>6, <2>1, <2>2
<1> QED
  BY Zenon, <1>6, <1>7 DEF k

\* The tokens on a last page that is partly used.
LEMMA SpareFacts ==
    ASSUME NEW n \in Nat
    PROVE  /\ n % PageTokens \in 0 .. (PageTokens - 1)
           /\ n % PageTokens = 0 => n = Offset(PagesFor(n))
           /\ n % PageTokens = 0 => n \div PageTokens = PagesFor(n)
           /\ n % PageTokens # 0 =>
                 /\ n % PageTokens = n - Offset(PagesFor(n) - 1)
                 /\ n < Offset(PagesFor(n))
<1>0. PageTokens \in Int /\ PageTokens > 0
  BY KvPoolAssumption
<1> DEFINE q == n \div PageTokens
           r == n % PageTokens
<1>1. q \in Nat /\ r \in 0 .. (PageTokens - 1) /\ n = PageTokens * q + r
  BY <1>0
<1> HIDE DEF q, r
<1>2. Offset(q) = PageTokens * q
  BY <1>0, <1>1 DEF Offset
<1>3. n = Offset(q) + r
  BY Zenon, <1>1, <1>2
<1> DEFINE k == PagesFor(n)
<1>4. k \in Nat /\ n <= Offset(k) /\ Offset(k) < n + PageTokens
  BY Zenon, PagesForFacts
<1> HIDE DEF k
<1>5. /\ Offset(q) \in Int /\ Offset(k) \in Int
      /\ Offset(q + 1) = Offset(q) + PageTokens
      /\ Offset(k - 1) = Offset(k) - PageTokens
      /\ q < k <=> Offset(q) + PageTokens <= Offset(k)
      /\ k < q <=> Offset(k) + PageTokens <= Offset(q)
      /\ q + 1 < k <=> Offset(q + 1) + PageTokens <= Offset(k)
  <2>1. q \in Int /\ k \in Int /\ q + 1 \in Int
    BY <1>1, <1>4
  <2> QED
    BY Zenon, <2>1, OffsetFacts
<1>6. r = 0 => k = q /\ n = Offset(k)
  BY <1>0, <1>1, <1>3, <1>4, <1>5
<1>7. r # 0 => r = n - Offset(k - 1) /\ n < Offset(k)
  <2>1. r # 0 => k = q + 1
    BY <1>0, <1>1, <1>3, <1>4, <1>5
  <2> QED
    BY <2>1, <1>0, <1>1, <1>3, <1>4, <1>5
<1> QED
  BY Zenon, <1>1, <1>6, <1>7 DEF q, r, k

\* What a page of a chain holds, token by token.
LEMMA FilledFacts ==
    ASSUME NEW i \in Int, NEW n \in Nat
    PROVE  /\ Filled(i, n) \in 0 .. PageTokens
           /\ \A t \in 0 .. (PageTokens - 1) : Offset(i - 1) + t < n <=> t < Filled(i, n)
           /\ Offset(i) <= n => Filled(i, n) = PageTokens
           /\ Offset(i - 1) < n /\ n <= Offset(i) => Filled(i, n) = n - Offset(i - 1)
<1>0. PageTokens \in Int /\ PageTokens > 0
  BY KvPoolAssumption
<1>1. Offset(i) \in Int /\ Offset(i - 1) \in Int /\ Offset(i - 1) = Offset(i) - PageTokens
  BY Zenon, OffsetStep
<1> QED
  BY <1>0, <1>1 DEF Filled

\* A chain of l pages and old tokens takes n more, kept of them on its tail.
AppendPoint(l, old, n, kept) ==
    /\ l \in Nat /\ old \in Nat /\ n \in Nat /\ n > 0
    /\ old <= Offset(l)
    /\ l > 0 => Offset(l - 1) < old
    /\ kept = MinOf(n, Offset(l) - old)

\* The page arithmetic of an append: the tail takes what it can, and the rest
\* fills fresh pages, all but the last one whole.
LEMMA AppendNumbers ==
    ASSUME NEW l, NEW old, NEW n, NEW kept, AppendPoint(l, old, n, kept)
    PROVE  /\ kept \in Nat /\ kept <= n /\ n - kept \in Nat
           /\ kept > 0 => l > 0
           /\ kept = 0 => old = Offset(l)
           /\ PagesFor(n - kept) \in Nat
           /\ old + n <= Offset(l + PagesFor(n - kept))
           /\ l + PagesFor(n - kept) > 0
           /\ Offset((l + PagesFor(n - kept)) - 1) < old + n
           /\ \A i \in 1 .. (l - 1) : Filled(i, old + n) = Filled(i, old)
           /\ l > 0 => Filled(l, old + n) = Filled(l, old) + kept
           /\ \A i \in 1 .. PagesFor(n - kept) :
                 /\ Filled(l + i, old + n) = MinOf(PageTokens, n - kept - (i - 1) * PageTokens)
                 /\ Filled(l + i, old + n) > 0
<1>0. PageTokens \in Int /\ PageTokens > 0
  BY KvPoolAssumption
<1> /\ l \in Nat /\ old \in Nat /\ n \in Nat /\ n > 0
    /\ old <= Offset(l)
    /\ l > 0 => Offset(l - 1) < old
    /\ kept = MinOf(n, Offset(l) - old)
  BY Zenon DEF AppendPoint
<1>1. Offset(l) \in Int /\ Offset(0) = 0
  BY OffsetFacts
<1>2. /\ kept \in Nat /\ kept <= n /\ n - kept \in Nat
      /\ kept = 0 => old = Offset(l)
      /\ n - kept > 0 => old + kept = Offset(l)
      /\ old + kept <= Offset(l)
  BY <1>1 DEF MinOf
<1>3. kept > 0 => l > 0
  BY <1>1, <1>2
<1> DEFINE rest == n - kept
           f == PagesFor(rest)
<1>4. /\ rest \in Nat /\ f \in Nat /\ rest <= Offset(f) /\ Offset(f) < rest + PageTokens
      /\ f = 0 <=> rest = 0
  BY Zenon, <1>2, PagesForFacts
<1>5. old + n = old + kept + rest
  BY <1>2
<1> HIDE DEF rest, f
<1>6. /\ Offset(f) \in Int /\ Offset(l + f) = Offset(l) + Offset(f)
      /\ Offset((l + f) - 1) = Offset(l) + Offset(f) - PageTokens
      /\ Offset(l - 1) = Offset(l) - PageTokens
  <2>1. l \in Int /\ f \in Int
    BY <1>4
  <2> QED
    BY Zenon, <2>1, OffsetSum, OffsetStep
<1>7. rest > 0 => old + kept = Offset(l)
  BY Zenon, <1>2 DEF rest
<1>8. /\ old + n <= Offset(l + f)
      /\ l + f > 0
      /\ Offset((l + f) - 1) < old + n
  <2>1. CASE rest = 0
    <3>1. f = 0 /\ kept = n /\ l > 0 /\ Offset(0) = 0
      BY <2>1, <1>1, <1>2, <1>3, <1>4 DEF rest
    <3> QED
      BY <3>1, <1>0, <1>1, <1>2, <1>6
  <2>2. CASE rest > 0
    BY <2>2, <1>0, <1>1, <1>2, <1>4, <1>5, <1>6, <1>7
  <2> QED
    BY <2>1, <2>2, <1>4
<1>9. ASSUME NEW i \in 1 .. (l - 1)
      PROVE  Filled(i, old + n) = Filled(i, old)
  <2>1. i \in Int /\ l - 1 \in Int /\ i <= l - 1 /\ l > 0
    OBVIOUS
  <2>2. Offset(i) \in Int /\ Offset(i) <= Offset(l - 1)
    BY Zenon, <2>1, OffsetFacts
  <2>3. Offset(i) <= old /\ Offset(i) <= old + n
    BY <2>1, <2>2, <1>6, <1>0, <1>1
  <2> QED
    BY <2>1, <2>3, FilledFacts
<1>10. ASSUME l > 0
       PROVE  Filled(l, old + n) = Filled(l, old) + kept
  <2>1. Offset(l - 1) < old /\ Offset(l - 1) < old + n
    BY <1>10, <1>0, <1>1, <1>6
  <2>2. Filled(l, old) = old - Offset(l - 1)
    BY <2>1, FilledFacts
  <2>3. CASE rest = 0
    <3>1. kept = n /\ old + n <= Offset(l)
      BY <2>3, <1>2, <1>1 DEF rest
    <3> DEFINE total == old + n
    <3>2. total \in Nat /\ l \in Int /\ Offset(l - 1) < total /\ total <= Offset(l)
      BY <3>1, <2>1
    <3> HIDE DEF total
    <3>3. Filled(l, total) = total - Offset(l - 1)
      BY Zenon, <3>2, FilledFacts
    <3> QED
      BY <2>2, <3>1, <3>3, <1>0, <1>1, <1>6 DEF total
  <2>4. CASE rest > 0
    <3>1. Offset(l) <= old + n
      BY <2>4, <1>1, <1>2, <1>5, <1>7
    <3>2. Filled(l, old + n) = PageTokens
      BY <3>1, FilledFacts
    <3> QED
      BY <2>2, <2>4, <3>2, <1>0, <1>1, <1>2, <1>6, <1>7
  <2> QED
    BY <2>3, <2>4, <1>4
<1>11. ASSUME NEW i \in 1 .. f
       PROVE  /\ Filled(l + i, old + n) = MinOf(PageTokens, rest - (i - 1) * PageTokens)
              /\ Filled(l + i, old + n) > 0
  <2>1. /\ i \in Int /\ l \in Int /\ f \in Int /\ rest > 0
        /\ i - 1 \in Int /\ f - 1 \in Int /\ i - 1 <= f - 1
    BY <1>4
  <2>2. /\ Offset(i) \in Int /\ Offset(l + i) = Offset(l) + Offset(i)
        /\ Offset((l + i) - 1) = Offset(l) + Offset(i) - PageTokens
        /\ Offset(i - 1) = Offset(i) - PageTokens
        /\ Offset(f - 1) = Offset(f) - PageTokens
    BY ZenonT(30), <2>1, OffsetSum, OffsetStep
  <2>3. (i - 1) * PageTokens = Offset(i - 1)
    BY Zenon DEF Offset
  <2>4. Offset(i) <= Offset(f)
    <3>1. i <= f
      BY <1>4
    <3> QED
      BY Zenon, <2>1, <3>1, OffsetFacts
  <2> DEFINE total == old + n
             at == l + i
  <2>5. /\ total \in Nat /\ at \in Int /\ Offset(at) = Offset(l) + Offset(i)
        /\ Offset(at - 1) = Offset(l) + Offset(i) - PageTokens
        /\ total = Offset(l) + rest
    BY <2>1, <2>2, <1>1, <1>2, <1>4, <1>5, <1>7
  <2> HIDE DEF total, at
  <2>6. Offset(at - 1) < total
    BY <2>1, <2>2, <2>4, <2>5, <1>0, <1>1, <1>4, <1>6
  <2>7. CASE total <= Offset(at)
    <3>1. Filled(at, total) = total - Offset(at - 1)
      BY Zenon, <2>5, <2>6, <2>7, FilledFacts
    <3>2. /\ rest - Offset(i - 1) = total - Offset(at - 1)
          /\ rest - Offset(i - 1) <= PageTokens
      BY <2>1, <2>2, <2>5, <2>7, <1>0, <1>1, <1>4
    <3>3. MinOf(PageTokens, rest - Offset(i - 1)) = rest - Offset(i - 1)
      BY <2>2, <3>2, <1>0, <1>4 DEF MinOf
    <3>4. Filled(at, total) > 0
      BY <2>2, <2>5, <2>6, <3>1, <1>0, <1>1
    <3> QED
      BY Zenon, <2>3, <3>1, <3>2, <3>3, <3>4 DEF at, total
  <2>8. CASE Offset(at) < total
    <3>1. Filled(at, total) = PageTokens
      <4>1. Offset(at) <= total
        BY <2>8, <2>5, <2>2, <1>1
      <4> QED
        BY Zenon, <2>5, <4>1, FilledFacts
    <3>2. rest - Offset(i - 1) > PageTokens
      BY <2>1, <2>2, <2>5, <2>8, <1>0, <1>1, <1>4
    <3>3. MinOf(PageTokens, rest - Offset(i - 1)) = PageTokens
      BY <2>2, <3>2, <1>0, <1>4 DEF MinOf
    <3> QED
      BY Zenon, <2>3, <3>1, <3>3, <1>0 DEF at, total
  <2> QED
    BY <2>2, <2>5, <2>7, <2>8, <1>1
<1> QED
  BY Zenon, <1>2, <1>3, <1>4, <1>8, <1>9, <1>10, <1>11 DEF rest, f

\* The page arithmetic of a finalization: the chain is cut after the pages the
\* committed tokens need, and only a partly used last page changes.
LEMMA FinalizeNumbers ==
    ASSUME NEW l \in Nat, NEW old \in Nat, NEW new \in Nat, new <= old, old <= Offset(l)
    PROVE  /\ PagesFor(new) \in 0 .. l
           /\ new <= Offset(PagesFor(new))
           /\ PagesFor(new) > 0 => Offset(PagesFor(new) - 1) < new
           /\ new % PageTokens \in 0 .. (PageTokens - 1)
           /\ new % PageTokens # 0 =>
                 /\ PagesFor(new) > 0
                 /\ new < Offset(PagesFor(new))
                 /\ Filled(PagesFor(new), new) = new % PageTokens
                 /\ \A i \in 1 .. (PagesFor(new) - 1) : Filled(i, new) = Filled(i, old)
           /\ new % PageTokens = 0 =>
                 \A i \in 1 .. PagesFor(new) : Filled(i, new) = Filled(i, old)
<1>0. PageTokens \in Int /\ PageTokens > 0
  BY KvPoolAssumption
<1> DEFINE k == PagesFor(new)
           spare == new % PageTokens
<1>1. /\ k \in Nat /\ new <= Offset(k) /\ Offset(k) < new + PageTokens
      /\ k = 0 <=> new = 0
  BY Zenon, PagesForFacts
<1>2. /\ spare \in 0 .. (PageTokens - 1)
      /\ spare = 0 => new = Offset(k)
      /\ spare # 0 => spare = new - Offset(k - 1) /\ new < Offset(k)
  BY Zenon, SpareFacts
<1> HIDE DEF k, spare
<1>3. /\ Offset(k) \in Int /\ Offset(l) \in Int /\ Offset(0) = 0
      /\ Offset(k - 1) = Offset(k) - PageTokens
      /\ l < k <=> Offset(l) + PageTokens <= Offset(k)
  <2>1. k \in Int /\ l \in Int
    BY <1>1
  <2>2. Offset(k - 1) = Offset(k) - PageTokens
    BY Zenon, <2>1, OffsetStep
  <2> QED
    BY Zenon, <2>1, <2>2, OffsetFacts
<1>4. k \in 0 .. l
  BY <1>0, <1>1, <1>3
<1>5. Offset(k - 1) < new
  BY <1>0, <1>1, <1>3
<1>6. ASSUME NEW i \in 1 .. k, Offset(i) <= new
      PROVE  Filled(i, new) = Filled(i, old)
  <2>1. i \in Int /\ Offset(i) \in Int
    BY OffsetFacts
  <2>2. Offset(i) <= old
    BY <2>1, <1>6
  <2> QED
    BY Zenon, <2>1, <2>2, <1>6, FilledFacts
<1>7. ASSUME NEW i \in 1 .. k
      PROVE  /\ Offset(i) \in Int /\ Offset(i) <= Offset(k)
             /\ i < k => Offset(i) + PageTokens <= Offset(k)
  <2>1. i \in Int /\ k \in Int /\ i <= k
    BY <1>1
  <2> QED
    BY Zenon, <2>1, OffsetFacts
<1>8. spare # 0 => /\ k > 0
                   /\ Filled(k, new) = spare
                   /\ \A i \in 1 .. (k - 1) : Filled(i, new) = Filled(i, old)
  <2> SUFFICES ASSUME spare # 0
               PROVE  /\ k > 0
                      /\ Filled(k, new) = spare
                      /\ \A i \in 1 .. (k - 1) : Filled(i, new) = Filled(i, old)
    BY Zenon
  <2>1. k > 0
    BY <1>0, <1>1, <1>2, <1>3
  <2>2. Filled(k, new) = new - Offset(k - 1)
    BY <1>1, <1>2, <1>5, FilledFacts
  <2>3. ASSUME NEW i \in 1 .. (k - 1)
        PROVE  Filled(i, new) = Filled(i, old)
    <3>1. i \in 1 .. k /\ i < k
      BY <1>1
    <3>2. Offset(i) <= new
      BY <3>1, <1>0, <1>3, <1>5, <1>7
    <3> QED
      BY Zenon, <3>1, <3>2, <1>6
  <2> QED
    BY Zenon, <2>1, <2>2, <2>3, <1>2
<1>9. spare = 0 => \A i \in 1 .. k : Filled(i, new) = Filled(i, old)
  BY Zenon, <1>2, <1>6, <1>7
<1> QED
  BY Zenon, <1>1, <1>2, <1>4, <1>5, <1>8, <1>9 DEF k, spare

-----------------------------------------------------------------------------
(* The invariant *)

\* The types of a request entry and of its chain.
LEMMA EntryTypes ==
    ASSUME KvTypeOK, NEW s \in RequestSlot
    PROVE  /\ requests[s].pages \in Seq(PageId)
           /\ Len(requests[s].pages) \in Nat
           /\ requests[s].committed_tokens \in 0 .. MaxContext
           /\ requests[s].resident_tokens \in 0 .. MaxContext
           /\ requests[s].generation \in Generation
           /\ requests[s].live \in BOOLEAN
           /\ \A i \in Positions(s) :
                 /\ requests[s].pages[i] \in PageId
                 /\ requests[s].pages[i].index \in PageIndex
                 /\ requests[s].pages[i].generation \in 1 .. MaxPageGeneration
<1>1. requests[s] \in RequestEntry
  BY Zenon DEF KvTypeOK
<1>2. /\ requests[s].pages \in Seq(PageId)
      /\ requests[s].committed_tokens \in 0 .. MaxContext
      /\ requests[s].resident_tokens \in 0 .. MaxContext
      /\ requests[s].generation \in Generation
      /\ requests[s].live \in BOOLEAN
  BY Zenon, <1>1 DEF RequestEntry
<1>3. \A i \in Positions(s) : requests[s].pages[i] \in PageId
  BY Zenon, <1>2, ElementOfSeq DEF Positions
<1> QED
  BY <1>2, <1>3 DEF PageId

\* The types of a page.
LEMMA PageTypes ==
    ASSUME KvTypeOK, NEW p \in PageIndex
    PROVE  /\ pages[p] \in PageSlot
           /\ pages[p].generation \in 1 .. MaxPageGeneration
           /\ pages[p].state \in {Free, Sealed} \cup RequestSlot
           /\ pages[p].initialized_tokens \in 0 .. PageTokens
           /\ pages[p].references \in SUBSET RequestSlot
BY Zenon DEF KvTypeOK, PageSlot

\* Filling says what ReadsInitialized does: validate_read's comparison with
\* resident_tokens is exact.
LEMMA FillingReads == KvInv => ReadsInitialized
<1> SUFFICES ASSUME KvInv, NEW s \in RequestSlot
             PROVE  /\ requests[s].committed_tokens <= requests[s].resident_tokens
                    /\ \A i \in Positions(s), t \in 0 .. (PageTokens - 1) :
                          (i - 1) * PageTokens + t < requests[s].resident_tokens
                          <=> t < pages[requests[s].pages[i].index].initialized_tokens
                    /\ requests[s].resident_tokens <= Len(requests[s].pages) * PageTokens
  BY Zenon DEF ReadsInitialized
<1>1. FillingOf(s) /\ KvTypeOK
  BY Zenon DEF KvInv, Filling, PageOwnership
<1>2. ASSUME NEW i \in Positions(s), NEW t \in 0 .. (PageTokens - 1)
      PROVE  (i - 1) * PageTokens + t < requests[s].resident_tokens
             <=> t < pages[requests[s].pages[i].index].initialized_tokens
  <2> DEFINE n == requests[s].resident_tokens
  <2>1. n \in Nat /\ i \in Int
    BY <1>1, EntryTypes DEF Positions
  <2>2. pages[requests[s].pages[i].index].initialized_tokens = Filled(i, n)
    BY Zenon, <1>1 DEF FillingOf
  <2>3. (i - 1) * PageTokens = Offset(i - 1)
    BY Zenon DEF Offset
  <2> HIDE DEF n
  <2>4. Offset(i - 1) + t < n <=> t < Filled(i, n)
    BY Zenon, <2>1, FilledFacts
  <2> QED
    BY Zenon, <2>2, <2>3, <2>4 DEF n
<1> QED
  BY Zenon, <1>1, <1>2 DEF FillingOf, Offset

\* A page that a chain names is not free, and the chain's request is among its
\* references.
LEMMA NamedPage ==
    ASSUME KvInv, NEW s \in RequestSlot, NEW i \in Positions(s)
    PROVE  LET p == requests[s].pages[i].index IN
           /\ p \in PageIndex
           /\ s \in pages[p].references
           /\ pages[p].state # Free
           /\ pages[p].generation = requests[s].pages[i].generation
           /\ \A j \in 1 .. Len(free_stack) : free_stack[j] # p
<1> DEFINE p == requests[s].pages[i].index
<1>1. p \in PageIndex
  BY Zenon, EntryTypes DEF KvInv, PageOwnership
<1>2. s \in pages[p].references
  BY <1>1 DEF KvInv, PageOwnership
<1> QED
  BY Zenon, <1>1, <1>2 DEF KvInv, PageOwnership

\* A page referenced by two requests is sealed, and a page a request owns is
\* referenced by nobody else.
LEMMA SharedSealed ==
    ASSUME KvInv, NEW s \in RequestSlot, NEW i \in Positions(s),
           NEW t \in RequestSlot, NEW j \in Positions(t), s # t,
           requests[s].pages[i].index = requests[t].pages[j].index
    PROVE  LET page == pages[requests[s].pages[i].index] IN
           page.state = Sealed /\ page.initialized_tokens = PageTokens
<1> DEFINE page == pages[requests[s].pages[i].index]
<1>1. s \in page.references /\ t \in page.references
  BY Zenon, NamedPage
<1>2. \/ page.state = s /\ page.references = {s}
      \/ page.state = Sealed /\ page.initialized_tokens = PageTokens
  BY Zenon DEF KvInv, WriteExclusive
<1>3. page.references # {s}
  BY Zenon, <1>1
<1> QED
  BY Zenon, <1>2, <1>3

\* The size of the domain of a sequence.
LEMMA DomainSize ==
    ASSUME NEW n \in Nat
    PROVE  IsFiniteSet(1 .. n) /\ Cardinality(1 .. n) = n
BY SMTT(30), FS_Interval

\* A sequence of distinct pages is no longer than there are pages.
LEMMA StackBound ==
    ASSUME NEW seq \in Seq(PageIndex),
           \A i, j \in 1 .. Len(seq) : seq[i] = seq[j] => i = j
    PROVE  Len(seq) <= PageCount
<1>1. Len(seq) \in Nat /\ PageCount \in Nat
  BY KvPoolAssumption
<1>2. IsFiniteSet(1 .. Len(seq)) /\ Cardinality(1 .. Len(seq)) = Len(seq)
  BY Zenon, <1>1, DomainSize
<1>3. IsFiniteSet(PageIndex) /\ Cardinality(PageIndex) = PageCount
  <2>1. IsFiniteSet(0 .. (PageCount - 1)) /\ Cardinality(0 .. (PageCount - 1)) = PageCount
    BY KvPoolAssumption, FS_Interval
  <2> QED
    BY Zenon, <2>1 DEF PageIndex
<1>4. seq \in [1 .. Len(seq) -> PageIndex]
  OBVIOUS
<1>5. ~(\E x, y \in 1 .. Len(seq) : x # y /\ seq[x] = seq[y])
  BY Zenon
<1>6. ~(Cardinality(PageIndex) < Cardinality(1 .. Len(seq)))
  BY Zenon, <1>2, <1>3, <1>4, <1>5, FS_PigeonHole
<1> QED
  BY <1>1, <1>2, <1>3, <1>6

-----------------------------------------------------------------------------
(* Initial state and creation *)

LEMMA KvInitInv == KvInit => KvInv
<1> SUFFICES ASSUME KvInit PROVE KvInv
  BY Zenon
<1>1. KvTypeOK
  <2>1. PageCount \in Nat \ {0} /\ MaxPageGeneration \in Nat \ {0} /\ MaxGeneration \in Nat \ {0}
    BY Zenon, KvPoolAssumption, IdentityAssumption
  <2>2. pages \in [PageIndex -> PageSlot]
    BY <2>1, KvPoolAssumption DEF KvInit, FreePage, PageSlot
  <2>3. free_stack \in Seq(PageIndex) /\ Len(free_stack) <= PageCount
    <3>1. \A i \in 1 .. PageCount : PageCount - i \in PageIndex
      BY <2>1 DEF PageIndex
    <3>2. free_stack \in [1 .. PageCount -> PageIndex]
      BY Zenon, <3>1 DEF KvInit
    <3> QED
      BY <2>1, <3>2
  <2>4. requests \in [RequestSlot -> RequestEntry]
    BY <2>1, KvPoolAssumption DEF KvInit, EmptyRequest, RequestEntry, Generation
  <2>5. \A s \in RequestSlot : Len(requests[s].pages) <= MaxPagesPerRequest
    BY KvPoolAssumption DEF KvInit, EmptyRequest
  <2> QED
    BY Zenon, <2>2, <2>3, <2>4, <2>5 DEF KvTypeOK
<1>2. /\ \A s \in RequestSlot : requests[s] = EmptyRequest(1, FALSE)
      /\ \A p \in PageIndex : pages[p] = FreePage(1)
      /\ Len(free_stack) = PageCount
      /\ \A i \in 1 .. PageCount : free_stack[i] = PageCount - i
  BY KvPoolAssumption DEF KvInit
<1>3. \A s \in RequestSlot : Positions(s) = {} /\ requests[s].pages = <<>>
  BY <1>2 DEF Positions, EmptyRequest
<1>4. \A p \in PageIndex : \E i \in 1 .. PageCount : free_stack[i] = p
  <2> SUFFICES ASSUME NEW p \in PageIndex PROVE \E i \in 1 .. PageCount : free_stack[i] = p
    BY Zenon
  <2>1. PageCount - p \in 1 .. PageCount /\ PageCount - (PageCount - p) = p
    BY KvPoolAssumption DEF PageIndex
  <2> QED
    BY Zenon, <2>1, <1>2
<1>5. PageOwnership
  <2>1. \A i, j \in 1 .. Len(free_stack) : free_stack[i] = free_stack[j] => i = j
    BY <1>2, KvPoolAssumption
  <2> QED
    BY <1>1, <1>2, <1>3, <1>4, <2>1 DEF PageOwnership, FreePage, EmptyRequest
<1>6. WriteExclusive
  BY Zenon, <1>3 DEF WriteExclusive
<1>7. Filling
  <2>1. Offset(0) = 0
    BY Zenon, OffsetFacts
  <2> QED
    BY <1>2, <1>3, <2>1 DEF Filling, FillingOf, EmptyRequest
<1> QED
  BY Zenon, <1>5, <1>6, <1>7 DEF KvInv

LEMMA CreateInv ==
    ASSUME KvInv, NEW r \in RequestId, CreateRequest(r)
    PROVE  KvInv'
<1>1. r.slot \in RequestSlot /\ KvTypeOK
  BY Zenon DEF RequestId, KvInv, PageOwnership
<1>2. /\ \A s \in RequestSlot :
            /\ requests'[s].pages = requests[s].pages
            /\ requests'[s].committed_tokens = requests[s].committed_tokens
            /\ requests'[s].resident_tokens = requests[s].resident_tokens
            /\ requests'[s].generation = requests[s].generation
            /\ requests[s].live => requests'[s].live
      /\ pages' = pages /\ free_stack' = free_stack
  BY Zenon, <1>1 DEF CreateRequest, KvTypeOK, RequestEntry
<1>3. requests' \in [RequestSlot -> RequestEntry]
  BY Zenon, <1>1 DEF CreateRequest, KvTypeOK, RequestEntry
<1>4. \A s \in RequestSlot : Positions(s)' = Positions(s)
  BY Zenon, <1>2 DEF Positions
<1>5. KvTypeOK'
  BY Zenon, <1>1, <1>2, <1>3 DEF KvTypeOK
<1>6. PageOwnership'
  BY <1>2, <1>4, <1>5 DEF KvInv, PageOwnership
<1>7. WriteExclusive'
  BY <1>2, <1>4 DEF KvInv, WriteExclusive
<1>8. Filling'
  BY <1>2, <1>4 DEF KvInv, Filling, FillingOf
<1> QED
  BY Zenon, <1>6, <1>7, <1>8 DEF KvInv

-----------------------------------------------------------------------------
(* Append *)

\* The room on the tail of a chain is what its last page still lacks.
LEMMA TailRoom ==
    ASSUME KvInv, NEW s \in RequestSlot
    PROVE  LET slot == requests[s] IN
           /\ TailCapacity(slot.pages) = Offset(Len(slot.pages)) - slot.resident_tokens
           /\ TailCapacity(slot.pages) # 0 =>
                 /\ Len(slot.pages) \in Positions(s)
                 /\ TailPage(slot.pages) = slot.pages[Len(slot.pages)]
                 /\ pages[TailPage(slot.pages).index].references = {s}
                 /\ pages[TailPage(slot.pages).index].state = s
<1> DEFINE chain == requests[s].pages
           l == Len(chain)
           n == requests[s].resident_tokens
<1>0. PageTokens \in Int /\ PageTokens > 0 /\ Offset(0) = 0
  BY KvPoolAssumption, OffsetFacts
<1>1. KvTypeOK /\ FillingOf(s)
  BY Zenon DEF KvInv, PageOwnership, Filling
<1>2. chain \in Seq(PageId) /\ l \in Nat /\ n \in Nat
  BY <1>1, EntryTypes
<1>3. n <= Offset(l) /\ l > 0 => Offset(l - 1) < n
  BY Zenon, <1>1 DEF FillingOf
<1>4. CASE chain = <<>>
  <2>1. l = 0 /\ n = 0
    BY <1>0, <1>1, <1>2, <1>4 DEF FillingOf
  <2> QED
    BY <1>0, <1>4, <2>1 DEF TailCapacity
<1>5. CASE chain # <<>>
  <2>1. l \in Positions(s) /\ l > 0 /\ l \in Int
    BY <1>2, <1>5, EmptySeq DEF Positions
  <2> DEFINE page == pages[chain[l].index]
  <2>2. page.initialized_tokens = Filled(l, n)
    BY Zenon, <1>1, <2>1 DEF FillingOf
  <2>3. Filled(l, n) = n - Offset(l - 1) /\ Offset(l - 1) = Offset(l) - PageTokens
    <3>1. Offset(l - 1) < n /\ n <= Offset(l)
      BY Zenon, <1>1, <2>1 DEF FillingOf
    <3> HIDE DEF n, l
    <3> QED
      BY Zenon, <1>2, <2>1, <3>1, FilledFacts, OffsetStep
  <2>4. \/ page.state = s /\ page.references = {s}
        \/ page.state = Sealed /\ page.initialized_tokens = PageTokens
    BY Zenon, <2>1 DEF KvInv, WriteExclusive
  <2>5. s # Sealed
    BY IdentityAssumption DEF RequestSlot, Sealed
  <2>6. Offset(l) \in Int
    BY Zenon, <2>1, OffsetFacts
  <2>7. TailCapacity(chain) = Offset(l) - n
    <3>1. CASE page.state = Sealed
      <4>1. page.initialized_tokens = PageTokens
        BY Zenon, <2>4, <2>5, <3>1
      <4> HIDE DEF n, l
      <4>2. Offset(l) - n = 0
        BY <4>1, <2>2, <2>3, <2>6, <1>0, <1>2
      <4> QED
        BY Zenon, <4>2, <3>1 DEF TailCapacity, TailPage, l
    <3>2. CASE page.state # Sealed
      <4>1. TailCapacity(chain) = PageTokens - page.initialized_tokens
        BY Zenon, <1>5, <3>2 DEF TailCapacity, TailPage
      <4> HIDE DEF n, l
      <4> QED
        BY <4>1, <2>2, <2>3, <2>6, <1>0, <1>2
    <3> QED
      BY Zenon, <3>1, <3>2
  <2>8. TailCapacity(chain) # 0 => page.state = s /\ page.references = {s}
    BY Zenon, <2>4, <2>5 DEF TailCapacity, TailPage
  <2> QED
    BY Zenon, <2>1, <2>7, <2>8 DEF TailPage
<1> QED
  BY Zenon, <1>4, <1>5

\* What an append puts on the tail, and the fresh pages it takes for the rest.
KeptTokens(r, n) == MinOf(n, TailCapacity(requests[r.slot].pages))
FreshPages(r, n) == PagesFor(n - KeptTokens(r, n))
TakenPages(r, n) == PoppedPages(FreshPages(r, n))
FreshTokens(r, n, i) == MinOf(PageTokens, n - KeptTokens(r, n) - (i - 1) * PageTokens)

\* What an append does to the free stack.
LEMMA AppendStack ==
    ASSUME KvInv, NEW r \in RequestId, NEW n \in 1 .. MaxContext, AppendTentative(r, n)
    PROVE  LET slot == requests[r.slot]
               kept == KeptTokens(r, n)
               fresh == FreshPages(r, n)
               taken == TakenPages(r, n) IN
           /\ AppendPoint(Len(slot.pages), slot.resident_tokens, n, kept)
           /\ fresh \in Nat
           /\ taken \in [1 .. fresh -> PageIndex]
           /\ \A i, j \in 1 .. fresh : taken[i] = taken[j] => i = j
           /\ \A i \in 1 .. fresh : pages[taken[i]].state = Free /\ pages[taken[i]].references = {}
           /\ free_stack' \in Seq(PageIndex) /\ Len(free_stack') <= PageCount
           /\ \A i, j \in 1 .. Len(free_stack') : free_stack'[i] = free_stack'[j] => i = j
           /\ \A p \in PageIndex :
                 (\E i \in 1 .. Len(free_stack') : free_stack'[i] = p)
                 <=> /\ \E i \in 1 .. Len(free_stack) : free_stack[i] = p
                     /\ \A i \in 1 .. fresh : taken[i] # p
<1> DEFINE slot == requests[r.slot]
           kept == KeptTokens(r, n)
           fresh == FreshPages(r, n)
           taken == TakenPages(r, n)
<1>0. KvTypeOK /\ r.slot \in RequestSlot /\ FillingOf(r.slot)
  BY Zenon DEF KvInv, PageOwnership, RequestId, Filling
<1>1. /\ Len(slot.pages) \in Nat /\ slot.resident_tokens \in Nat
      /\ slot.resident_tokens <= Offset(Len(slot.pages))
      /\ Len(slot.pages) > 0 => Offset(Len(slot.pages) - 1) < slot.resident_tokens
  BY <1>0, EntryTypes DEF FillingOf
<1>2. kept = MinOf(n, Offset(Len(slot.pages)) - slot.resident_tokens)
  BY Zenon, <1>0, TailRoom DEF KeptTokens
<1>3. AppendPoint(Len(slot.pages), slot.resident_tokens, n, kept) /\ fresh \in Nat
  <2>1. AppendPoint(Len(slot.pages), slot.resident_tokens, n, kept)
    BY <1>1, <1>2, KvPoolAssumption DEF AppendPoint
  <2> QED
    BY Zenon, <2>1, AppendNumbers DEF FreshPages
<1> DEFINE stack == free_stack
           len == Len(stack)
           left == len - fresh
<1>4. fresh <= len /\ stack \in Seq(PageIndex) /\ len \in Nat /\ len <= PageCount
      /\ free_stack' = SubSeq(stack, 1, left)
  <2>1. fresh <= len /\ free_stack' = SubSeq(stack, 1, left)
    BY Zenon DEF AppendTentative, FreshPages, KeptTokens
  <2>2. stack \in Seq(PageIndex) /\ len <= PageCount
    BY Zenon, <1>0 DEF KvTypeOK
  <2> QED
    BY <2>1, <2>2
<1>5. \A x, y \in 1 .. len : stack[x] = stack[y] => x = y
  BY Zenon DEF KvInv, PageOwnership
<1>6. /\ taken = [i \in 1 .. fresh |-> stack[len + 1 - i]]
      /\ \A i \in 1 .. fresh : len + 1 - i \in 1 .. len
  BY <1>3, <1>4 DEF TakenPages, PoppedPages
<1>7. taken \in [1 .. fresh -> PageIndex]
  BY <1>4, <1>6
<1>8. \A i, j \in 1 .. fresh : taken[i] = taken[j] => i = j
  <2> TAKE i, j \in 1 .. fresh
  <2> DEFINE x == len + 1 - i
             y == len + 1 - j
  <2>1. taken[i] = stack[x] /\ taken[j] = stack[y]
    BY Zenon, <1>6
  <2>2. x \in 1 .. len /\ y \in 1 .. len
    BY Zenon, <1>6
  <2>3. x = y => i = j
    BY <1>3, <1>4
  <2> HIDE DEF x, y
  <2> QED
    BY Zenon, <1>5, <2>1, <2>2, <2>3
<1>9. \A i \in 1 .. fresh : pages[taken[i]].state = Free /\ pages[taken[i]].references = {}
  <2>1. \A p \in PageIndex :
           (\E x \in 1 .. len : stack[x] = p)
           => pages[p].state = Free /\ pages[p].references = {}
    BY Zenon DEF KvInv, PageOwnership
  <2>2. \A i \in 1 .. fresh : \E x \in 1 .. len : stack[x] = taken[i]
    BY Zenon, <1>6
  <2> QED
    BY Zenon, <1>7, <2>1, <2>2
<1>10. /\ free_stack' \in Seq(PageIndex) /\ Len(free_stack') = left
       /\ left \in 0 .. len
       /\ \A i \in 1 .. left : free_stack'[i] = stack[i]
  <2> HIDE DEF stack
  <2>1. left \in 0 .. len
    BY <1>3, <1>4
  <2> QED
    BY <1>3, <1>4, <2>1
<1>11. \A i, j \in 1 .. Len(free_stack') : free_stack'[i] = free_stack'[j] => i = j
  <2> TAKE i, j \in 1 .. Len(free_stack')
  <2>1. i \in 1 .. left /\ j \in 1 .. left /\ i \in 1 .. len /\ j \in 1 .. len
    BY <1>4, <1>10
  <2> QED
    BY Zenon, <1>5, <1>10, <2>1
<1>12. ASSUME NEW p \in PageIndex
       PROVE  (\E i \in 1 .. Len(free_stack') : free_stack'[i] = p)
              <=> /\ \E i \in 1 .. len : stack[i] = p
                  /\ \A i \in 1 .. fresh : taken[i] # p
  <2>1. ASSUME NEW i \in 1 .. left, stack[i] = p
        PROVE  i \in 1 .. len /\ \A j \in 1 .. fresh : taken[j] # p
    <3>1. i \in 1 .. len
      BY <1>4, <1>10
    <3>2. ASSUME NEW j \in 1 .. fresh PROVE taken[j] # p
      <4> DEFINE y == len + 1 - j
      <4>1. y \in 1 .. len /\ taken[j] = stack[y]
        BY Zenon, <1>6
      <4>2. y # i
        BY <1>3, <1>4
      <4> HIDE DEF y
      <4> QED
        BY Zenon, <1>5, <2>1, <3>1, <4>1, <4>2
    <3> QED
      BY Zenon, <3>1, <3>2
  <2>2. ASSUME NEW i \in 1 .. len, stack[i] = p, \A j \in 1 .. fresh : taken[j] # p
        PROVE  i \in 1 .. left
    <3>1. CASE i <= left
      BY <3>1, <1>3, <1>4
    <3>2. CASE i > left
      <4> DEFINE j == len + 1 - i
      <4>1. j \in 1 .. fresh /\ len + 1 - j = i
        BY <3>2, <1>3, <1>4
      <4>2. taken[j] = stack[len + 1 - j]
        BY Zenon, <4>1, <1>6
      <4>3. taken[j] = stack[i]
        BY Zenon, <4>1, <4>2
      <4> HIDE DEF j
      <4> QED
        BY Zenon, <2>2, <4>1, <4>3
    <3> QED
      BY <3>1, <3>2, <1>3, <1>4
  <2>3. (\E i \in 1 .. Len(free_stack') : free_stack'[i] = p) <=> \E i \in 1 .. left : stack[i] = p
    BY Zenon, <1>10
  <2> QED
    BY Zenon, <2>1, <2>2, <2>3
<1> QED
  <2>1. Len(free_stack') <= PageCount
    BY <1>4, <1>10, KvPoolAssumption
  <2> QED
    BY Zenon, <1>3, <1>7, <1>8, <1>9, <1>10, <1>11, <1>12, <2>1

\* What an append does to the pages and to the chain.
LEMMA AppendPages ==
    ASSUME KvInv, NEW r \in RequestId, NEW n \in 1 .. MaxContext, AppendTentative(r, n)
    PROVE  LET slot == requests[r.slot]
               kept == KeptTokens(r, n)
               fresh == FreshPages(r, n)
               taken == TakenPages(r, n) IN
           /\ \A p \in PageIndex : pages'[p].generation = pages[p].generation
           /\ \A i \in 1 .. fresh :
                 /\ pages'[taken[i]].state = r.slot
                 /\ pages'[taken[i]].references = {r.slot}
                 /\ pages'[taken[i]].initialized_tokens
                       = FreshTokens(r, n, i)
           /\ \A p \in PageIndex : (\A i \in 1 .. fresh : taken[i] # p) =>
                 /\ pages'[p].state = pages[p].state
                 /\ pages'[p].references = pages[p].references
                 /\ kept > 0 /\ p = TailPage(slot.pages).index =>
                       pages'[p].initialized_tokens = pages[p].initialized_tokens + kept
                 /\ ~(kept > 0 /\ p = TailPage(slot.pages).index) =>
                       pages'[p].initialized_tokens = pages[p].initialized_tokens
           /\ pages' = [p \in PageIndex |->
                 [generation |-> pages'[p].generation, state |-> pages'[p].state,
                  initialized_tokens |-> pages'[p].initialized_tokens,
                  references |-> pages'[p].references]]
           /\ \A s \in RequestSlot : s # r.slot => requests'[s] = requests[s]
           /\ requests'[r.slot].generation = slot.generation
           /\ requests'[r.slot].live = TRUE
           /\ requests'[r.slot].committed_tokens = slot.committed_tokens
           /\ requests'[r.slot].resident_tokens = slot.resident_tokens + n
           /\ requests'[r.slot].pages = slot.pages \o [i \in 1 .. fresh |->
                                [index |-> taken[i],
                                 generation |-> pages[taken[i]].generation]]
           /\ requests'[r.slot] =
                 [generation |-> requests'[r.slot].generation,
                  live |-> requests'[r.slot].live,
                  committed_tokens |-> requests'[r.slot].committed_tokens,
                  resident_tokens |-> requests'[r.slot].resident_tokens,
                  pages |-> requests'[r.slot].pages]
           /\ requests' = [s \in RequestSlot |-> requests'[s]]
           /\ slot.live
           /\ slot.resident_tokens + n <= MaxContext
           /\ Len(slot.pages) + fresh <= MaxPagesPerRequest
<1> DEFINE slot == requests[r.slot]
           kept == KeptTokens(r, n)
           fresh == FreshPages(r, n)
           taken == TakenPages(r, n)
<1>0. KvTypeOK /\ r.slot \in RequestSlot
  BY Zenon DEF KvInv, PageOwnership, RequestId
<1>1. /\ taken \in [1 .. fresh -> PageIndex]
      /\ \A i, j \in 1 .. fresh : taken[i] = taken[j] => i = j
      /\ \A i \in 1 .. fresh : pages[taken[i]].references = {}
  BY Zenon, AppendStack
<1>2. pages' = [p \in PageIndex |->
          IF \E i \in 1 .. fresh : taken[i] = p
          THEN LET i == CHOOSE i \in 1 .. fresh : taken[i] = p IN
               [generation |-> pages[p].generation, state |-> r.slot,
                initialized_tokens |-> FreshTokens(r, n, i),
                references |-> pages[p].references \cup {r.slot}]
          ELSE IF kept > 0 /\ p = TailPage(slot.pages).index
          THEN [pages[p] EXCEPT !.initialized_tokens = @ + kept]
          ELSE pages[p]]
  BY Zenon DEF AppendTentative, KeptTokens, FreshPages, TakenPages, FreshTokens
<1>3. ASSUME NEW k \in 1 .. fresh
      PROVE  pages'[taken[k]] =
                [generation |-> pages[taken[k]].generation, state |-> r.slot,
                 initialized_tokens |-> FreshTokens(r, n, k),
                 references |-> {r.slot}]
  <2>1. (CHOOSE i \in 1 .. fresh : taken[i] = taken[k]) = k
    BY Zenon, <1>1
  <2>2. taken[k] \in PageIndex /\ pages[taken[k]].references \cup {r.slot} = {r.slot}
    BY Zenon, <1>1
  <2> HIDE DEF fresh, taken, kept
  <2> QED
    BY Zenon, <1>2, <2>1, <2>2
<1>4. ASSUME NEW p \in PageIndex, \A i \in 1 .. fresh : taken[i] # p
      PROVE  pages'[p] = IF kept > 0 /\ p = TailPage(slot.pages).index
                         THEN [pages[p] EXCEPT !.initialized_tokens = @ + kept]
                         ELSE pages[p]
  BY Zenon, <1>2, <1>4
<1>5. ASSUME NEW p \in PageIndex, \A i \in 1 .. fresh : taken[i] # p
      PROVE  /\ pages'[p].generation = pages[p].generation
             /\ pages'[p].state = pages[p].state
             /\ pages'[p].references = pages[p].references
             /\ kept > 0 /\ p = TailPage(slot.pages).index =>
                   pages'[p].initialized_tokens = pages[p].initialized_tokens + kept
             /\ ~(kept > 0 /\ p = TailPage(slot.pages).index) =>
                   pages'[p].initialized_tokens = pages[p].initialized_tokens
             /\ pages'[p] = [generation |-> pages'[p].generation, state |-> pages'[p].state,
                             initialized_tokens |-> pages'[p].initialized_tokens,
                             references |-> pages'[p].references]
  <2>1. pages[p] \in PageSlot
    BY Zenon, <1>0, PageTypes
  <2> HIDE DEF kept, slot
  <2> QED
    BY Zenon, <1>4, <1>5, <2>1 DEF PageSlot
<1>6. ASSUME NEW p \in PageIndex
      PROVE  /\ pages'[p].generation = pages[p].generation
             /\ pages'[p] = [generation |-> pages'[p].generation, state |-> pages'[p].state,
                             initialized_tokens |-> pages'[p].initialized_tokens,
                             references |-> pages'[p].references]
  <2>1. CASE \A i \in 1 .. fresh : taken[i] # p
    BY Zenon, <1>5, <2>1
  <2>2. CASE \E i \in 1 .. fresh : taken[i] = p
    <3>1. PICK k \in 1 .. fresh : taken[k] = p
      BY Zenon, <2>2
    <3> DEFINE old == pages[p].generation
               size == FreshTokens(r, n, k)
    <3>2. pages'[p] = [generation |-> old, state |-> r.slot,
                       initialized_tokens |-> size, references |-> {r.slot}]
      BY <1>3, <3>1, Zenon
    <3> HIDE DEF old, size
    <3>3. /\ pages'[p].generation = old
          /\ pages'[p] = [generation |-> pages'[p].generation, state |-> pages'[p].state,
                          initialized_tokens |-> pages'[p].initialized_tokens,
                          references |-> pages'[p].references]
      BY <3>2
    <3> QED
      BY Zenon, <3>3 DEF old
  <2> QED
    BY Zenon, <2>1, <2>2
<1>7. pages' = [p \in PageIndex |->
                 [generation |-> pages'[p].generation, state |-> pages'[p].state,
                  initialized_tokens |-> pages'[p].initialized_tokens,
                  references |-> pages'[p].references]]
  <2>1. pages' = [p \in PageIndex |-> pages'[p]]
    BY Zenon, <1>2
  <2> QED
    BY Zenon, <1>6, <2>1
<1>8. /\ requests' = [requests EXCEPT ![r.slot] =
                 [slot EXCEPT !.resident_tokens = slot.resident_tokens + n,
                              !.pages = slot.pages \o [i \in 1 .. fresh |->
                                   [index |-> taken[i],
                                    generation |-> pages[taken[i]].generation]]]]
      /\ requests = [s \in RequestSlot |-> requests[s]]
      /\ slot \in RequestEntry
  BY Zenon, <1>0 DEF AppendTentative, KvTypeOK, KeptTokens, FreshPages, TakenPages
<1>9. /\ slot.live
      /\ slot.resident_tokens + n <= MaxContext
      /\ Len(slot.pages) + fresh <= MaxPagesPerRequest
  BY Zenon DEF AppendTentative, LiveKv, KeptTokens, FreshPages
<1>10. /\ \A s \in RequestSlot : s # r.slot => requests'[s] = requests[s]
       /\ requests' = [s \in RequestSlot |-> requests'[s]]
       /\ requests'[r.slot] =
             [slot EXCEPT !.resident_tokens = slot.resident_tokens + n,
                          !.pages = slot.pages \o [i \in 1 .. fresh |->
                               [index |-> taken[i],
                                generation |-> pages[taken[i]].generation]]]
  <2> HIDE DEF slot, fresh, taken
  <2> QED
    BY Zenon, <1>0, <1>8
<1>11. /\ requests'[r.slot].generation = slot.generation
       /\ requests'[r.slot].live = TRUE
       /\ requests'[r.slot].committed_tokens = slot.committed_tokens
       /\ requests'[r.slot].resident_tokens = slot.resident_tokens + n
       /\ requests'[r.slot].pages = slot.pages \o [i \in 1 .. fresh |->
                            [index |-> taken[i],
                             generation |-> pages[taken[i]].generation]]
       /\ requests'[r.slot] =
             [generation |-> requests'[r.slot].generation,
              live |-> requests'[r.slot].live,
              committed_tokens |-> requests'[r.slot].committed_tokens,
              resident_tokens |-> requests'[r.slot].resident_tokens,
              pages |-> requests'[r.slot].pages]
  <2>1. slot.live = TRUE
    BY Zenon, <1>8, <1>9 DEF RequestEntry
  <2> DEFINE more == slot.pages \o [i \in 1 .. fresh |->
                               [index |-> taken[i],
                                generation |-> pages[taken[i]].generation]]
  <2>2. requests'[r.slot] =
             [slot EXCEPT !.resident_tokens = slot.resident_tokens + n, !.pages = more]
    BY Zenon, <1>10
  <2>3. slot \in RequestEntry
    BY Zenon, <1>8
  <2> HIDE DEF slot, more
  <2>4. requests'[r.slot] =
                 [generation |-> slot.generation, live |-> TRUE,
                  committed_tokens |-> slot.committed_tokens,
                  resident_tokens |-> slot.resident_tokens + n, pages |-> more]
    BY Zenon, <2>1, <2>2, <2>3 DEF RequestEntry
  <2> DEFINE entry == requests'[r.slot]
  <2>5. entry = [generation |-> slot.generation, live |-> TRUE,
                 committed_tokens |-> slot.committed_tokens,
                 resident_tokens |-> slot.resident_tokens + n, pages |-> more]
    BY Zenon, <2>4
  <2> HIDE DEF entry
  <2>6. /\ entry.generation = slot.generation /\ entry.live = TRUE
        /\ entry.committed_tokens = slot.committed_tokens
        /\ entry.resident_tokens = slot.resident_tokens + n
        /\ entry.pages = more
        /\ entry = [generation |-> entry.generation, live |-> entry.live,
                    committed_tokens |-> entry.committed_tokens,
                    resident_tokens |-> entry.resident_tokens, pages |-> entry.pages]
    BY Zenon, <2>5
  <2> QED
    BY Zenon, <2>6 DEF more, entry
<1> QED
  <2> HIDE DEF kept, taken, fresh, slot
  <2>1. \A i \in 1 .. fresh :
                 /\ pages'[taken[i]].state = r.slot
                 /\ pages'[taken[i]].references = {r.slot}
                 /\ pages'[taken[i]].initialized_tokens
                       = FreshTokens(r, n, i)
    <3> TAKE i \in 1 .. fresh
    <3> DEFINE old == pages[taken[i]].generation
               size == FreshTokens(r, n, i)
               page == pages'[taken[i]]
    <3>1. page = [generation |-> old, state |-> r.slot,
                  initialized_tokens |-> size, references |-> {r.slot}]
      BY <1>3, Zenon
    <3> HIDE DEF old, size, page
    <3>2. page.state = r.slot /\ page.references = {r.slot} /\ page.initialized_tokens = size
      BY Zenon, <3>1
    <3> QED
      BY Zenon, <3>2 DEF page, size
  <2>2. \A p \in PageIndex : pages'[p].generation = pages[p].generation
    BY Zenon, <1>6
  <2>3. \A p \in PageIndex : (\A i \in 1 .. fresh : taken[i] # p) =>
                 /\ pages'[p].state = pages[p].state
                 /\ pages'[p].references = pages[p].references
                 /\ kept > 0 /\ p = TailPage(slot.pages).index =>
                       pages'[p].initialized_tokens = pages[p].initialized_tokens + kept
                 /\ ~(kept > 0 /\ p = TailPage(slot.pages).index) =>
                       pages'[p].initialized_tokens = pages[p].initialized_tokens
    BY Zenon, <1>5
  <2> QED
    BY Zenon, <2>1, <2>2, <2>3, <1>7, <1>9, <1>10, <1>11 DEF kept, taken, fresh, slot

\* The chain after an append: the old positions, then the fresh pages.
LEMMA AppendChain ==
    ASSUME KvInv, NEW r \in RequestId, NEW n \in 1 .. MaxContext, AppendTentative(r, n)
    PROVE  LET l == Len(requests[r.slot].pages)
               old == requests[r.slot].pages
               new == requests'[r.slot].pages
               fresh == FreshPages(r, n)
               taken == TakenPages(r, n) IN
           /\ l \in Nat /\ new \in Seq(PageId) /\ Len(new) = l + fresh
           /\ \A i \in 1 .. l : i \in 1 .. (l + fresh) /\ new[i] = old[i]
           /\ \A k \in 1 .. fresh :
                 /\ l + k \in 1 .. (l + fresh)
                 /\ new[l + k].index = taken[k]
                 /\ new[l + k].generation = pages[taken[k]].generation
           /\ \A i \in 1 .. (l + fresh) : i \in 1 .. l \/ \E k \in 1 .. fresh : i = l + k
<1> DEFINE l == Len(requests[r.slot].pages)
           old == requests[r.slot].pages
           new == requests'[r.slot].pages
           fresh == FreshPages(r, n)
           taken == TakenPages(r, n)
           more == [i \in 1 .. fresh |->
                       [index |-> taken[i], generation |-> pages[taken[i]].generation]]
<1>0. KvTypeOK /\ r.slot \in RequestSlot
  BY Zenon DEF KvInv, PageOwnership, RequestId
<1>1. fresh \in Nat /\ taken \in [1 .. fresh -> PageIndex]
  BY Zenon, AppendStack
<1>2. new = old \o more
  BY Zenon, AppendPages
<1>3. old \in Seq(PageId) /\ l \in Nat
  BY Zenon, <1>0, EntryTypes
<1>4. /\ more \in Seq(PageId) /\ Len(more) = fresh
      /\ \A k \in 1 .. fresh :
            more[k] = [index |-> taken[k], generation |-> pages[taken[k]].generation]
  <2>1. \A i \in 1 .. fresh :
           [index |-> taken[i], generation |-> pages[taken[i]].generation] \in PageId
    BY Zenon, <1>0, <1>1, PageTypes DEF PageId
  <2> HIDE DEF fresh, taken
  <2> QED
    BY <1>1, <2>1
<1> HIDE DEF fresh, taken, more, l, new
<1>5. /\ new \in Seq(PageId) /\ Len(new) = l + fresh
      /\ \A i \in 1 .. (l + fresh) : new[i] = IF i <= l THEN old[i] ELSE more[i - l]
  BY <1>2, <1>3, <1>4, ConcatProperties DEF l
<1>6. ASSUME NEW i \in 1 .. l
      PROVE  i \in 1 .. (l + fresh) /\ new[i] = old[i]
  BY <1>1, <1>3, <1>5
<1>7. ASSUME NEW k \in 1 .. fresh
      PROVE  /\ l + k \in 1 .. (l + fresh)
             /\ new[l + k].index = taken[k]
             /\ new[l + k].generation = pages[taken[k]].generation
  <2>1. l + k \in 1 .. (l + fresh) /\ ~(l + k <= l) /\ (l + k) - l = k
    BY <1>1, <1>3
  <2>2. new[l + k] = more[k]
    BY Zenon, <1>5, <2>1
  <2> QED
    BY <1>4, <2>1, <2>2
<1>8. ASSUME NEW i \in 1 .. (l + fresh)
      PROVE  i \in 1 .. l \/ \E k \in 1 .. fresh : i = l + k
  <2>1. CASE i <= l
    BY <1>1, <1>3, <2>1
  <2>2. CASE i > l
    <3>1. i - l \in 1 .. fresh /\ i = l + (i - l)
      BY <1>1, <1>3, <2>2
    <3> QED
      BY Zenon, <3>1
  <2> QED
    BY <1>1, <1>3, <2>1, <2>2
<1> QED
  BY Zenon, <1>3, <1>5, <1>6, <1>7, <1>8 DEF l, fresh, taken, new

LEMMA AppendInv ==
    ASSUME KvInv, NEW r \in RequestId, NEW n \in 1 .. MaxContext, AppendTentative(r, n)
    PROVE  KvInv'
<1> DEFINE own == r.slot
           l == Len(requests[own].pages)
           resident == requests[own].resident_tokens
           old == requests[own].pages
           new == requests'[own].pages
           kept == KeptTokens(r, n)
           fresh == FreshPages(r, n)
           taken == TakenPages(r, n)
           tail == TailPage(requests[own].pages).index
<1>0. KvTypeOK /\ own \in RequestSlot /\ Free \notin RequestSlot /\ Sealed \notin RequestSlot
  BY IdentityAssumption DEF KvInv, PageOwnership, RequestId, RequestSlot, Free, Sealed
\* The facts the steps below use.
<1>1. /\ AppendPoint(l, resident, n, kept)
      /\ fresh \in Nat
      /\ \A k \in 1 .. fresh : taken[k] \in PageIndex
      /\ \A i, j \in 1 .. fresh : taken[i] = taken[j] => i = j
      /\ \A i \in 1 .. fresh : pages[taken[i]].state = Free /\ pages[taken[i]].references = {}
  <2>1. /\ AppendPoint(l, resident, n, kept) /\ fresh \in Nat
        /\ taken \in [1 .. fresh -> PageIndex]
        /\ \A i, j \in 1 .. fresh : taken[i] = taken[j] => i = j
        /\ \A i \in 1 .. fresh : pages[taken[i]].state = Free /\ pages[taken[i]].references = {}
    BY Zenon, AppendStack
  <2> HIDE DEF kept, fresh, taken
  <2> QED
    BY Zenon, <2>1
<1>2. /\ free_stack' \in Seq(PageIndex) /\ Len(free_stack') <= PageCount
      /\ \A i, j \in 1 .. Len(free_stack') : free_stack'[i] = free_stack'[j] => i = j
      /\ \A p \in PageIndex :
            (\E i \in 1 .. Len(free_stack') : free_stack'[i] = p)
            <=> /\ \E i \in 1 .. Len(free_stack) : free_stack[i] = p
                /\ \A i \in 1 .. fresh : taken[i] # p
  BY Zenon, AppendStack
<1>3. /\ \A p \in PageIndex : pages'[p].generation = pages[p].generation
      /\ \A i \in 1 .. fresh :
            /\ pages'[taken[i]].state = own
            /\ pages'[taken[i]].references = {own}
            /\ pages'[taken[i]].initialized_tokens = FreshTokens(r, n, i)
      /\ \A p \in PageIndex : (\A i \in 1 .. fresh : taken[i] # p) =>
            /\ pages'[p].state = pages[p].state
            /\ pages'[p].references = pages[p].references
            /\ kept > 0 /\ p = tail =>
                  pages'[p].initialized_tokens = pages[p].initialized_tokens + kept
            /\ ~(kept > 0 /\ p = tail) =>
                  pages'[p].initialized_tokens = pages[p].initialized_tokens
  BY Zenon, AppendPages
<1>4. /\ \A s \in RequestSlot : s # own => requests'[s] = requests[s]
      /\ requests'[own].live
      /\ requests'[own].committed_tokens = requests[own].committed_tokens
      /\ requests'[own].resident_tokens = resident + n
      /\ requests'[own].generation = requests[own].generation
      /\ resident + n <= MaxContext
      /\ l + fresh <= MaxPagesPerRequest
  BY Zenon, AppendPages
<1>5. /\ l \in Nat /\ new \in Seq(PageId) /\ Len(new) = l + fresh
      /\ \A i \in 1 .. l : i \in 1 .. (l + fresh) /\ new[i] = old[i]
      /\ \A k \in 1 .. fresh :
            /\ l + k \in 1 .. (l + fresh)
            /\ new[l + k].index = taken[k]
            /\ new[l + k].generation = pages[taken[k]].generation
      /\ \A i \in 1 .. (l + fresh) : i \in 1 .. l \/ \E k \in 1 .. fresh : i = l + k
  BY Zenon, AppendChain
<1>6. /\ Positions(own) = 1 .. l /\ Positions(own)' = 1 .. (l + fresh)
      /\ \A s \in RequestSlot : s # own => Positions(s)' = Positions(s)
  BY Zenon, <1>4, <1>5 DEF Positions
<1>7. \A s \in RequestSlot : \A i \in Positions(s), k \in 1 .. fresh :
         requests[s].pages[i].index # taken[k]
  BY Zenon, <1>1, NamedPage
<1>8. /\ kept > 0 => l \in 1 .. l /\ tail = old[l].index
      /\ kept > 0 => \A i \in 1 .. l : old[i].index = tail => i = l
      /\ kept > 0 => \A s \in RequestSlot : s # own =>
            \A i \in Positions(s) : requests[s].pages[i].index # tail
  <2> SUFFICES ASSUME kept > 0
               PROVE  /\ l \in 1 .. l /\ tail = old[l].index
                      /\ \A i \in 1 .. l : old[i].index = tail => i = l
                      /\ \A s \in RequestSlot : s # own =>
                            \A i \in Positions(s) : requests[s].pages[i].index # tail
    BY Zenon
  <2>1. TailCapacity(old) # 0
    BY <1>0, <1>1, KvPoolAssumption DEF KeptTokens, MinOf
  <2>2. /\ l \in Positions(own) /\ TailPage(old) = old[l]
        /\ pages[tail].references = {own}
    BY Zenon, <1>0, <2>1, TailRoom
  <2>3. \A i \in 1 .. l : old[i].index = tail => i = l
    BY <1>0, <1>6, <2>2 DEF KvInv, PageOwnership
  <2>4. ASSUME NEW s \in RequestSlot, s # own, NEW i \in Positions(s)
        PROVE  requests[s].pages[i].index # tail
    BY Zenon, <2>2, <2>4, NamedPage
  <2> QED
    BY Zenon, <1>6, <2>2, <2>3, <2>4
<1> HIDE DEF own, l, resident, old, new, kept, fresh, taken, tail
\* What each page of the longer chain holds.
<1>9. \A i \in 1 .. (l + fresh) :
         pages'[new[i].index].initialized_tokens = Filled(i, resident + n)
  <2>1. \A i \in 1 .. l : pages[old[i].index].initialized_tokens = Filled(i, resident)
    BY Zenon, <1>0, <1>6 DEF KvInv, Filling, FillingOf, l, old, resident
  <2>2. ASSUME NEW i \in 1 .. l
        PROVE  pages'[new[i].index].initialized_tokens = Filled(i, resident + n)
    <3>1. new[i].index = old[i].index /\ old[i].index \in PageIndex
      BY Zenon, <1>0, <1>5, <1>6, EntryTypes DEF old
    <3>2. \A k \in 1 .. fresh : taken[k] # old[i].index
      BY Zenon, <1>0, <1>6, <1>7 DEF old
    <3>3. CASE i = l
      <4>1. Filled(l, resident + n) = Filled(l, resident) + kept
        <5>1. l > 0
          BY <1>5
        <5> QED
          BY <1>1, <5>1, AppendNumbers
      <4>2. kept > 0 => old[i].index = tail
        BY Zenon, <1>8, <3>3
      <4>3. kept \in Nat /\ Filled(l, resident) \in Int
        <5>1. kept \in Nat
          BY Zenon, <1>1, AppendNumbers
        <5>2. l \in Int /\ resident \in Nat
          BY <1>1 DEF AppendPoint
        <5> QED
          BY <5>1, <5>2, FilledFacts, KvPoolAssumption
      <4>4. kept = 0 => Filled(l, resident) + kept = Filled(l, resident)
        BY <4>3
      <4> QED
        BY <1>3, <2>1, <3>1, <3>2, <3>3, <4>1, <4>2, <4>3, <4>4
    <3>4. CASE i # l
      <4>1. i \in 1 .. (l - 1)
        BY <1>5, <3>4
      <4>2. Filled(i, resident + n) = Filled(i, resident)
        BY <1>1, <4>1, AppendNumbers
      <4>3. ~(kept > 0 /\ old[i].index = tail)
        BY Zenon, <1>8, <3>4
      <4> QED
        BY Zenon, <1>3, <2>1, <3>1, <3>2, <4>2, <4>3
    <3> QED
      BY Zenon, <3>3, <3>4
  <2>3. ASSUME NEW k \in 1 .. fresh
        PROVE  pages'[new[l + k].index].initialized_tokens = Filled(l + k, resident + n)
    <3>1. Filled(l + k, resident + n) = MinOf(PageTokens, n - kept - (k - 1) * PageTokens)
      BY <1>1, AppendNumbers DEF fresh, FreshPages, kept
    <3>2. FreshTokens(r, n, k) = MinOf(PageTokens, n - kept - (k - 1) * PageTokens)
      BY Zenon DEF FreshTokens, kept
    <3>3. pages'[new[l + k].index].initialized_tokens = FreshTokens(r, n, k)
      BY Zenon, <1>3, <1>5
    <3> QED
      BY Zenon, <3>1, <3>2, <3>3
  <2> QED
    BY ZenonT(30), <1>5, <2>2, <2>3
<1>11. KvTypeOK'
  <2>1. ASSUME NEW p \in PageIndex
        PROVE  /\ pages'[p].generation \in 1 .. MaxPageGeneration
               /\ pages'[p].state \in {Free, Sealed} \cup RequestSlot
               /\ pages'[p].references \in SUBSET RequestSlot
    BY <1>0, <1>3, PageTypes
  <2>2. ASSUME NEW p \in PageIndex
        PROVE  pages'[p].initialized_tokens \in 0 .. PageTokens
    <3>1. CASE \E i \in 1 .. (l + fresh) : new[i].index = p
      <4>1. PICK i \in 1 .. (l + fresh) : new[i].index = p
        BY Zenon, <3>1
      <4> DEFINE total == resident + n
      <4>2. i \in Int /\ total \in Nat
        BY <1>1 DEF AppendPoint
      <4>3. pages'[p].initialized_tokens = Filled(i, total)
        BY Zenon, <1>9, <4>1
      <4> HIDE DEF total
      <4> QED
        BY Zenon, <4>2, <4>3, FilledFacts
    <3>2. CASE \A i \in 1 .. (l + fresh) : new[i].index # p
      <4>1. \A k \in 1 .. fresh : taken[k] # p
        BY Zenon, <1>5, <3>2
      <4>2. ~(kept > 0 /\ p = tail)
        BY Zenon, <1>5, <1>8, <3>2
      <4> QED
        BY Zenon, <1>0, <1>3, <4>1, <4>2, PageTypes
    <3> QED
      BY Zenon, <3>1, <3>2
  <2>3. pages' \in [PageIndex -> PageSlot]
    <3>1. pages' = [p \in PageIndex |->
                 [generation |-> pages'[p].generation, state |-> pages'[p].state,
                  initialized_tokens |-> pages'[p].initialized_tokens,
                  references |-> pages'[p].references]]
      BY Zenon, AppendPages
    <3>2. \A p \in PageIndex :
             [generation |-> pages'[p].generation, state |-> pages'[p].state,
              initialized_tokens |-> pages'[p].initialized_tokens,
              references |-> pages'[p].references] \in PageSlot
      BY Zenon, <2>1, <2>2 DEF PageSlot
    <3> QED
      BY Zenon, <3>1, <3>2
  <2>4. requests' \in [RequestSlot -> RequestEntry]
    <3> DEFINE entry == requests'[own]
    <3>1. entry \in RequestEntry
      <4>1. entry = [generation |-> entry.generation, live |-> entry.live,
                     committed_tokens |-> entry.committed_tokens,
                     resident_tokens |-> entry.resident_tokens, pages |-> entry.pages]
        BY Zenon, AppendPages DEF own
      <4>2. /\ entry.generation \in Generation /\ entry.live \in BOOLEAN
            /\ entry.committed_tokens \in 0 .. MaxContext
            /\ entry.resident_tokens \in 0 .. MaxContext
            /\ entry.pages \in Seq(PageId)
        <5>1. entry.live = TRUE
          BY Zenon, AppendPages DEF own
        <5>2. entry.resident_tokens \in 0 .. MaxContext
          BY <1>1, <1>4, KvPoolAssumption DEF AppendPoint
        <5> QED
          BY Zenon, <1>0, <1>4, <1>5, <5>1, <5>2, EntryTypes DEF new
      <4> HIDE DEF entry
      <4> QED
        BY Zenon, <4>1, <4>2 DEF RequestEntry
    <3>2. requests' = [s \in RequestSlot |-> requests'[s]]
      BY Zenon, AppendPages
    <3>3. \A s \in RequestSlot : requests'[s] \in RequestEntry
      BY Zenon, <1>0, <1>4, <3>1 DEF KvTypeOK
    <3> QED
      BY Zenon, <3>2, <3>3
  <2>5. \A s \in RequestSlot : Len(requests'[s].pages) <= MaxPagesPerRequest
    BY Zenon, <1>0, <1>4, <1>5 DEF KvTypeOK, new
  <2> QED
    BY Zenon, <1>2, <2>3, <2>4, <2>5 DEF KvTypeOK
<1>12. PageOwnership'
  <2>1. ASSUME NEW s \in RequestSlot PROVE ~requests'[s].live => requests'[s].pages = <<>>
    BY ZenonT(30), <1>4 DEF KvInv, PageOwnership
  <2>2. ASSUME NEW i \in 1 .. (l + fresh)
        PROVE  /\ pages'[new[i].index].generation = new[i].generation
               /\ \A j \in 1 .. (l + fresh) : new[j].index = new[i].index => i = j
    <3>0. /\ \A j \in 1 .. l : /\ pages[old[j].index].generation = old[j].generation
                               /\ old[j].index \in PageIndex
          /\ \A j, k \in 1 .. l : old[j].index = old[k].index => j = k
      <4>1. \A j \in Positions(own) :
               /\ pages[old[j].index].generation = old[j].generation
               /\ \A k \in Positions(own) : old[k].index = old[j].index => j = k
        BY Zenon, <1>0 DEF KvInv, PageOwnership, old
      <4>2. \A j \in Positions(own) : old[j].index \in PageIndex
        BY Zenon, <1>0, EntryTypes DEF old
      <4> QED
        BY Zenon, <1>6, <4>1, <4>2
    <3>1. pages'[new[i].index].generation = new[i].generation
      <4>1. CASE i \in 1 .. l
        BY <1>3, <1>5, <3>0, <4>1
      <4>2. CASE \E k \in 1 .. fresh : i = l + k
        <5>1. PICK k \in 1 .. fresh : i = l + k
          BY Zenon, <4>2
        <5>2. new[i].index = taken[k] /\ new[i].generation = pages[taken[k]].generation
          BY Zenon, <1>5, <5>1
        <5> QED
          BY Zenon, <1>1, <1>3, <5>2
      <4> QED
        BY Zenon, <1>5, <4>1, <4>2
    <3>2. ASSUME NEW j \in 1 .. (l + fresh), new[j].index = new[i].index
          PROVE  i = j
      <4>1. \A j1 \in 1 .. l, k1 \in 1 .. fresh : old[j1].index # taken[k1]
        BY Zenon, <1>0, <1>6, <1>7 DEF old
      <4>2. ASSUME NEW j1 \in 1 .. (l + fresh)
            PROVE  \/ j1 \in 1 .. l /\ new[j1].index = old[j1].index
                   \/ \E k \in 1 .. fresh : j1 = l + k /\ new[j1].index = taken[k]
        BY <1>5
      <4>3. CASE i \in 1 .. l /\ new[i].index = old[i].index
        BY ZenonT(30), <3>0, <3>2, <4>1, <4>2, <4>3
      <4>4. CASE \E k \in 1 .. fresh : i = l + k /\ new[i].index = taken[k]
        <5>1. PICK k \in 1 .. fresh : i = l + k /\ new[i].index = taken[k]
          BY Zenon, <4>4
        <5>2. PICK k2 \in 1 .. fresh : j = l + k2 /\ new[j].index = taken[k2]
          BY Zenon, <3>2, <4>1, <4>2, <5>1
        <5> QED
          BY Zenon, <1>1, <3>2, <5>1, <5>2
      <4> QED
        BY Zenon, <4>2, <4>3, <4>4
    <3> QED
      BY Zenon, <3>1, <3>2
  <2>3. ASSUME NEW s \in RequestSlot, NEW i \in Positions(s)'
        PROVE  /\ pages'[requests'[s].pages[i].index].generation = requests'[s].pages[i].generation
               /\ \A j \in Positions(s)' :
                     requests'[s].pages[j].index = requests'[s].pages[i].index => i = j
    <3>1. CASE s = own
      BY Zenon, <1>6, <2>2, <3>1 DEF new
    <3>2. CASE s # own
      <4>1. i \in Positions(s) /\ requests'[s] = requests[s] /\ Positions(s)' = Positions(s)
        BY Zenon, <1>4, <1>6, <3>2
      <4>2. requests[s].pages[i].index \in PageIndex
        BY Zenon, <1>0, <4>1, EntryTypes
      <4> QED
        BY <1>3, <4>1, <4>2 DEF KvInv, PageOwnership
    <3> QED
      BY Zenon, <3>1, <3>2
  <2>4. ASSUME NEW p \in PageIndex
        PROVE  /\ pages'[p].references =
                     {s \in RequestSlot : \E i \in Positions(s)' : requests'[s].pages[i].index = p}
               /\ pages'[p].state = Free <=> pages'[p].references = {}
               /\ pages'[p].state = Free <=> \E i \in 1 .. Len(free_stack') : free_stack'[i] = p
    <3>0. /\ pages[p].references =
                {s \in RequestSlot : \E i \in Positions(s) : requests[s].pages[i].index = p}
          /\ pages[p].state = Free <=> pages[p].references = {}
          /\ pages[p].state = Free <=> \E i \in 1 .. Len(free_stack) : free_stack[i] = p
      BY Zenon DEF KvInv, PageOwnership
    <3>1. CASE \A k \in 1 .. fresh : taken[k] # p
      <4>1. ASSUME NEW s \in RequestSlot
            PROVE  (\E i \in Positions(s)' : requests'[s].pages[i].index = p)
                   <=> \E i \in Positions(s) : requests[s].pages[i].index = p
        <5>1. CASE s = own
          <6>1. (\E i \in 1 .. (l + fresh) : new[i].index = p)
                <=> \E i \in 1 .. l : old[i].index = p
            BY <1>5, <3>1
          <6> QED
            BY Zenon, <1>6, <5>1, <6>1 DEF new, old
        <5>2. CASE s # own
          BY Zenon, <1>4, <1>6, <5>2
        <5> QED
          BY Zenon, <5>1, <5>2
      <4>2. pages'[p].references = pages[p].references /\ pages'[p].state = pages[p].state
        BY Zenon, <1>3, <3>1
      <4> QED
        BY Zenon, <1>2, <3>0, <3>1, <4>1, <4>2
    <3>2. CASE \E k \in 1 .. fresh : taken[k] = p
      <4>1. PICK k \in 1 .. fresh : taken[k] = p
        BY Zenon, <3>2
      <4>2. pages'[p].references = {own} /\ pages'[p].state = own
        BY Zenon, <1>3, <4>1
      <4>3. l + k \in Positions(own)' /\ requests'[own].pages[l + k].index = p
        BY Zenon, <1>5, <1>6, <4>1 DEF new
      <4>4. ASSUME NEW s \in RequestSlot, s # own, NEW i \in Positions(s)'
            PROVE  requests'[s].pages[i].index # p
        BY ZenonT(30), <1>4, <1>6, <1>7, <4>1, <4>4
      <4>5. {s \in RequestSlot : \E i \in Positions(s)' : requests'[s].pages[i].index = p} = {own}
        BY Zenon, <1>0, <4>3, <4>4
      <4>6. ~ \E i \in 1 .. Len(free_stack') : free_stack'[i] = p
        BY Zenon, <1>2, <4>1
      <4> QED
        BY Zenon, <1>0, <4>2, <4>5, <4>6
    <3> QED
      BY Zenon, <3>1, <3>2
  <2> QED
    BY Zenon, <1>2, <1>11, <2>1, <2>3, <2>4 DEF PageOwnership
<1>13. kept > 0 => pages[tail].state # Sealed
  <2> SUFFICES ASSUME kept > 0 PROVE pages[tail].state # Sealed
    BY Zenon
  <2>1. TailCapacity(requests[own].pages) # 0
    BY <1>0, <1>1, KvPoolAssumption DEF KeptTokens, MinOf, kept, own
  <2>2. pages[tail].state = own
    BY Zenon, <1>0, <2>1, TailRoom DEF tail, own
  <2> QED
    BY Zenon, <1>0, <2>2
<1>14. WriteExclusive'
  <2> SUFFICES ASSUME NEW s \in RequestSlot, NEW i \in Positions(s)'
               PROVE  LET page == pages'[requests'[s].pages[i].index] IN
                      \/ page.state = s /\ page.references = {s}
                      \/ /\ page.state = Sealed
                         /\ page.initialized_tokens = PageTokens
                         /\ i * PageTokens <= requests'[s].committed_tokens
    BY Zenon DEF WriteExclusive
  <2>1. CASE i \in Positions(s) /\ requests'[s].pages[i] = requests[s].pages[i]
    <3> DEFINE p == requests[s].pages[i].index
    <3>1. p \in PageIndex
      BY Zenon, <1>0, <2>1, EntryTypes
    <3>2. \A k \in 1 .. fresh : taken[k] # p
      BY Zenon, <1>7, <2>1
    <3>3. \/ pages[p].state = s /\ pages[p].references = {s}
          \/ /\ pages[p].state = Sealed
             /\ pages[p].initialized_tokens = PageTokens
             /\ i * PageTokens <= requests[s].committed_tokens
      BY Zenon, <2>1 DEF KvInv, WriteExclusive
    <3>4. pages'[p].state = pages[p].state /\ pages'[p].references = pages[p].references
      BY Zenon, <1>3, <3>1, <3>2
    <3>5. pages[p].state = Sealed => pages'[p].initialized_tokens = pages[p].initialized_tokens
      <4>1. pages[p].state = Sealed => ~(kept > 0 /\ p = tail)
        BY Zenon, <1>13
      <4> QED
        BY Zenon, <1>3, <3>1, <3>2, <4>1
    <3>6. requests'[s].committed_tokens = requests[s].committed_tokens
      BY Zenon, <1>4
    <3> HIDE DEF p
    <3>7. \/ pages'[p].state = s /\ pages'[p].references = {s}
          \/ /\ pages'[p].state = Sealed
             /\ pages'[p].initialized_tokens = PageTokens
             /\ i * PageTokens <= requests'[s].committed_tokens
      BY Zenon, <3>3, <3>4, <3>5, <3>6
    <3> QED
      BY Zenon, <2>1, <3>7 DEF p
  <2>2. CASE s = own /\ \E k \in 1 .. fresh : i = l + k
    <3>1. PICK k \in 1 .. fresh : i = l + k
      BY Zenon, <2>2
    <3>2. requests'[s].pages[i].index = taken[k]
      BY Zenon, <1>5, <2>2, <3>1 DEF new
    <3> QED
      BY Zenon, <1>3, <2>2, <3>2
  <2> QED
    BY Zenon, <1>4, <1>5, <1>6, <2>1, <2>2 DEF new, old
<1>15. Filling'
  <2> SUFFICES ASSUME NEW s \in RequestSlot PROVE FillingOf(s)'
    BY Zenon DEF Filling
  <2>1. CASE s = own
    <3>1. /\ resident + n <= Offset(l + fresh)
          /\ Offset((l + fresh) - 1) < resident + n
      BY Zenon, <1>1, AppendNumbers DEF fresh, FreshPages, kept
    <3>2. requests[own].committed_tokens <= resident + n
      <4>1. requests[own].committed_tokens <= resident
        BY Zenon, <1>0 DEF KvInv, Filling, FillingOf, resident
      <4>2. requests[own].committed_tokens \in Nat /\ resident \in Nat
        BY <1>0, EntryTypes DEF resident
      <4> QED
        BY <4>1, <4>2
    <3> DEFINE entry == requests'[own]
    <3>3. /\ entry.resident_tokens = resident + n
          /\ entry.committed_tokens = requests[own].committed_tokens
          /\ entry.pages = new /\ Len(entry.pages) = l + fresh
      BY Zenon, <1>4, <1>5 DEF new
    <3>4. Positions(own)' = 1 .. (l + fresh)
      BY Zenon, <1>6
    <3>5. /\ entry.committed_tokens <= entry.resident_tokens
          /\ entry.resident_tokens <= Offset(Len(entry.pages))
          /\ Len(entry.pages) > 0 => Offset(Len(entry.pages) - 1) < entry.resident_tokens
          /\ \A i \in Positions(own)' :
                pages'[entry.pages[i].index].initialized_tokens = Filled(i, entry.resident_tokens)
      <4> HIDE DEF entry
      <4>1. entry.committed_tokens <= entry.resident_tokens
        BY Zenon, <3>2, <3>3
      <4>2. entry.resident_tokens <= Offset(Len(entry.pages))
        BY Zenon, <3>1, <3>3
      <4>3. Offset(Len(entry.pages) - 1) < entry.resident_tokens
        <5> DEFINE m == l + fresh
        <5>1. Offset(m - 1) < resident + n /\ Len(entry.pages) = m
          BY Zenon, <3>1, <3>3
        <5> HIDE DEF m
        <5> QED
          BY <3>3, <5>1, Zenon
      <4>4. \A i \in Positions(own)' :
               pages'[entry.pages[i].index].initialized_tokens = Filled(i, entry.resident_tokens)
        BY Zenon, <1>9, <3>3, <3>4
      <4> QED
        BY Zenon, <4>1, <4>2, <4>3, <4>4
    <3> QED
      BY <2>1, <3>5, Zenon DEF FillingOf
  <2>2. CASE s # own
    <3>1. requests'[s] = requests[s] /\ Positions(s)' = Positions(s)
      BY Zenon, <1>4, <1>6, <2>2
    <3>2. FillingOf(s)
      BY Zenon DEF KvInv, Filling
    <3>3. ASSUME NEW i \in Positions(s)
          PROVE  pages'[requests[s].pages[i].index].initialized_tokens
                   = pages[requests[s].pages[i].index].initialized_tokens
      <4>1. requests[s].pages[i].index \in PageIndex
        BY Zenon, <1>0, EntryTypes
      <4>2. \A k \in 1 .. fresh : taken[k] # requests[s].pages[i].index
        BY Zenon, <1>7
      <4>3. ~(kept > 0 /\ requests[s].pages[i].index = tail)
        BY Zenon, <1>8, <2>2
      <4> QED
        BY Zenon, <1>3, <4>1, <4>2, <4>3
    <3> QED
      BY Zenon, <3>1, <3>2, <3>3 DEF FillingOf
  <2> QED
    BY Zenon, <2>1, <2>2
<1> QED
  BY Zenon, <1>12, <1>14, <1>15 DEF KvInv

-----------------------------------------------------------------------------
(* Prefix sharing *)

\* A request without resident tokens has no pages.
LEMMA EmptyChain ==
    ASSUME KvInv, NEW s \in RequestSlot, requests[s].resident_tokens = 0
    PROVE  requests[s].pages = <<>> /\ Positions(s) = {}
<1> DEFINE l == Len(requests[s].pages)
<1>1. requests[s].pages \in Seq(PageId) /\ l \in Nat
  BY Zenon, EntryTypes DEF KvInv, PageOwnership
<1>2. l > 0 => Offset(l - 1) < 0
  BY Zenon DEF KvInv, Filling, FillingOf
<1>3. l > 0 => Offset(0) <= Offset(l - 1) /\ Offset(0) = 0 /\ Offset(l - 1) \in Int
  <2> HIDE DEF l
  <2> DEFINE m == l - 1
  <2>1. l > 0 => 0 \in Int /\ m \in Int /\ 0 <= m
    BY <1>1
  <2> HIDE DEF m
  <2>2. l > 0 => Offset(0) <= Offset(m) /\ Offset(0) = 0 /\ Offset(m) \in Int
    BY Zenon, <2>1, OffsetFacts
  <2> QED
    BY Zenon, <2>2 DEF m
<1>4. l = 0
  BY <1>1, <1>2, <1>3
<1> QED
  BY <1>1, <1>4, EmptySeq DEF Positions

\* What sharing a prefix does, and what the shared pages hold.
LEMMA ShareEffect ==
    ASSUME KvInv, NEW source \in RequestId, NEW target \in RequestId,
           NEW n \in 1 .. MaxContext, ShareCommittedPrefix(source, target, n)
    PROVE  LET count == n \div PageTokens
               from == source.slot
               to == target.slot
               chain == requests[from].pages IN
           /\ from \in RequestSlot /\ to \in RequestSlot /\ from # to
           /\ count \in 1 .. Len(chain) /\ count <= MaxPagesPerRequest
           /\ n = Offset(count) /\ n <= requests[from].committed_tokens
           /\ Positions(to) = {}
           /\ \A i \in 1 .. count :
                 /\ i \in Positions(from) /\ Offset(i) <= n
                 /\ pages[chain[i].index].initialized_tokens = PageTokens
           /\ \A p \in PageIndex :
                 /\ pages'[p].generation = pages[p].generation
                 /\ pages'[p].initialized_tokens = pages[p].initialized_tokens
                 /\ (\E i \in 1 .. count : chain[i].index = p) =>
                       /\ pages'[p].state = Sealed
                       /\ pages'[p].references = pages[p].references \cup {to}
                 /\ (\A i \in 1 .. count : chain[i].index # p) => pages'[p] = pages[p]
           /\ \A s \in RequestSlot : s # to => requests'[s] = requests[s]
           /\ requests'[to].live /\ requests'[to].pages \in Seq(PageId)
           /\ requests'[to].committed_tokens = n /\ requests'[to].resident_tokens = n
           /\ requests'[to].generation = requests[to].generation
           /\ Len(requests'[to].pages) = count
           /\ \A i \in 1 .. count : requests'[to].pages[i] = chain[i]
           /\ pages' \in [PageIndex -> PageSlot]
           /\ requests' \in [RequestSlot -> RequestEntry]
           /\ free_stack' = free_stack
<1> DEFINE count == n \div PageTokens
           from == source.slot
           to == target.slot
           chain == requests[from].pages
           l == Len(chain)
           shared(p) == \E i \in 1 .. count : chain[i].index = p
<1>0. KvTypeOK /\ from \in RequestSlot /\ to \in RequestSlot
  BY Zenon DEF KvInv, PageOwnership, RequestId
<1>1. /\ from # to /\ n % PageTokens = 0
      /\ n <= requests[from].committed_tokens
      /\ requests[to].resident_tokens = 0
      /\ requests[to].live
      /\ count <= MaxPagesPerRequest
  BY Zenon DEF ShareCommittedPrefix, Shareable, LiveKv
<1>2. /\ n \in Nat /\ n > 0
      /\ requests[from].committed_tokens <= requests[from].resident_tokens
      /\ requests[from].resident_tokens <= Offset(l)
      /\ requests[from].committed_tokens \in Nat
      /\ requests[from].resident_tokens \in Nat
      /\ chain \in Seq(PageId) /\ l \in Nat
  BY <1>0, KvPoolAssumption, EntryTypes DEF KvInv, Filling, FillingOf
<1>3. n = Offset(count) /\ count \in Nat /\ count > 0
  BY <1>1, <1>2, SpareFacts, PagesForFacts
<1>4. count \in 1 .. l
  <2> HIDE DEF count, l
  <2>1. l \in Int /\ count \in Int /\ Offset(l) \in Int /\ Offset(count) <= Offset(l)
    <3>1. l \in Int /\ count \in Int
      BY <1>2, <1>3
    <3>2. Offset(l) \in Int
      BY Zenon, <3>1, OffsetFacts
    <3> QED
      BY <1>1, <1>2, <1>3, <3>1, <3>2
  <2>2. count <= l
    BY Zenon, <2>1, OffsetFacts
  <2> QED
    BY <1>2, <1>3, <2>2
<1>5. ASSUME NEW i \in 1 .. count
      PROVE  /\ i \in Positions(from) /\ Offset(i) <= n
             /\ pages[chain[i].index].initialized_tokens = PageTokens
  <2>1. i \in Positions(from)
    BY <1>2, <1>4 DEF Positions
  <2>2. Offset(i) <= n /\ Offset(i) \in Int
    <3> HIDE DEF count
    <3>1. i \in Int /\ count \in Int /\ i <= count
      BY <1>3
    <3> QED
      BY Zenon, <1>3, <3>1, OffsetFacts
  <2>3. pages[chain[i].index].initialized_tokens = Filled(i, requests[from].resident_tokens)
    BY Zenon, <1>0, <2>1 DEF KvInv, Filling, FillingOf
  <2>4. Offset(i) <= requests[from].resident_tokens
    BY <1>1, <1>2, <2>2
  <2>5. Filled(i, requests[from].resident_tokens) = PageTokens
    <3> DEFINE res == requests[from].resident_tokens
    <3>1. i \in Int /\ res \in Nat /\ Offset(i) <= res
      BY <1>2, <2>4
    <3> HIDE DEF res
    <3>2. Filled(i, res) = PageTokens
      BY Zenon, <3>1, FilledFacts
    <3> QED
      BY Zenon, <3>2 DEF res
  <2> QED
    BY Zenon, <2>1, <2>2, <2>3, <2>5
<1>6. pages' = [p \in PageIndex |->
          IF shared(p)
          THEN [pages[p] EXCEPT !.state = Sealed, !.references = @ \cup {to}]
          ELSE pages[p]]
  BY Zenon DEF ShareCommittedPrefix
<1>7. /\ requests' = [requests EXCEPT ![to] =
             [requests[to] EXCEPT !.pages = SubSeq(chain, 1, count),
                                  !.resident_tokens = n, !.committed_tokens = n]]
      /\ free_stack' = free_stack
      /\ requests[to] \in RequestEntry
      /\ requests \in [RequestSlot -> RequestEntry]
  BY Zenon, <1>0 DEF ShareCommittedPrefix, KvTypeOK
<1>8. ASSUME NEW p \in PageIndex
      PROVE  /\ pages'[p].generation = pages[p].generation
             /\ pages'[p].initialized_tokens = pages[p].initialized_tokens
             /\ shared(p) =>
                   /\ pages'[p].state = Sealed
                   /\ pages'[p].references = pages[p].references \cup {to}
             /\ ~shared(p) => pages'[p] = pages[p]
             /\ pages'[p] \in PageSlot
  <2>1. pages[p] \in PageSlot
    BY Zenon, <1>0, PageTypes
  <2> HIDE DEF shared, count
  <2> QED
    BY Zenon, <1>0, <1>6, <2>1 DEF PageSlot
<1>9. pages' \in [PageIndex -> PageSlot]
  <2>1. pages' = [p \in PageIndex |-> pages'[p]]
    BY Zenon, <1>6
  <2> QED
    BY Zenon, <1>8, <2>1
<1>10. LET prefix == SubSeq(chain, 1, count) IN
       /\ prefix \in Seq(PageId) /\ Len(prefix) = count
       /\ \A i \in 1 .. count : prefix[i] = chain[i]
  <2> HIDE DEF count, chain
  <2> QED
    BY <1>2, <1>3, <1>4 DEF l
<1>11. /\ \A s \in RequestSlot : s # to => requests'[s] = requests[s]
       /\ requests'[to] = [requests[to] EXCEPT !.pages = SubSeq(chain, 1, count),
                                  !.resident_tokens = n, !.committed_tokens = n]
  <2> HIDE DEF count, chain, to
  <2> QED
    BY Zenon, <1>0, <1>7
<1>12. /\ requests'[to].live
       /\ requests'[to].committed_tokens = n /\ requests'[to].resident_tokens = n
       /\ requests'[to].generation = requests[to].generation
       /\ requests'[to].pages = SubSeq(chain, 1, count)
       /\ requests'[to] \in RequestEntry
  <2> DEFINE prefix == SubSeq(chain, 1, count)
             entry == requests'[to]
             before == requests[to]
  <2>1. /\ entry = [before EXCEPT !.pages = prefix, !.resident_tokens = n,
                                  !.committed_tokens = n]
        /\ before \in RequestEntry /\ before.live /\ prefix \in Seq(PageId)
        /\ n \in 0 .. MaxContext
    BY <1>1, <1>2, <1>7, <1>10, <1>11
  <2> HIDE DEF prefix, entry, before
  <2>2. /\ entry.live /\ entry.committed_tokens = n /\ entry.resident_tokens = n
        /\ entry.generation = before.generation
        /\ entry.pages = prefix /\ entry \in RequestEntry
    BY Zenon, <2>1 DEF RequestEntry
  <2> QED
    BY Zenon, <2>2 DEF prefix, entry, before
<1>13. requests' \in [RequestSlot -> RequestEntry]
  <2> HIDE DEF count, chain, to
  <2>1. requests' = [s \in RequestSlot |-> requests'[s]]
    BY Zenon, <1>7
  <2> QED
    BY Zenon, <1>7, <1>11, <1>12, <2>1
<1> QED
  <2>1. Positions(to) = {}
    BY Zenon, <1>0, <1>1, EmptyChain
  <2>2. /\ Len(requests'[to].pages) = count /\ requests'[to].pages \in Seq(PageId)
        /\ \A i \in 1 .. count : requests'[to].pages[i] = chain[i]
    BY Zenon, <1>10, <1>12
  <2>3. \A p \in PageIndex :
                 /\ pages'[p].generation = pages[p].generation
                 /\ pages'[p].initialized_tokens = pages[p].initialized_tokens
                 /\ (\E i \in 1 .. count : chain[i].index = p) =>
                       /\ pages'[p].state = Sealed
                       /\ pages'[p].references = pages[p].references \cup {to}
                 /\ (\A i \in 1 .. count : chain[i].index # p) => pages'[p] = pages[p]
    BY Zenon, <1>8
  <2>4. \A i \in 1 .. count :
                 /\ i \in Positions(from) /\ Offset(i) <= n
                 /\ pages[chain[i].index].initialized_tokens = PageTokens
    BY Zenon, <1>5
  <2> QED
    BY <1>0, <1>1, <1>3, <1>4, <1>7, <1>9, <1>11, <1>12, <1>13, <2>1, <2>2, <2>3, <2>4, Zenon

LEMMA ShareInv ==
    ASSUME KvInv, NEW source \in RequestId, NEW target \in RequestId,
           NEW n \in 1 .. MaxContext, ShareCommittedPrefix(source, target, n)
    PROVE  KvInv'
<1> DEFINE count == n \div PageTokens
           from == source.slot
           to == target.slot
           chain == requests[from].pages
<1>0. KvTypeOK /\ Free \notin RequestSlot /\ Sealed \notin RequestSlot /\ Free # Sealed
  BY IdentityAssumption DEF KvInv, PageOwnership, RequestSlot, Free, Sealed
<1>1. /\ from \in RequestSlot /\ to \in RequestSlot /\ from # to
      /\ count \in 1 .. Len(chain) /\ count <= MaxPagesPerRequest
      /\ n = Offset(count) /\ n <= requests[from].committed_tokens
      /\ Positions(to) = {}
      /\ \A i \in 1 .. count :
            /\ i \in Positions(from) /\ Offset(i) <= n
            /\ pages[chain[i].index].initialized_tokens = PageTokens
  BY ShareEffect, Zenon
<1>2. \A p \in PageIndex :
         /\ pages'[p].generation = pages[p].generation
         /\ pages'[p].initialized_tokens = pages[p].initialized_tokens
         /\ (\E i \in 1 .. count : chain[i].index = p) =>
               /\ pages'[p].state = Sealed
               /\ pages'[p].references = pages[p].references \cup {to}
         /\ (\A i \in 1 .. count : chain[i].index # p) => pages'[p] = pages[p]
  BY ShareEffect
<1>3. /\ \A s \in RequestSlot : s # to => requests'[s] = requests[s]
      /\ requests'[to].live
      /\ requests'[to].committed_tokens = n /\ requests'[to].resident_tokens = n
      /\ Len(requests'[to].pages) = count
      /\ \A i \in 1 .. count : requests'[to].pages[i] = chain[i]
      /\ pages' \in [PageIndex -> PageSlot]
      /\ requests' \in [RequestSlot -> RequestEntry]
      /\ free_stack' = free_stack
  BY ShareEffect
<1>4. /\ Positions(to)' = 1 .. count
      /\ \A s \in RequestSlot : s # to => Positions(s)' = Positions(s)
  BY Zenon, <1>3 DEF Positions
<1>5. \A i \in 1 .. count : chain[i].index \in PageIndex /\ chain[i] \in PageId
  BY Zenon, <1>0, <1>1, EntryTypes
<1>6. /\ \A i \in 1 .. count : pages[chain[i].index].generation = chain[i].generation
      /\ \A i, j \in 1 .. count : chain[i].index = chain[j].index => i = j
  <2>1. \A i \in Positions(from) :
           /\ pages[chain[i].index].generation = chain[i].generation
           /\ \A j \in Positions(from) : chain[j].index = chain[i].index => i = j
    BY Zenon, <1>1 DEF KvInv, PageOwnership
  <2> QED
    BY Zenon, <1>1, <2>1
<1> HIDE DEF count, from, to, chain
<1>7. KvTypeOK'
  BY Zenon, <1>0, <1>1, <1>3 DEF KvTypeOK
<1>8. PageOwnership'
  <2>1. ASSUME NEW s \in RequestSlot PROVE ~requests'[s].live => requests'[s].pages = <<>>
    BY <1>3 DEF KvInv, PageOwnership
  <2>2. ASSUME NEW s \in RequestSlot, NEW i \in Positions(s)'
        PROVE  /\ pages'[requests'[s].pages[i].index].generation = requests'[s].pages[i].generation
               /\ \A j \in Positions(s)' :
                     requests'[s].pages[j].index = requests'[s].pages[i].index => i = j
    <3>1. CASE s = to
      <4>1. i \in 1 .. count /\ requests'[s].pages[i] = chain[i]
        BY Zenon, <1>3, <1>4, <3>1
      <4>2. pages'[chain[i].index].generation = chain[i].generation
        BY Zenon, <1>2, <1>5, <1>6, <4>1
      <4>3. ASSUME NEW j \in Positions(s)',
                   requests'[s].pages[j].index = requests'[s].pages[i].index
            PROVE  i = j
        <5>1. j \in 1 .. count /\ requests'[s].pages[j] = chain[j]
          BY Zenon, <1>3, <1>4, <3>1
        <5> QED
          BY Zenon, <1>6, <4>1, <4>3, <5>1
      <4> QED
        BY Zenon, <4>1, <4>2, <4>3
    <3>2. CASE s # to
      <4>1. i \in Positions(s) /\ requests'[s] = requests[s] /\ Positions(s)' = Positions(s)
        BY Zenon, <1>3, <1>4, <3>2
      <4>2. requests[s].pages[i].index \in PageIndex
        BY Zenon, <1>0, <4>1, EntryTypes
      <4> QED
        BY <1>2, <4>1, <4>2 DEF KvInv, PageOwnership
    <3> QED
      BY Zenon, <3>1, <3>2
  <2>3. ASSUME NEW p \in PageIndex
        PROVE  /\ pages'[p].references =
                     {s \in RequestSlot : \E i \in Positions(s)' : requests'[s].pages[i].index = p}
               /\ pages'[p].state = Free <=> pages'[p].references = {}
               /\ pages'[p].state = Free <=> \E i \in 1 .. Len(free_stack') : free_stack'[i] = p
    <3>0. /\ pages[p].references =
                {s \in RequestSlot : \E i \in Positions(s) : requests[s].pages[i].index = p}
          /\ pages[p].state = Free <=> pages[p].references = {}
          /\ pages[p].state = Free <=> \E i \in 1 .. Len(free_stack) : free_stack[i] = p
      BY Zenon DEF KvInv, PageOwnership
    <3>1. ASSUME NEW s \in RequestSlot, s # to
          PROVE  (\E i \in Positions(s)' : requests'[s].pages[i].index = p)
                 <=> s \in pages[p].references
      BY Zenon, <1>3, <1>4, <3>0, <3>1
    <3>2. (\E i \in Positions(to)' : requests'[to].pages[i].index = p)
          <=> \E i \in 1 .. count : chain[i].index = p
      BY Zenon, <1>3, <1>4
    <3>3. to \notin pages[p].references
      BY Zenon, <1>1, <3>0
    <3>4. CASE \A i \in 1 .. count : chain[i].index # p
      <4>1. pages'[p] = pages[p]
        BY Zenon, <1>2, <3>4
      <4>2. pages[p].references =
               {s \in RequestSlot : \E i \in Positions(s)' : requests'[s].pages[i].index = p}
        BY Zenon, <3>0, <3>1, <3>2, <3>3, <3>4
      <4> QED
        BY Zenon, <1>3, <3>0, <4>1, <4>2
    <3>5. CASE \E i \in 1 .. count : chain[i].index = p
      <4>1. /\ pages'[p].state = Sealed
            /\ pages'[p].references = pages[p].references \cup {to}
        BY Zenon, <1>2, <3>5
      <4>2. pages[p].references \cup {to} =
               {s \in RequestSlot : \E i \in Positions(s)' : requests'[s].pages[i].index = p}
        BY Zenon, <1>1, <3>0, <3>1, <3>2, <3>5
      <4>3. pages[p].state # Free
        BY Zenon, <1>1, <3>5, NamedPage DEF chain
      <4> QED
        BY Zenon, <1>0, <1>3, <3>0, <4>1, <4>2, <4>3
    <3> QED
      BY Zenon, <3>4, <3>5
  <2>4. \A i, j \in 1 .. Len(free_stack') : free_stack'[i] = free_stack'[j] => i = j
    BY Zenon, <1>3 DEF KvInv, PageOwnership
  <2> QED
    BY Zenon, <1>7, <2>1, <2>2, <2>3, <2>4 DEF PageOwnership
<1>9. WriteExclusive'
  <2> SUFFICES ASSUME NEW s \in RequestSlot, NEW i \in Positions(s)'
               PROVE  LET page == pages'[requests'[s].pages[i].index] IN
                      \/ page.state = s /\ page.references = {s}
                      \/ /\ page.state = Sealed
                         /\ page.initialized_tokens = PageTokens
                         /\ i * PageTokens <= requests'[s].committed_tokens
    BY Zenon DEF WriteExclusive
  <2>1. CASE s = to
    <3>1. i \in 1 .. count /\ requests'[s].pages[i] = chain[i]
      BY Zenon, <1>3, <1>4, <2>1
    <3> DEFINE p == chain[i].index
    <3>2. /\ pages'[p].state = Sealed
          /\ pages'[p].initialized_tokens = PageTokens
      BY Zenon, <1>1, <1>2, <1>5, <3>1
    <3>3. i * PageTokens <= requests'[s].committed_tokens
      BY Zenon, <1>1, <1>3, <2>1, <3>1 DEF Offset
    <3> QED
      BY Zenon, <3>1, <3>2, <3>3
  <2>2. CASE s # to
    <3> DEFINE p == requests[s].pages[i].index
    <3>1. i \in Positions(s) /\ requests'[s] = requests[s] /\ p \in PageIndex
      BY Zenon, <1>0, <1>3, <1>4, <2>2, EntryTypes
    <3>2. \/ pages[p].state = s /\ pages[p].references = {s}
          \/ /\ pages[p].state = Sealed
             /\ pages[p].initialized_tokens = PageTokens
             /\ i * PageTokens <= requests[s].committed_tokens
      BY Zenon, <3>1 DEF KvInv, WriteExclusive
    <3>3. CASE \A j \in 1 .. count : chain[j].index # p
      <4>1. pages'[p] = pages[p]
        BY Zenon, <1>2, <3>1, <3>3
      <4> QED
        BY Zenon, <3>1, <3>2, <4>1
    <3>4. CASE \E j \in 1 .. count : chain[j].index = p
      <4>1. PICK j \in 1 .. count : chain[j].index = p
        BY Zenon, <3>4
      <4>2. /\ pages'[p].state = Sealed
            /\ pages'[p].initialized_tokens = PageTokens
        BY <1>1, <1>2, <3>1, <4>1
      <4>3. i * PageTokens <= requests[s].committed_tokens
        <5>1. CASE s = from
          <6>1. i = j
            <7>1. \A a, b \in Positions(from) : chain[a].index = chain[b].index => a = b
              BY Zenon, <1>1 DEF KvInv, PageOwnership, chain
            <7> QED
              BY Zenon, <1>1, <3>1, <4>1, <5>1, <7>1 DEF chain
          <6>2. Offset(i) <= n /\ n <= requests[s].committed_tokens
            BY Zenon, <1>1, <5>1, <6>1
          <6>3. Offset(i) \in Int /\ n \in Int /\ requests[s].committed_tokens \in Int
            <7>1. i \in Int
              BY <3>1 DEF Positions
            <7>2. requests[s].committed_tokens \in Int
              BY <1>0, EntryTypes, KvPoolAssumption
            <7> QED
              BY <7>1, <7>2, OffsetFacts, KvPoolAssumption
          <6>4. Offset(i) <= requests[s].committed_tokens
            BY <6>2, <6>3
          <6> QED
            BY Zenon, <6>4 DEF Offset
        <5>2. CASE s # from
          <6>1. s \in pages[p].references /\ from \in pages[p].references
            <7>1. s \in pages[p].references
              BY Zenon, <3>1, NamedPage
            <7>2. from \in pages[p].references
              BY Zenon, <1>1, <4>1, NamedPage DEF chain
            <7> QED
              BY Zenon, <7>1, <7>2
          <6>2. pages[p].references # {s}
            BY Zenon, <5>2, <6>1
          <6> QED
            BY Zenon, <3>2, <6>2
        <5> QED
          BY Zenon, <5>1, <5>2
      <4> QED
        BY Zenon, <3>1, <4>2, <4>3
    <3> QED
      BY Zenon, <3>3, <3>4
  <2> QED
    BY Zenon, <2>1, <2>2
<1>10. Filling'
  <2> SUFFICES ASSUME NEW s \in RequestSlot PROVE FillingOf(s)'
    BY Zenon DEF Filling
  <2>1. CASE s = to
    <3>1. count \in Int /\ n \in Nat /\ Offset(count - 1) < n /\ n <= Offset(count)
      <4>1. count \in Int /\ n \in Nat /\ PageTokens \in Int /\ PageTokens > 0
        BY <1>1, KvPoolAssumption
      <4>2. Offset(count) \in Int /\ Offset(count - 1) = Offset(count) - PageTokens
        BY Zenon, <4>1, OffsetStep
      <4> QED
        BY <1>1, <4>1, <4>2
    <3>2. ASSUME NEW i \in 1 .. count
          PROVE  pages'[requests'[to].pages[i].index].initialized_tokens = Filled(i, n)
      <4>1. requests'[to].pages[i] = chain[i]
        BY Zenon, <1>3
      <4>2. pages'[chain[i].index].initialized_tokens = PageTokens
        BY Zenon, <1>1, <1>2, <1>5
      <4>3. i \in Int /\ Offset(i) <= n
        BY <1>1
      <4>4. Filled(i, n) = PageTokens
        BY Zenon, <3>1, <4>3, FilledFacts
      <4> QED
        BY Zenon, <4>1, <4>2, <4>4
    <3>3. n <= n
      BY <3>1
    <3> QED
      BY Zenon, <1>3, <1>4, <2>1, <3>1, <3>2, <3>3 DEF FillingOf
  <2>2. CASE s # to
    <3>1. requests'[s] = requests[s] /\ Positions(s)' = Positions(s)
      BY Zenon, <1>3, <1>4, <2>2
    <3>2. FillingOf(s)
      BY Zenon DEF KvInv, Filling
    <3>3. \A i \in Positions(s) : pages'[requests[s].pages[i].index].initialized_tokens
                                  = pages[requests[s].pages[i].index].initialized_tokens
      BY Zenon, <1>0, <1>2, EntryTypes
    <3> QED
      BY Zenon, <3>1, <3>2, <3>3 DEF FillingOf
  <2> QED
    BY Zenon, <2>1, <2>2
<1> QED
  BY Zenon, <1>8, <1>9, <1>10 DEF KvInv

=============================================================================
