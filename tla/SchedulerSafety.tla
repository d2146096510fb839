--------------------------- MODULE SchedulerSafety --------------------------
(***************************************************************************)
(* The rest of the proof that SchedInv is inductive (the two dispatches    *)
(* and the completion), and the theorems about every behaviour of the      *)
(* scheduler: its invariants, that its rotating scan cannot pass a ready   *)
(* request over for ever, and that it implements the sequential lifecycle  *)
(* of ferric-spec slot by slot.                                            *)
(***************************************************************************)
EXTENDS SchedulerProofs

-----------------------------------------------------------------------------
(* Completion *)

\* What the windows say of the oldest batch: its members are the first n of the
\* ring, they and no other execute under the next epoch to complete.
LEMMA OldestBatch ==
    ASSUME SchedTypeOK, PendingExact, batch_ring # <<>>,
           NEW cut \in [0 .. Len(batch_ring) -> 0 .. Len(member_ring)], Windows(cut)
    PROVE  /\ batch_ring[1].member_count = cut[1]
           /\ cut[1] \in 1 .. Len(member_ring)
           /\ \A i \in 1 .. cut[1] :
                 slots[member_ring[i].slot].active_epoch = completed + 1
           /\ \A i \in (cut[1] + 1) .. Len(member_ring) :
                 \E k \in 2 .. Len(batch_ring) :
                    /\ cut[k - 1] < i /\ i <= cut[k]
                    /\ slots[member_ring[i].slot].active_epoch = completed + k
<1> DEFINE m == Len(member_ring)
           b == Len(batch_ring)
<1>1. m \in Nat /\ b \in Nat /\ b >= 1 /\ batch_ring[1] \in BatchRecord /\ C \in Nat
  BY EmptySeq, SchedulerAssumption DEF SchedTypeOK
<1>2. cut[0] = 0 /\ cut[b] = m
      /\ \A k \in 1 .. b : cut[k] = cut[k - 1] + batch_ring[k].member_count
  BY DEF Windows
<1>3. \A j, k \in 0 .. b : j <= k => cut[j] <= cut[k]
  BY DEF Windows
<1>4. ASSUME NEW i \in 1 .. m
      PROVE  \E k \in 1 .. b : /\ cut[k - 1] < i /\ i <= cut[k]
                               /\ slots[member_ring[i].slot].active_epoch = completed + k
  BY DEF Windows
<1>5. \A k \in 0 .. b : cut[k] \in 0 .. m
  OBVIOUS
<1>6. batch_ring[1].member_count \in 1 .. C
  BY <1>1 DEF BatchRecord
<1> HIDE DEF m, b
<1>7. cut[1] = batch_ring[1].member_count /\ cut[1] \in 1 .. m
  BY <1>1, <1>2, <1>5, <1>6
<1>8. ASSUME NEW i \in 1 .. m, i <= cut[1]
      PROVE  slots[member_ring[i].slot].active_epoch = completed + 1
  <2>1. PICK k \in 1 .. b : /\ cut[k - 1] < i /\ i <= cut[k]
                            /\ slots[member_ring[i].slot].active_epoch = completed + k
    BY <1>4
  <2>2. k = 1
    <3>1. CASE k # 1
      <4>1. k - 1 \in 0 .. b /\ 1 \in 0 .. b /\ 1 <= k - 1
        BY SMTT(30), <1>1, <3>1
      <4>2. cut[1] <= cut[k - 1]
        BY <1>3, <4>1
      <4> QED
        BY SMTT(30), <1>1, <1>5, <1>8, <2>1, <4>1, <4>2
    <3> QED
      BY <3>1
  <2> QED
    BY <2>1, <2>2
<1>9. ASSUME NEW i \in (cut[1] + 1) .. m
      PROVE  \E k \in 2 .. b : /\ cut[k - 1] < i /\ i <= cut[k]
                               /\ slots[member_ring[i].slot].active_epoch = completed + k
  <2>1. i \in 1 .. m /\ ~(i <= cut[1])
    BY <1>1, <1>7
  <2>2. PICK k \in 1 .. b : /\ cut[k - 1] < i /\ i <= cut[k]
                            /\ slots[member_ring[i].slot].active_epoch = completed + k
    BY <1>4, <2>1
  <2>3. k # 1
    BY <2>1, <2>2
  <2>4. k \in 2 .. b
    BY <1>1, <2>3
  <2> QED
    BY <2>2, <2>4
<1>10. \A i \in 1 .. cut[1] : i \in 1 .. m /\ i <= cut[1]
  BY <1>1, <1>7
<1> QED
  BY <1>7, <1>8, <1>9, <1>10 DEF m, b

\* complete_exact keeps the invariant: the oldest window leaves the member ring
\* and turns into permits, the others move up.
LEMMA CompleteExactInv ==
    ASSUME SchedInv, NEW e \in Epoch, CompleteExact(e)
    PROVE  SchedInv'
<1> DEFINE m == Len(member_ring)
           b == Len(batch_ring)
           q == Len(permits)
<1>1. SchedTypeOK /\ RingsExact /\ PendingExact /\ PermitAuthority
      /\ SlotEpochs /\ SlotsCounted
  BY DEF SchedInv
<1>2. PICK cut \in [0 .. b -> 0 .. m] : Windows(cut)
  BY <1>1 DEF PendingExact
<1>3. PICK n : n = cut[1]
  OBVIOUS
<1>4. batch_ring # <<>> /\ e = completed + 1
  BY DEF CompleteExact
<1>5. /\ batch_ring[1].member_count = n /\ n \in 1 .. m
      /\ \A i \in 1 .. n : slots[member_ring[i].slot].active_epoch = completed + 1
      /\ \A i \in (n + 1) .. m : \E k \in 2 .. b :
            /\ cut[k - 1] < i /\ i <= cut[k]
            /\ slots[member_ring[i].slot].active_epoch = completed + k
  BY Zenon, <1>1, <1>2, <1>3, <1>4, OldestBatch
<1>s. /\ batch_ring \in Seq(BatchRecord) /\ member_ring \in Seq(RequestId)
      /\ permits \in Seq(Permit)
  BY Zenon, <1>1 DEF SchedTypeOK
<1>6. /\ m \in Nat /\ b \in Nat /\ b >= 1 /\ q \in Nat /\ C \in Nat
      /\ completed \in Nat /\ submitted \in Nat /\ m <= C /\ b <= C
      /\ n \in Nat /\ 1 <= n /\ n <= m
  BY SMTT(30), <1>1, <1>4, <1>5, EmptySeq, SchedulerAssumption DEF SchedTypeOK, Epoch
<1>7. Head(batch_ring) = batch_ring[1]
  BY SMTT(30), <1>s
<1>8. completed' = completed + 1 /\ submitted' = submitted /\ slots' = slots
  BY <1>4 DEF CompleteExact
<1>u. /\ UNCHANGED <<free_ring, reclaim_ring, cursor, live_count>>
      /\ batch_ring' = Tail(batch_ring)
      /\ member_ring' = SubSeq(member_ring, n + 1, m)
      /\ permits' = permits \o [i \in 1 .. n |-> [request |-> member_ring[i], origin |-> e]]
  BY Zenon, <1>4, <1>5, <1>7 DEF CompleteExact
<1> HIDE DEF b
<1>9. /\ batch_ring' \in Seq(BatchRecord) /\ Len(batch_ring') = b - 1
      /\ \A k \in 1 .. (b - 1) : batch_ring'[k] = batch_ring[k + 1]
  BY Zenon, <1>s, <1>4, <1>u, HeadTailProperties DEF b
<1>10. /\ member_ring' \in Seq(RequestId) /\ Len(member_ring') = m - n
       /\ \A i \in 1 .. (m - n) : member_ring'[i] = member_ring[n + i]
  <2>1. \A i \in (n + 1) .. m : member_ring[i] \in RequestId
    BY SMTT(30), <1>s, <1>6
  <2> HIDE DEF m
  <2>2. /\ SubSeq(member_ring, n + 1, m) \in Seq(RequestId)
        /\ Len(SubSeq(member_ring, n + 1, m)) = IF n + 1 <= m THEN m - (n + 1) + 1 ELSE 0
        /\ \A i \in 1 .. m - (n + 1) + 1 :
              SubSeq(member_ring, n + 1, m)[i] = member_ring[(n + 1) + i - 1]
    <3>1. n + 1 \in Int /\ m \in Int
      BY <1>6
    <3> QED
      BY SMTT(30), <1>s, <2>1, <3>1, SubSeqProperties
  <2>3. m - (n + 1) + 1 = m - n /\ (IF n + 1 <= m THEN m - (n + 1) + 1 ELSE 0) = m - n
        /\ \A i \in 1 .. (m - n) : (n + 1) + i - 1 = n + i
    BY <1>6
  <2> QED
    BY Zenon, <1>u, <2>2, <2>3
<1>11. /\ permits' \in Seq(Permit) /\ Len(permits') = q + n
       /\ \A i \in 1 .. q : permits'[i] = permits[i]
       /\ \A i \in (q + 1) .. (q + n) :
             /\ i - q \in 1 .. n
             /\ permits'[i] = [request |-> member_ring[i - q], origin |-> e]
  <2> DEFINE issued == [i \in 1 .. n |-> [request |-> member_ring[i], origin |-> e]]
  <2>1. \A i \in 1 .. n : [request |-> member_ring[i], origin |-> e] \in Permit
    BY SMTT(30), <1>s, <1>6 DEF Permit, m
  <2>2. issued \in Seq(Permit) /\ Len(issued) = n
    BY <1>6, <2>1
  <2>3. \A i \in 1 .. n : issued[i] = [request |-> member_ring[i], origin |-> e]
    OBVIOUS
  <2>4. permits' = permits \o issued
    BY <1>u
  <2> HIDE DEF issued
  <2>5. /\ permits \o issued \in Seq(Permit)
        /\ Len(permits \o issued) = Len(permits) + Len(issued)
        /\ \A i \in 1 .. Len(permits) + Len(issued) : (permits \o issued)[i] =
              IF i <= Len(permits) THEN permits[i] ELSE issued[i - Len(permits)]
    BY Zenon, <1>s, <2>2, ConcatProperties
  <2>6. /\ Len(permits') = q + n
        /\ \A i \in 1 .. q + n :
              permits'[i] = IF i <= q THEN permits[i] ELSE issued[i - q]
    BY <2>2, <2>4, <2>5
  <2> HIDE DEF q, m
  <2>7. \A i \in 1 .. q : permits'[i] = permits[i]
    BY <1>6, <2>6
  <2>8. \A i \in (q + 1) .. (q + n) : i - q \in 1 .. n /\ permits'[i] = issued[i - q]
    BY <1>6, <2>6
  <2> QED
    BY Zenon, <2>3, <2>4, <2>5, <2>6, <2>7, <2>8
<1> HIDE DEF m, q
<1>12. SchedTypeOK' /\ SlotsCounted' /\ SlotEpochs' /\ RingsExact'
  <2>1. Len(member_ring') <= C /\ Len(batch_ring') <= C
    BY <1>6, <1>9, <1>10
  <2>2. completed' \in Epoch
    BY <1>4, <1>8
  <2>3. SchedTypeOK'
    BY Zenon, <1>1, <1>8, <1>u, <1>9, <1>10, <1>11, <2>1, <2>2 DEF SchedTypeOK
  <2>4. RingsExact'
    BY ZenonT(40), <1>1, <1>8, <1>u DEF RingsExact, Listed
  <2> QED
    BY <1>1, <1>8, <1>u, <2>3, <2>4 DEF SlotsCounted, SlotEpochs
<1>13. PendingExact'
  <2>1. /\ submitted = completed + b
        /\ \A k \in 1 .. b : batch_ring[k].epoch = completed + k
    BY ZenonT(40), <1>1 DEF PendingExact, b
  <2>2. submitted' = completed' + Len(batch_ring')
    BY <1>6, <1>8, <1>9, <2>1
  <2>3. \A k \in 1 .. Len(batch_ring') : batch_ring'[k].epoch = completed' + k
    <3>1. ASSUME NEW k \in 1 .. (b - 1)
          PROVE  batch_ring'[k].epoch = completed' + k
      <4>1. k + 1 \in 1 .. b /\ batch_ring'[k] = batch_ring[k + 1]
        BY <1>6, <1>9
      <4>2. batch_ring[k + 1].epoch = completed + (k + 1)
        BY <2>1, <4>1
      <4> QED
        BY <1>6, <1>8, <4>1, <4>2
    <3> QED
      BY <1>9, <3>1
  <2>4. /\ cut[b] = m
        /\ \A k \in 1 .. b : cut[k] = cut[k - 1] + batch_ring[k].member_count
        /\ \A j, k \in 0 .. b : j <= k => cut[j] <= cut[k]
        /\ \A k \in 0 .. b : cut[k] \in 0 .. m
    BY Zenon, <1>2 DEF Windows, b, m
  <2>5. \A k \in 1 .. b : n <= cut[k] /\ cut[k] \in 0 .. m
    BY <1>3, <1>6, <2>4
  <2>6. PICK c : c = [k \in 0 .. (b - 1) |-> cut[k + 1] - n]
    OBVIOUS
  <2>7. \A k \in 0 .. (b - 1) : c[k] = cut[k + 1] - n /\ k + 1 \in 1 .. b
    BY <1>6, <2>6
  <2>8. c \in [0 .. (b - 1) -> 0 .. (m - n)]
    <3>1. \A k \in 0 .. (b - 1) : cut[k + 1] - n \in 0 .. (m - n)
      BY <1>6, <2>5, <2>7
    <3> QED
      BY <2>6, <3>1
  <2>9. c[0] = 0 /\ c[b - 1] = m - n
    <3>1. 0 \in 0 .. (b - 1) /\ b - 1 \in 0 .. (b - 1) /\ (b - 1) + 1 = b /\ 0 + 1 = 1
      BY <1>6
    <3>2. c[0] = cut[1] - n /\ c[b - 1] = cut[b] - n
      BY <2>7, <3>1
    <3> QED
      BY <1>3, <1>5, <1>6, <2>4, <3>2
  <2>10. ASSUME NEW k \in 1 .. (b - 1)
         PROVE  c[k] = c[k - 1] + batch_ring'[k].member_count
    <3>1. k - 1 \in 0 .. (b - 1) /\ k \in 0 .. (b - 1) /\ (k - 1) + 1 = k
          /\ k + 1 \in 1 .. b /\ (k + 1) - 1 = k /\ k \in 1 .. b
      BY <1>6
    <3>2. c[k - 1] = cut[k] - n /\ c[k] = cut[k + 1] - n
      BY <2>7, <3>1
    <3>3. cut[k + 1] = cut[k] + batch_ring[k + 1].member_count
      BY <2>4, <3>1
    <3>4. batch_ring[k + 1] \in BatchRecord
      BY <1>s, <3>1 DEF b
    <3>5. batch_ring[k + 1].member_count \in Nat
      BY <1>6, <3>4 DEF BatchRecord
    <3> QED
      <4>1. cut[k] \in Nat /\ cut[k + 1] \in Nat
        BY <1>6, <2>5, <3>1
      <4>2. batch_ring'[k] = batch_ring[k + 1]
        BY <1>9
      <4>3. c[k] = c[k - 1] + batch_ring[k + 1].member_count
        BY SMTT(30), <1>6, <3>2, <3>3, <3>5, <4>1
      <4> QED
        BY <4>2, <4>3
  <2>11. \A j, k \in 0 .. (b - 1) : j <= k => c[j] <= c[k]
    <3>1. ASSUME NEW j \in 0 .. (b - 1), NEW k \in 0 .. (b - 1), j <= k
          PROVE  c[j] <= c[k]
      <4>1. j + 1 \in 0 .. b /\ k + 1 \in 0 .. b /\ j + 1 <= k + 1
        BY <1>6, <3>1
      <4>2. cut[j + 1] <= cut[k + 1]
        BY <2>4, <4>1
      <4> QED
        <5>1. cut[j + 1] \in Int /\ cut[k + 1] \in Int
          BY <1>6, <2>4, <4>1
        <5>2. c[j] = cut[j + 1] - n /\ c[k] = cut[k + 1] - n
          BY <2>7
        <5> QED
          BY <1>6, <4>2, <5>1, <5>2
    <3> QED
      BY <3>1
  <2>12. ASSUME NEW i \in 1 .. (m - n)
         PROVE  \E k \in 1 .. (b - 1) :
                   /\ c[k - 1] < i /\ i <= c[k]
                   /\ slots'[member_ring'[i].slot].active_epoch = completed' + k
    <3>1. n + i \in (n + 1) .. m
      BY <1>6
    <3>2. PICK k \in 2 .. b :
            /\ cut[k - 1] < n + i /\ n + i <= cut[k]
            /\ slots[member_ring[n + i].slot].active_epoch = completed + k
      BY <1>5, <3>1
    <3>3. k - 1 \in 1 .. (b - 1) /\ k - 1 \in 0 .. (b - 1) /\ (k - 1) + 1 = k
          /\ (k - 1) - 1 \in 0 .. (b - 1) /\ ((k - 1) - 1) + 1 = k - 1
          /\ k \in 0 .. b /\ k - 1 \in 0 .. b
      BY <1>6
    <3>4. c[(k - 1) - 1] = cut[k - 1] - n /\ c[k - 1] = cut[k] - n
      BY <2>7, <3>3
    <3>5. c[(k - 1) - 1] < i /\ i <= c[k - 1]
      BY SMTT(30), <1>6, <2>4, <3>2, <3>3, <3>4
    <3>6. slots'[member_ring'[i].slot].active_epoch = completed' + (k - 1)
      <4>1. slots'[member_ring'[i].slot].active_epoch = completed + k
        BY Zenon, <1>8, <1>10, <3>2
      <4>2. completed' + (k - 1) = completed + k
        <5>1. completed \in Nat /\ completed' = completed + 1
          BY Zenon, <1>6, <1>8
        <5> QED
          BY SMTT(30), <5>1
      <4> QED
        BY Zenon, <4>1, <4>2
    <3> QED
      BY <3>3, <3>5, <3>6
  <2>13. Windows(c)'
    BY Zenon, <1>9, <1>10, <2>9, <2>10, <2>11, <2>12 DEF Windows
  <2>14. ASSUME NEW i \in 1 .. (m - n)
         PROVE  /\ n + i \in 1 .. m
                /\ member_ring'[i] = member_ring[n + i]
    BY SMTT(30), <1>6, <1>10
  <2>15. (\A i \in 1 .. Len(member_ring) : Occupies(member_ring[i]))'
    <3>1. \A i \in 1 .. m : Occupies(member_ring[i])
      BY <1>1 DEF PendingExact, m
    <3> QED
      BY ZenonT(40), <1>8, <1>10, <2>14, <3>1 DEF Occupies, Handle
  <2>16. \A i, j \in 1 .. (m - n) :
            member_ring'[i].slot = member_ring'[j].slot => i = j
    <3>1. \A i, j \in 1 .. m : member_ring[i].slot = member_ring[j].slot => i = j
      BY <1>1 DEF PendingExact, m
    <3>2. \A i, j \in 1 .. (m - n) : n + i = n + j => i = j
      BY <1>6
    <3> QED
      BY <2>14, <3>1, <3>2
  <2>17. ASSUME NEW s \in SlotIndex, slots'[s].active_epoch > completed'
         PROVE  \E i \in 1 .. (m - n) : member_ring'[i].slot = s
    <3>1. slots[s].active_epoch \in Nat
      BY <1>1 DEF SchedTypeOK, Slot, Epoch
    <3>2. slots[s].active_epoch > completed /\ slots[s].active_epoch # completed + 1
      BY <1>6, <1>8, <2>17, <3>1
    <3>3. PICK i \in 1 .. m : member_ring[i].slot = s
      BY <1>1, <3>2 DEF PendingExact, m
    <3>4. ~(i \in 1 .. n)
      BY <1>5, <3>2, <3>3
    <3>5. i - n \in 1 .. (m - n) /\ n + (i - n) = i
      BY <1>6, <3>4
    <3> QED
      BY <2>14, <3>3, <3>5
  <2>18. \E w \in [0 .. Len(batch_ring') -> 0 .. Len(member_ring')] : Windows(w)'
    BY <1>9, <1>10, <2>8, <2>13
  <2> QED
    BY Zenon, <1>10, <2>2, <2>3, <2>15, <2>16, <2>17, <2>18 DEF PendingExact
<1>14. PermitAuthority'
  <2>1. \A i \in 1 .. q : PermitSound(permits[i]) /\ permits[i] \in Permit
    BY SMTT(30), <1>1, <1>s DEF PermitAuthority, q
  <2>2. ASSUME NEW i \in 1 .. q
        PROVE  /\ permits[i].request.slot \in SlotIndex
               /\ ~(slots[permits[i].request.slot].active_epoch > completed)
    <3>1. slots[permits[i].request.slot].active_epoch <= completed
          /\ permits[i].request.slot \in SlotIndex
      BY <1>1, <2>1, PermitQuiescent
    <3>2. slots[permits[i].request.slot].active_epoch \in Nat
      BY SMTT(30), <1>1, <3>1 DEF SchedTypeOK, Slot, Epoch
    <3> QED
      BY SMTT(30), <1>6, <3>1, <3>2
  <2>3. ASSUME NEW i \in 1 .. n
        PROVE  /\ member_ring[i].slot \in SlotIndex /\ Occupies(member_ring[i])
               /\ slots[member_ring[i].slot].active_epoch = completed + 1
    <3>1. i \in 1 .. m
      BY <1>6
    <3> QED
      BY <1>1, <1>5, <3>1 DEF PendingExact, Occupies, m
  <2>4. ASSUME NEW i \in 1 .. q
        PROVE  PermitSound(permits[i])'
    <3>1. PICK p : p = permits[i]
      OBVIOUS
    <3>2. p \in Permit /\ PermitSound(p) /\ p = permits'[i]
      BY <1>11, <2>1, <3>1
    <3>3. p.origin \in Nat
      BY <3>2 DEF Permit, Epoch
    <3>4. OriginMatches(p)'
      BY SMTT(30), <1>6, <1>8, <3>2, <3>3 DEF PermitSound, OriginMatches
    <3>5. PermitSound(p)'
      BY Zenon, <1>8, <3>2, <3>4 DEF PermitSound, Occupies, Handle
    <3> QED
      BY <3>2, <3>5
  <2>5. ASSUME NEW i \in (q + 1) .. (q + n)
        PROVE  PermitSound(permits[i])'
    <3>1. PICK p : p = [request |-> member_ring[i - q], origin |-> e]
      OBVIOUS
    <3>2. p = permits'[i] /\ i - q \in 1 .. n
      BY <1>11, <3>1
    <3>3. p.request = member_ring[i - q] /\ p.origin = completed + 1
      BY <1>4, <3>1
    <3>4. /\ p.request.slot \in SlotIndex /\ Occupies(p.request)
          /\ slots[p.request.slot].active_epoch = completed + 1
      BY <2>3, <3>2, <3>3
    <3>5. ~slots[p.request.slot].in_reclaim_ring
      <4>1. Listed(p.request.slot)
        BY <1>1, <3>4 DEF RingsExact
      <4> QED
        BY <1>6, <3>4, <4>1 DEF Listed, NoEpoch
    <3>6. OriginMatches(p)'
      BY <1>6, <1>8, <3>3, <3>4 DEF OriginMatches, NoEpoch
    <3>7. PermitSound(p)'
      BY Zenon, <1>8, <3>3, <3>4, <3>5, <3>6 DEF PermitSound, Occupies, Handle
    <3> QED
      BY <3>2, <3>7
  <2>6. \A i \in 1 .. (q + n) : i \in 1 .. q \/ i \in (q + 1) .. (q + n)
    BY <1>6
  <2>7. (\A i \in 1 .. Len(permits) : PermitSound(permits[i]))'
    BY <1>11, <2>4, <2>5, <2>6
  <2>8. ASSUME NEW i \in (q + 1) .. (q + n)
        PROVE  /\ i - q \in 1 .. n
               /\ permits'[i].request = member_ring[i - q]
    <3>1. /\ i - q \in 1 .. n
          /\ permits'[i] = [request |-> member_ring[i - q], origin |-> e]
      BY <1>11
    <3>2. [request |-> member_ring[i - q], origin |-> e].request = member_ring[i - q]
      OBVIOUS
    <3> QED
      BY <3>1, <3>2
  <2>9. ASSUME NEW i \in 1 .. q, NEW j \in (q + 1) .. (q + n)
        PROVE  permits'[i].request.slot # permits'[j].request.slot
    <3>1. permits'[i] = permits[i]
      BY <1>11
    <3>2. slots[permits'[j].request.slot].active_epoch = completed + 1
      BY <2>3, <2>8
    <3> QED
      BY <1>6, <2>2, <3>1, <3>2
  <2>10. ASSUME NEW i \in 1 .. q, NEW j \in 1 .. q,
                permits'[i].request.slot = permits'[j].request.slot
         PROVE  i = j
    BY <1>1, <1>11, <2>10 DEF PermitAuthority, q
  <2>11. ASSUME NEW i \in (q + 1) .. (q + n), NEW j \in (q + 1) .. (q + n),
                permits'[i].request.slot = permits'[j].request.slot
         PROVE  i = j
    <3>1. i - q \in 1 .. m /\ j - q \in 1 .. m
      BY <1>6, <2>8
    <3>2. i - q = j - q
      BY SMTT(30), <1>1, <2>8, <2>11, <3>1 DEF PendingExact, m
    <3> QED
      BY <1>6, <3>2
  <2> QED
    BY <1>11, <2>6, <2>7, <2>9, <2>10, <2>11 DEF PermitAuthority
<1> QED
  BY <1>12, <1>13, <1>14 DEF SchedInv

-----------------------------------------------------------------------------
(* Dispatch *)

\* The scan from the cursor meets every slot once.
LEMMA WrapProperties ==
    ASSUME SchedTypeOK
    PROVE  /\ \A o \in SlotIndex : Wrap(cursor + o) \in SlotIndex
           /\ \A o, u \in SlotIndex : Wrap(cursor + o) = Wrap(cursor + u) => o = u
           /\ \A s \in SlotIndex : /\ Distance(s) \in SlotIndex
                                   /\ Wrap(cursor + Distance(s)) = s
BY SchedulerAssumption DEF SchedTypeOK, SlotIndex, Wrap, Distance

\* A dispatch_ready as its scan describes it: the k slots of roster, at scan
\* offsets at, are selected, and no ready slot before the place where it stops
\* is left out.
Scanned(limit, k, at, roster) ==
    /\ limit <= C - Len(member_ring) /\ k <= limit
    /\ \A i \in 1 .. k : /\ roster[i] = Wrap(cursor + at[i])
                         /\ slots[roster[i]].state = "Ready"
    /\ \A i, j \in 1 .. k : i < j => at[i] < at[j]
    /\ \A o \in SlotIndex :
          slots[Wrap(cursor + o)].state = "Ready" /\ (o < at[k] \/ k < limit)
          => \E i \in 1 .. k : at[i] = o
    /\ Submit(roster)
    /\ cursor' = CursorAfter(at[k], k = limit)

\* What dispatch_scan_commit's loop selects: at least one ready slot, distinct
\* slots, no more than there is room for; and how it moves the cursor.
LEMMA ScanProperties ==
    ASSUME SchedTypeOK, NEW len \in 1 .. C, DispatchReady(len)
    PROVE  \E limit, k \in 1 .. C : \E at, roster \in [1 .. k -> SlotIndex] :
             Scanned(limit, k, at, roster)
<1>1. C \in Nat \ {0} /\ Len(member_ring) \in Nat
  BY SchedulerAssumption DEF SchedTypeOK
<1>2. PICK limit : limit = MinOf(len, C - Len(member_ring))
  OBVIOUS
<1>3. Len(member_ring) < C
  BY DEF DispatchReady
<1>4. limit \in 1 .. C /\ limit <= C - Len(member_ring)
  BY <1>1, <1>2, <1>3 DEF MinOf
<1>5. PICK k \in 1 .. limit : \E at \in [1 .. k -> SlotIndex] :
         LET roster == [i \in 1 .. k |-> Wrap(cursor + at[i])] IN
         /\ ScanSelects(roster, at, limit)
         /\ Submit(roster)
         /\ cursor' = CursorAfter(at[k], k = limit)
  BY Zenon, <1>2 DEF DispatchReady
<1>6. PICK at \in [1 .. k -> SlotIndex] :
         LET roster == [i \in 1 .. k |-> Wrap(cursor + at[i])] IN
         /\ ScanSelects(roster, at, limit)
         /\ Submit(roster)
         /\ cursor' = CursorAfter(at[k], k = limit)
  BY Zenon, <1>5
<1>7. PICK roster : roster = [i \in 1 .. k |-> Wrap(cursor + at[i])]
  OBVIOUS
<1>8. ScanSelects(roster, at, limit) /\ Submit(roster)
      /\ cursor' = CursorAfter(at[k], k = limit)
  BY <1>6, <1>7
<1>9. k \in 1 .. C /\ k <= limit
  BY <1>1, <1>4
<1>10. roster \in [1 .. k -> SlotIndex] /\ Len(roster) = k
  <2>1. \A i \in 1 .. k : Wrap(cursor + at[i]) \in SlotIndex
    BY WrapProperties
  <2> QED
    BY <1>1, <1>7, <1>9, <2>1
<1>11. /\ \A i \in 1 .. k : /\ roster[i] = Wrap(cursor + at[i])
                            /\ slots[roster[i]].state = "Ready"
       /\ \A i, j \in 1 .. k : i < j => at[i] < at[j]
       /\ \A o \in SlotIndex :
             slots[Wrap(cursor + o)].state = "Ready" /\ (o < at[k] \/ k < limit)
             => \E i \in 1 .. k : at[i] = o
  BY <1>8, <1>10 DEF ScanSelects
<1> QED
  BY Zenon, <1>4, <1>8, <1>9, <1>10, <1>11 DEF Scanned

\* dispatch_ready keeps the invariant.
LEMMA DispatchReadyInv ==
    ASSUME SchedInv, NEW len \in 1 .. C, DispatchReady(len)
    PROVE  SchedInv'
<1>1. SchedTypeOK
  BY DEF SchedInv
<1>2. PICK limit, k \in 1 .. C : \E at, roster \in [1 .. k -> SlotIndex] :
         Scanned(limit, k, at, roster)
  BY <1>1, ScanProperties
<1>3. PICK at, roster \in [1 .. k -> SlotIndex] :
         Scanned(limit, k, at, roster)
  BY <1>2
<1>s. /\ limit <= C - Len(member_ring) /\ k <= limit
      /\ \A i \in 1 .. k : /\ roster[i] = Wrap(cursor + at[i])
                           /\ slots[roster[i]].state = "Ready"
      /\ \A i, j \in 1 .. k : i < j => at[i] < at[j]
      /\ Submit(roster)
      /\ cursor' = CursorAfter(at[k], k = limit)
  BY <1>3 DEF Scanned
<1>4. C \in Nat \ {0} /\ Len(member_ring) \in Nat /\ cursor \in SlotIndex
  BY <1>1, SchedulerAssumption DEF SchedTypeOK
<1>5. \A i \in 1 .. k : at[i] \in SlotIndex /\ at[i] \in Int
  BY <1>4 DEF SlotIndex
<1>6. ASSUME NEW i \in 1 .. k, NEW j \in 1 .. k, i < j
      PROVE  roster[i] # roster[j]
  <2>1. at[i] < at[j]
    BY <1>s, <1>6
  <2>2. at[i] # at[j]
    BY <1>5, <2>1
  <2> QED
    BY <1>1, <1>s, <1>5, <2>2, WrapProperties
<1>7. k <= C - Len(member_ring)
  BY <1>s, <1>4
<1>8. cursor' \in SlotIndex
  <2>1. k \in 1 .. k /\ at[k] \in SlotIndex
    BY <1>4, <1>5
  <2>2. cursor' = CursorAfter(at[k], k = limit)
    BY <1>s
  <2> QED
    BY SMTT(30), <1>4, <2>1, <2>2 DEF CursorAfter, Wrap, SlotIndex
<1>9. submitted < MaxEpoch /\ Len(batch_ring) < C
  BY DEF DispatchReady
<1> QED
  BY <1>s, <1>6, <1>7, <1>8, <1>9, SubmitInv

\* dispatch_m1_exact_ready keeps the invariant.
LEMMA DispatchExactInv ==
    ASSUME SchedInv, NEW n \in 1 .. C, NEW roster \in [1 .. n -> SlotIndex],
           DispatchExact(roster)
    PROVE  SchedInv'
<1>1. Len(roster) = n
  BY SchedulerAssumption
<1>2. cursor' \in SlotIndex
  BY DEF SchedInv, SchedTypeOK, DispatchExact
<1>3. /\ \A i \in 1 .. n : slots[roster[i]].state = "Ready"
      /\ \A i, j \in 1 .. n : i < j => roster[i] # roster[j]
      /\ submitted < MaxEpoch /\ Len(batch_ring) < C /\ n <= C - Len(member_ring)
      /\ Submit(roster)
  BY <1>1 DEF DispatchExact, ExactRoster
<1> QED
  BY <1>2, <1>3, SubmitInv

-----------------------------------------------------------------------------
(* Every behaviour *)

\* Every step of the scheduler keeps the invariant.
LEMMA NextInv == SchedInv /\ [SchedNext]_schedVars => SchedInv'
<1> SUFFICES ASSUME SchedInv, [SchedNext]_schedVars
             PROVE  SchedInv'
  OBVIOUS
<1>1. ASSUME Admit PROVE SchedInv'
  BY <1>1, AdmitInv
<1>2. ASSUME NEW r \in RequestId, Retire(r) PROVE SchedInv'
  BY <1>2, RetireReadyInv, RetireInflightInv DEF Retire
<1>3. ASSUME NEW len \in 1 .. C, DispatchReady(len) PROVE SchedInv'
  BY <1>3, DispatchReadyInv
<1>4. ASSUME NEW n \in 1 .. C, NEW roster \in [1 .. n -> SlotIndex], DispatchExact(roster)
      PROVE  SchedInv'
  BY <1>4, DispatchExactInv
<1>5. ASSUME NEW e \in Epoch, CompleteExact(e) PROVE SchedInv'
  BY <1>5, CompleteExactInv
<1>6. ASSUME TakeRetiringPermit PROVE SchedInv'
  BY <1>6, TakeRetiringPermitInv
<1>7. ASSUME NEW i \in 1 .. Len(permits),
             AcceptFinalized(i) \/ ReclaimDetached(i) \/ ReincarnateDetached(i)
             \/ DropPermit(i)
      PROVE  SchedInv'
  BY <1>7, AcceptFinalizedInv, ReclaimDetachedInv, ReincarnateDetachedInv, DropPermitInv
<1>8. ASSUME ClearPermits PROVE SchedInv'
  BY <1>8, ClearPermitsInv
<1>9. CASE UNCHANGED schedVars
  <2>1. UNCHANGED <<slots, free_ring, reclaim_ring, member_ring, batch_ring, cursor,
                    submitted, completed, live_count, permits>>
    BY <1>9 DEF schedVars, rings, scalars
  <2>2. SchedTypeOK' /\ RingsExact' /\ SlotEpochs' /\ SlotsCounted'
    BY <2>1 DEF SchedInv, SchedTypeOK, RingsExact, Listed, SlotEpochs, SlotsCounted
  <2>3. PendingExact'
    BY <2>1, PendingFrame DEF SchedInv
  <2>4. PermitAuthority'
    BY Zenon, <2>1 DEF SchedInv, PermitAuthority, PermitSound, Occupies, Handle, OriginMatches
  <2> QED
    BY <2>2, <2>3, <2>4 DEF SchedInv
<1> QED
  BY <1>1, <1>2, <1>3, <1>4, <1>5, <1>6, <1>7, <1>8, <1>9 DEF SchedNext

\* The strengthened invariant holds in every reachable state of Scheduler<C>.
THEOREM SchedulerInvariant == SchedSpec => []SchedInv
<1>1. SchedInit => SchedInv
  BY InitInv
<1>2. SchedInv /\ [SchedNext]_schedVars => SchedInv'
  BY NextInv
<1> QED
  BY <1>1, <1>2, PTL DEF SchedSpec

\* The scheduler's arrays are never overrun and its counters never leave their
\* range, whatever the order of the calls.
THEOREM SchedulerType == SchedSpec => []SchedTypeOK
<1>1. SchedInv => SchedTypeOK
  BY DEF SchedInv
<1> QED
  BY <1>1, SchedulerInvariant, PTL

\* The free and the reclaim ring hold exactly the slots they should, once.
THEOREM SchedulerRings == SchedSpec => []RingsExact
<1>1. SchedInv => RingsExact
  BY DEF SchedInv
<1> QED
  BY <1>1, SchedulerInvariant, PTL

\* The pending batches hold exactly the requests with an uncompleted epoch, in
\* the order in which complete_exact will quiesce them.
THEOREM SchedulerPending == SchedSpec => []PendingExact
<1>1. SchedInv => PendingExact
  BY DEF SchedInv
<1> QED
  BY <1>1, SchedulerInvariant, PTL

\* A permit is exclusive authority over a quiescent, current generation.
THEOREM SchedulerPermits == SchedSpec => []PermitAuthority
<1>1. SchedInv => PermitAuthority
  BY DEF SchedInv
<1> QED
  BY <1>1, SchedulerInvariant, PTL

-----------------------------------------------------------------------------
(* Bounded bypass *)

\* The distance of a slot the scan did not reach, after a full batch.
LEMMA DistanceAfter ==
    ASSUME SchedTypeOK, NEW s \in SlotIndex, NEW a \in SlotIndex, a < Distance(s),
           cursor' = Wrap(cursor + a + 1)
    PROVE  Distance(s)' < Distance(s)
BY SchedulerAssumption DEF SchedTypeOK, SlotIndex, Wrap, Distance

\* One dispatch_ready brings the cursor closer to each ready request it leaves.
LEMMA DispatchApproaches ==
    ASSUME SchedTypeOK, NEW len \in 1 .. C, DispatchReady(len), NEW s \in SlotIndex,
           slots[s].state = "Ready", slots'[s].state = "Ready"
    PROVE  Distance(s)' < Distance(s)
<1>1. PICK limit, k \in 1 .. C : \E at, roster \in [1 .. k -> SlotIndex] :
         Scanned(limit, k, at, roster)
  BY ScanProperties
<1>2. PICK at, roster \in [1 .. k -> SlotIndex] : Scanned(limit, k, at, roster)
  BY <1>1
<1>3. C \in Nat /\ k \in 1 .. k /\ Len(roster) = k
  BY SchedulerAssumption
<1>4. /\ k <= limit
      /\ \A i \in 1 .. k : roster[i] = Wrap(cursor + at[i])
      /\ \A o \in SlotIndex :
            slots[Wrap(cursor + o)].state = "Ready" /\ (o < at[k] \/ k < limit)
            => \E i \in 1 .. k : at[i] = o
      /\ Submit(roster)
      /\ cursor' = CursorAfter(at[k], k = limit)
  BY <1>2 DEF Scanned
<1>5. Distance(s) \in SlotIndex /\ Wrap(cursor + Distance(s)) = s
  BY WrapProperties
<1>6. ASSUME NEW i \in 1 .. k PROVE at[i] # Distance(s)
  <2>1. SUFFICES ASSUME roster[i] = s PROVE FALSE
    BY <1>4, <1>5
  <2>2. slots'[s] = [slots[s] EXCEPT !.state = "InFlight", !.active_epoch = submitted + 1]
    BY Zenon, <1>3, <1>4, <2>1 DEF Submit
  <2>3. slots[s] \in Slot
    BY DEF SchedTypeOK
  <2> QED
    BY <2>2, <2>3 DEF Slot
<1>7. ~(Distance(s) < at[k]) /\ ~(k < limit) /\ at[k] # Distance(s)
  BY <1>3, <1>4, <1>5, <1>6
<1>8. at[k] \in SlotIndex /\ at[k] < Distance(s) /\ k = limit
  BY SMTT(30), <1>3, <1>4, <1>5, <1>7 DEF SlotIndex
<1>9. cursor' = Wrap(cursor + at[k] + 1)
  BY Zenon, <1>4, <1>8 DEF CursorAfter
<1> QED
  BY <1>8, <1>9, DistanceAfter

\* Fewer than C dispatches can leave the same ready request behind: each brings
\* the cursor of dispatch_scan_commit strictly closer to it.
THEOREM SchedulerBypass == SchedSpec => BoundedBypass
<1>1. SchedInv => BypassStep
  BY DispatchApproaches DEF SchedInv, BypassStep
<1> QED
  BY <1>1, SchedulerInvariant, PTL DEF SchedSpec, BoundedBypass

-----------------------------------------------------------------------------
(* The lifecycle *)

\* Slot s moves between states and phases as slot_model reads them.
Moves(s, st1, ph1, st2, ph2) ==
    /\ slots[s].state = st1 /\ Phase(s) = ph1
    /\ slots'[s].state = st2 /\ Phase(s)' = ph2

SlotSameGeneration(s) == slots'[s].generation = slots[s].generation

\* The refinement mapping reads a slot's state, phase and generation.
LEMMA MoveMapped ==
    ASSUME NEW s \in SlotIndex, NEW st1, NEW ph1, NEW st2, NEW ph2,
           Moves(s, st1, ph1, st2, ph2)
    PROVE  Lifecycle!Move(s, st1, ph1, st2, ph2)
BY DEF Moves, Lifecycle!Move

\* The mapping reads the slot's generation, kept or advanced.
LEMMA SameGenerationMapped ==
    ASSUME NEW s \in SlotIndex
    PROVE  /\ SlotSameGeneration(s) => Lifecycle!SameGeneration(s)
           /\ slots'[s].generation = slots[s].generation + 1 => Lifecycle!NextGeneration(s)
BY DEF SlotSameGeneration, Lifecycle!SameGeneration, Lifecycle!NextGeneration

\* A slot whose state, epoch and generation are kept while no epoch completes
\* stays where it is in its lifecycle.
LEMMA StaysMapped ==
    ASSUME NEW s \in SlotIndex, slots'[s].state = slots[s].state,
           slots'[s].active_epoch = slots[s].active_epoch,
           SlotSameGeneration(s), Phase(s)' = Phase(s)
    PROVE  Lifecycle!LStep(s)
<1>1. Lifecycle!SameGeneration(s)
  BY SameGenerationMapped
<1>2. Lifecycle!LIdle(s)
  BY <1>1 DEF Lifecycle!LIdle, Lifecycle!Move
<1> QED
  BY <1>2 DEF Lifecycle!LStep

\* A slot that is not touched, while no epoch completes.
LEMMA UntouchedMapped ==
    ASSUME NEW s \in SlotIndex, slots'[s] = slots[s], completed' = completed
    PROVE  Lifecycle!LStep(s)
<1>1. Phase(s)' = Phase(s)
  BY DEF Phase
<1> QED
  BY <1>1, StaysMapped DEF SlotSameGeneration

\* admit.
LEMMA AdmitMapped ==
    ASSUME SchedInv, Admit, NEW s \in SlotIndex
    PROVE  Lifecycle!LStep(s)
<1>1. SchedTypeOK /\ RingsExact /\ SlotEpochs
  BY DEF SchedInv
<1>2. PICK h : h = Head(free_ring)
  OBVIOUS
<1>3. /\ free_ring # <<>> /\ completed' = completed
      /\ slots' = [slots EXCEPT ![h] = [@ EXCEPT !.state = "Ready", !.in_free_ring = FALSE]]
  BY <1>2 DEF Admit
<1>4. h \in SlotIndex /\ slots[h].state = "Vacant"
  BY Zenon, <1>1, <1>2, <1>3, RingTailOf DEF RingsExact, Listed, SchedTypeOK
<1>5. CASE s # h
  <2>1. slots'[s] = slots[s]
    BY <1>1, <1>3, <1>4, <1>5 DEF SchedTypeOK
  <2> QED
    BY Zenon, <1>3, <2>1, UntouchedMapped
<1>6. CASE s = h
  <2>1. slots[s] \in Slot
    BY <1>1 DEF SchedTypeOK
  <2>2. slots'[s] = [slots[s] EXCEPT !.state = "Ready", !.in_free_ring = FALSE]
    BY <1>1, <1>3, <1>6 DEF SchedTypeOK
  <2>3. slots'[s].state = "Ready" /\ SlotSameGeneration(s)
    BY <2>1, <2>2 DEF Slot, SlotSameGeneration
  <2>4. Moves(s, "Vacant", "Idle", "Ready", "Idle")
    BY <1>4, <1>6, <2>3 DEF Moves, Phase
  <2>5. Lifecycle!LAdmit(s)
    BY <2>3, <2>4, MoveMapped, SameGenerationMapped DEF Lifecycle!LAdmit
  <2> QED
    BY <2>5 DEF Lifecycle!LStep
<1> QED
  BY <1>5, <1>6

\* retire of a ready request.
LEMMA RetireReadyMapped ==
    ASSUME SchedInv, NEW r \in RequestId, RetireReady(r), NEW s \in SlotIndex
    PROVE  Lifecycle!LStep(s)
<1>1. SchedTypeOK
  BY DEF SchedInv
<1>2. PICK h : h = r.slot
  OBVIOUS
<1>3. /\ completed' = completed /\ h \in SlotIndex /\ slots[h].state = "Ready"
      /\ slots' = [slots EXCEPT ![h] = [@ EXCEPT !.state = "Retiring",
                                                 !.active_epoch = NoEpoch,
                                                 !.in_reclaim_ring = TRUE]]
  BY <1>2 DEF RetireReady, Live, scalars
<1>5. CASE s # h
  <2>1. slots'[s] = slots[s]
    BY Zenon, <1>1, <1>3, <1>5 DEF SchedTypeOK
  <2> QED
    BY <1>3, <2>1, UntouchedMapped
<1>6. CASE s = h
  <2>1. slots[s] \in Slot
    BY <1>1 DEF SchedTypeOK
  <2>2. slots'[s] = [slots[s] EXCEPT !.state = "Retiring", !.active_epoch = NoEpoch,
                                     !.in_reclaim_ring = TRUE]
    BY <1>1, <1>3, <1>6 DEF SchedTypeOK
  <2>3. slots'[s].state = "Retiring" /\ slots'[s].active_epoch = NoEpoch
        /\ SlotSameGeneration(s)
    BY <2>1, <2>2 DEF Slot, SlotSameGeneration
  <2>4. NoEpoch <= completed'
    BY <1>1, <1>3 DEF SchedTypeOK, Epoch, NoEpoch
  <2>5. Moves(s, "Ready", "Idle", "Retiring", "RetiringQuiescent")
    BY <1>3, <1>6, <2>3, <2>4 DEF Moves, Phase
  <2>6. Lifecycle!LRetire(s)
    BY Zenon, <2>3, <2>5, MoveMapped, SameGenerationMapped DEF Lifecycle!LRetire
  <2> QED
    BY <2>6 DEF Lifecycle!LStep
<1> QED
  BY Zenon, <1>5, <1>6

\* retire of a request in flight, whether or not its epoch has completed.
LEMMA RetireInflightMapped ==
    ASSUME SchedInv, NEW r \in RequestId, RetireInflight(r), NEW s \in SlotIndex
    PROVE  Lifecycle!LStep(s)
<1>1. SchedTypeOK
  BY DEF SchedInv
<1>2. PICK h : h = r.slot
  OBVIOUS
<1>3. /\ completed' = completed /\ h \in SlotIndex /\ slots[h].state = "InFlight"
      /\ slots' = [slots EXCEPT ![h] = [@ EXCEPT !.state = "Retiring"]]
  BY <1>2 DEF RetireInflight, Live, scalars
<1>5. CASE s # h
  <2>1. slots'[s] = slots[s]
    BY <1>1, <1>3, <1>5 DEF SchedTypeOK
  <2> QED
    BY <1>3, <2>1, UntouchedMapped
<1>6. CASE s = h
  <2>1. slots[s] \in Slot
    BY <1>1 DEF SchedTypeOK
  <2>2. slots'[s] = [slots[s] EXCEPT !.state = "Retiring"]
    BY <1>1, <1>3, <1>6 DEF SchedTypeOK
  <2>3. /\ slots'[s].state = "Retiring" /\ SlotSameGeneration(s)
        /\ slots'[s].active_epoch = slots[s].active_epoch
    BY <2>1, <2>2 DEF Slot, SlotSameGeneration
  <2>4. \/ Moves(s, "InFlight", "AwaitingKv", "Retiring", "RetiringQuiescent")
        \/ Moves(s, "InFlight", "Executing", "Retiring", "RetiringExecuting")
    BY <1>3, <1>6, <2>3 DEF Moves, Phase
  <2>5. Lifecycle!LRetire(s)
    BY Zenon, <2>3, <2>4, MoveMapped, SameGenerationMapped DEF Lifecycle!LRetire
  <2> QED
    BY <2>5 DEF Lifecycle!LStep
<1> QED
  BY <1>5, <1>6

\* Both dispatches.
LEMMA SubmitMapped ==
    ASSUME SchedInv, NEW n \in 1 .. C, NEW roster \in [1 .. n -> SlotIndex],
           \A i \in 1 .. n : slots[roster[i]].state = "Ready",
           Submit(roster), NEW s \in SlotIndex
    PROVE  Lifecycle!LStep(s)
<1>1. SchedTypeOK /\ PendingExact /\ Len(roster) = n
  BY SchedulerAssumption DEF SchedInv
<1>2. completed \in Nat /\ submitted \in Nat /\ Len(batch_ring) \in Nat
      /\ submitted = completed + Len(batch_ring)
  BY <1>1 DEF SchedTypeOK, PendingExact, Epoch
<1>3. completed' = completed
  BY Zenon DEF Submit
<1>4. slots[s] \in Slot
  BY <1>1 DEF SchedTypeOK
<1>5. CASE \E i \in 1 .. n : roster[i] = s
  <2>1. slots[s].state = "Ready"
    BY <1>5
  <2>2. slots'[s] = [slots[s] EXCEPT !.state = "InFlight", !.active_epoch = submitted + 1]
    BY Zenon, <1>1, <1>5 DEF Submit
  <2>3. /\ slots'[s].state = "InFlight" /\ slots'[s].active_epoch = submitted + 1
        /\ SlotSameGeneration(s)
    BY <1>4, <2>2 DEF Slot, SlotSameGeneration
  <2>4. ~(submitted + 1 <= completed')
    BY <1>2, <1>3
  <2>5. Moves(s, "Ready", "Idle", "InFlight", "Executing")
    BY <2>1, <2>3, <2>4 DEF Moves, Phase
  <2>6. Lifecycle!LDispatch(s)
    BY <2>3, <2>5, MoveMapped, SameGenerationMapped DEF Lifecycle!LDispatch
  <2> QED
    BY <2>6 DEF Lifecycle!LStep
<1>6. CASE ~\E i \in 1 .. n : roster[i] = s
  <2>1. slots'[s] = slots[s]
    BY Zenon, <1>1, <1>6 DEF Submit
  <2> QED
    BY <1>3, <2>1, UntouchedMapped
<1> QED
  BY <1>5, <1>6

\* complete_exact touches no slot: what it moves is the phase of those whose
\* epoch is the one that completes.
LEMMA CompleteExactMapped ==
    ASSUME SchedInv, NEW e \in Epoch, CompleteExact(e), NEW s \in SlotIndex
    PROVE  Lifecycle!LStep(s)
<1>1. SchedTypeOK /\ PendingExact /\ SlotEpochs
  BY DEF SchedInv
<1>2. slots' = slots /\ completed' = completed + 1
  BY DEF CompleteExact
<1>3. completed \in Nat /\ slots[s].active_epoch \in Nat
  BY <1>1 DEF SchedTypeOK, Epoch, Slot
<1>4. SlotSameGeneration(s)
  BY <1>2 DEF SlotSameGeneration
<1>5. CASE slots[s].active_epoch = completed + 1
  <2>1. PICK i \in 1 .. Len(member_ring) : member_ring[i].slot = s
    BY SMTT(30), <1>1, <1>3, <1>5 DEF PendingExact
  <2>2. slots[s].state \in {"InFlight", "Retiring"}
    BY <1>1, <2>1 DEF PendingExact, Occupies
  <2>3. ~(slots[s].active_epoch <= completed) /\ slots'[s].active_epoch <= completed'
    BY <1>2, <1>3, <1>5
  <2>4. \/ Moves(s, "InFlight", "Executing", "InFlight", "AwaitingKv")
        \/ Moves(s, "Retiring", "RetiringExecuting", "Retiring", "RetiringQuiescent")
    BY <1>2, <2>2, <2>3 DEF Moves, Phase
  <2>5. Lifecycle!LCompleteExact(s)
    BY <1>4, <2>4, MoveMapped, SameGenerationMapped DEF Lifecycle!LCompleteExact
  <2> QED
    BY <2>5 DEF Lifecycle!LStep
<1>6. CASE slots[s].active_epoch # completed + 1
  <2>1. (slots[s].active_epoch <= completed) <=> (slots[s].active_epoch <= completed + 1)
    BY <1>3, <1>6
  <2>2. Phase(s)' = Phase(s)
    BY <1>2, <2>1 DEF Phase
  <2> QED
    BY <1>2, <1>4, <2>2, StaysMapped
<1> QED
  BY <1>5, <1>6

\* accept_finalized.
LEMMA AcceptFinalizedMapped ==
    ASSUME SchedInv, NEW i \in 1 .. Len(permits), AcceptFinalized(i), NEW s \in SlotIndex
    PROVE  Lifecycle!LStep(s)
<1>1. SchedTypeOK /\ PermitAuthority
  BY DEF SchedInv
<1>2. PICK p : p = permits[i]
  OBVIOUS
<1>3. PICK h : h = p.request.slot
  OBVIOUS
<1>4. /\ completed' = completed
      /\ slots[h].state = "InFlight" /\ slots[h].active_epoch <= completed
      /\ slots' = [slots EXCEPT ![h] = [@ EXCEPT !.state = "Ready", !.active_epoch = NoEpoch,
                                                 !.last_quiescent_epoch = p.origin]]
  BY <1>2, <1>3 DEF AcceptFinalized, Finalizable, scalars
<1>5. h \in SlotIndex
  BY <1>1, <1>2, <1>3 DEF PermitAuthority, PermitSound, Occupies
<1>6. CASE s # h
  <2>1. slots'[s] = slots[s]
    BY <1>1, <1>4, <1>5, <1>6 DEF SchedTypeOK
  <2> QED
    BY <1>4, <2>1, UntouchedMapped
<1>7. CASE s = h
  <2>1. slots[s] \in Slot
    BY <1>1 DEF SchedTypeOK
  <2>2. slots'[s] = [slots[s] EXCEPT !.state = "Ready", !.active_epoch = NoEpoch,
                                     !.last_quiescent_epoch = p.origin]
    BY <1>1, <1>4, <1>7 DEF SchedTypeOK
  <2>3. slots'[s].state = "Ready" /\ SlotSameGeneration(s)
    BY <2>1, <2>2 DEF Slot, SlotSameGeneration
  <2>4. Moves(s, "InFlight", "AwaitingKv", "Ready", "Idle")
    BY <1>4, <1>7, <2>3 DEF Moves, Phase
  <2>5. Lifecycle!LFinalizeKv(s)
    BY <2>3, <2>4, MoveMapped, SameGenerationMapped DEF Lifecycle!LFinalizeKv
  <2> QED
    BY <2>5 DEF Lifecycle!LStep
<1> QED
  BY <1>6, <1>7

\* take_retiring_permit.
LEMMA TakeRetiringPermitMapped ==
    ASSUME SchedInv, TakeRetiringPermit, NEW s \in SlotIndex
    PROVE  Lifecycle!LStep(s)
<1>1. SchedTypeOK /\ slots[s] \in Slot
  BY DEF SchedInv, SchedTypeOK
<1>2. PICK h : h = Head(reclaim_ring)
  OBVIOUS
<1>3. /\ completed' = completed
      /\ slots' = [slots EXCEPT ![h] = [@ EXCEPT !.in_reclaim_ring = FALSE]]
  BY <1>2 DEF TakeRetiringPermit, scalars
<1>4. slots'[s] = slots[s] \/ slots'[s] = [slots[s] EXCEPT !.in_reclaim_ring = FALSE]
  BY Zenon, <1>1, <1>3 DEF SchedTypeOK
<1>5. /\ slots'[s].state = slots[s].state /\ slots'[s].active_epoch = slots[s].active_epoch
      /\ slots'[s].generation = slots[s].generation
  BY <1>1, <1>4 DEF Slot
<1>6. Phase(s)' = Phase(s)
  BY <1>3, <1>5 DEF Phase
<1> QED
  BY <1>5, <1>6, StaysMapped DEF SlotSameGeneration

\* reclaim_detached and reincarnate_detached.
LEMMA DetachMapped ==
    ASSUME SchedInv, NEW i \in 1 .. Len(permits),
           ReclaimDetached(i) \/ ReincarnateDetached(i), NEW s \in SlotIndex
    PROVE  Lifecycle!LStep(s)
<1>1. SchedTypeOK /\ PermitAuthority
  BY DEF SchedInv
<1>2. PICK p : p = permits[i]
  OBVIOUS
<1>3. PICK h : h = p.request.slot
  OBVIOUS
<1>4. /\ completed' = completed /\ Detachable(p)
      /\ \/ slots' = [slots EXCEPT ![h] =
                         FreshSlot(slots[h].generation + 1, "Vacant", TRUE)]
         \/ slots' = [slots EXCEPT ![h] =
                         FreshSlot(slots[h].generation + 1, "Ready", FALSE)]
  BY Zenon, <1>2, <1>3 DEF ReclaimDetached, ReincarnateDetached, scalars
<1>5. h \in SlotIndex
  BY <1>1, <1>2, <1>3 DEF PermitAuthority, PermitSound, Occupies
<1>6. slots[h].state = "Retiring" /\ slots[h].active_epoch <= completed
  <2>1. slots[h].state = "Retiring" /\ OriginMatches(p) /\ completed \in Nat
    BY <1>1, <1>3, <1>4 DEF Detachable, SchedTypeOK, Epoch
  <2> QED
    BY <1>3, <2>1 DEF OriginMatches, NoEpoch
<1>7. CASE s # h
  <2>1. slots'[s] = slots[s]
    BY Zenon, <1>1, <1>4, <1>5, <1>7 DEF SchedTypeOK
  <2> QED
    BY <1>4, <2>1, UntouchedMapped
<1>8. CASE s = h
  <2>1. \/ slots'[s] = FreshSlot(slots[s].generation + 1, "Vacant", TRUE)
        \/ slots'[s] = FreshSlot(slots[s].generation + 1, "Ready", FALSE)
    BY Zenon, <1>1, <1>4, <1>5, <1>8 DEF SchedTypeOK
  <2>2. /\ slots'[s].generation = slots[s].generation + 1
        /\ slots'[s].state \in {"Vacant", "Ready"}
    BY <2>1 DEF FreshSlot
  <2>3. \/ Moves(s, "Retiring", "RetiringQuiescent", "Vacant", "Idle")
        \/ Moves(s, "Retiring", "RetiringQuiescent", "Ready", "Idle")
    BY <1>6, <1>8, <2>2 DEF Moves, Phase
  <2>4. Lifecycle!LDetachKv(s) \/ Lifecycle!LDetachThenAdmit(s)
    BY <2>2, <2>3, MoveMapped, SameGenerationMapped
    DEF Lifecycle!LDetachKv, Lifecycle!LDetachThenAdmit
  <2> QED
    BY Zenon, <2>4 DEF Lifecycle!LStep
<1> QED
  BY <1>7, <1>8

\* Whatever the scheduler does, each slot makes one step of its lifecycle or none.
LEMMA StepMapped == SchedInv /\ [SchedNext]_schedVars => Lifecycle!LNext
<1> SUFFICES ASSUME SchedInv, [SchedNext]_schedVars, NEW s \in SlotIndex
             PROVE  Lifecycle!LStep(s)
  BY Zenon DEF Lifecycle!LNext
<1>1. ASSUME Admit PROVE Lifecycle!LStep(s)
  BY <1>1, AdmitMapped
<1>2. ASSUME NEW r \in RequestId, Retire(r) PROVE Lifecycle!LStep(s)
  BY <1>2, RetireReadyMapped, RetireInflightMapped DEF Retire
<1>3. ASSUME NEW len \in 1 .. C, DispatchReady(len) PROVE Lifecycle!LStep(s)
  <2>1. SchedTypeOK
    BY DEF SchedInv
  <2>2. PICK limit, k \in 1 .. C : \E at, roster \in [1 .. k -> SlotIndex] :
           Scanned(limit, k, at, roster)
    BY <1>3, <2>1, ScanProperties
  <2>3. PICK at, roster \in [1 .. k -> SlotIndex] : Scanned(limit, k, at, roster)
    BY <2>2
  <2>4. /\ \A i \in 1 .. k : slots[roster[i]].state = "Ready"
        /\ Submit(roster)
    BY <2>3 DEF Scanned
  <2> QED
    BY <2>4, SubmitMapped
<1>4. ASSUME NEW n \in 1 .. C, NEW roster \in [1 .. n -> SlotIndex], DispatchExact(roster)
      PROVE  Lifecycle!LStep(s)
  <2>1. Len(roster) = n
    BY SchedulerAssumption
  <2>2. (\A i \in 1 .. n : slots[roster[i]].state = "Ready") /\ Submit(roster)
    BY <1>4, <2>1 DEF DispatchExact, ExactRoster
  <2> QED
    BY <2>2, SubmitMapped
<1>5. ASSUME NEW e \in Epoch, CompleteExact(e) PROVE Lifecycle!LStep(s)
  BY <1>5, CompleteExactMapped
<1>6. ASSUME TakeRetiringPermit PROVE Lifecycle!LStep(s)
  BY <1>6, TakeRetiringPermitMapped
<1>7. ASSUME NEW i \in 1 .. Len(permits),
             AcceptFinalized(i) \/ ReclaimDetached(i) \/ ReincarnateDetached(i)
      PROVE  Lifecycle!LStep(s)
  BY <1>7, AcceptFinalizedMapped, DetachMapped
<1>8. ASSUME \/ \E i \in 1 .. Len(permits) : DropPermit(i)
             \/ ClearPermits
             \/ UNCHANGED schedVars
      PROVE  Lifecycle!LStep(s)
  <2>1. slots'[s] = slots[s] /\ completed' = completed
    BY <1>8 DEF DropPermit, ClearPermits, schedVars, scalars
  <2> QED
    BY <2>1, UntouchedMapped
<1> QED
  BY <1>1, <1>2, <1>3, <1>4, <1>5, <1>6, <1>7, <1>8 DEF SchedNext

\* Scheduler<C> implements the sequential lifecycle that ferric-spec states for
\* one request, for every slot at once and with any number of batches pending.
THEOREM SchedulerLifecycle == SchedSpec => LifecycleRefined
<1>1. SchedInit => Lifecycle!LInit
  BY DEF SchedInit, FreshSlot, Phase, Lifecycle!LInit
<1>2. SchedInv /\ [SchedNext]_schedVars => [Lifecycle!LNext]_(Lifecycle!lifecycle)
  BY StepMapped
<1> QED
  BY <1>1, <1>2, SchedulerInvariant, PTL DEF SchedSpec, LifecycleRefined, Lifecycle!LSpec

=============================================================================
