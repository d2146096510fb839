----------------------------- MODULE RingProofs -----------------------------
(* Proofs about Ring: its type invariant and that it implements a FIFO. *)
EXTENDS Ring, SequenceTheorems, TLAPS

\* ring_tail stays inside the array.
LEMMA RingTailRange ==
    ASSUME NEW h \in Index, NEW l \in Index
    PROVE  RingTail(h, l) \in Index
BY RingAssumption DEF RingTail, Index

\* Two distinct offsets below the capacity never give the same index: a push
\* never overwrites a live entry.
LEMMA RingTailInjective ==
    ASSUME NEW h \in Index, NEW k \in Index, NEW l \in Index,
           RingTail(h, k) = RingTail(h, l)
    PROVE  k = l
BY RingAssumption DEF RingTail, Index

\* advance moves the head to the index of the second oldest entry.
LEMMA RingTailAdvance ==
    ASSUME NEW h \in Index, NEW l \in Nat, l + 1 < Capacity
    PROVE  /\ Advance(h) \in Index
           /\ RingTail(Advance(h), l) = RingTail(h, l + 1)
BY RingAssumption DEF RingTail, Advance, Index

\* advance stays inside the array.
LEMMA AdvanceRange ==
    ASSUME NEW h \in Index
    PROVE  Advance(h) \in Index
BY RingAssumption DEF Advance, Index

\* The array, head and length of a ring always have their types.
THEOREM RingType == RingSpec => []RingTypeOK
<1>1. RingInit => RingTypeOK
  BY RingAssumption DEF RingInit, RingTypeOK, Index
<1>2. RingTypeOK /\ [RingNext]_ringVars => RingTypeOK'
  <2> SUFFICES ASSUME RingTypeOK, [RingNext]_ringVars PROVE RingTypeOK'
    OBVIOUS
  <2>1. CASE UNCHANGED ringVars
    BY <2>1 DEF RingTypeOK, ringVars
  <2>2. ASSUME NEW v \in Value, Push(v) PROVE RingTypeOK'
    <3>1. head \in Index /\ len \in Index
      BY <2>2, RingAssumption DEF RingTypeOK, Push, Index
    <3>2. RingTail(head, len) \in Index
      BY <3>1, RingTailRange
    <3> QED
      BY <2>2, <3>2, RingAssumption DEF RingTypeOK, Push
  <2>3. CASE Pop
    BY <2>3, AdvanceRange, RingAssumption DEF RingTypeOK, Pop
  <2> QED
    BY <2>1, <2>2, <2>3 DEF RingNext
<1> QED
  BY <1>1, <1>2, PTL DEF RingSpec

\* The live entries form a sequence of values no longer than the array.
LEMMA ContentsType ==
    ASSUME RingTypeOK
    PROVE  /\ Contents \in Seq(Value)
           /\ Len(Contents) = len
           /\ DOMAIN Contents = 1 .. len
<1>1. ASSUME NEW i \in 1 .. len PROVE RingTail(head, i - 1) \in Index
  <2>1. i - 1 \in Index /\ head \in Index
    BY RingAssumption DEF RingTypeOK, Index
  <2> QED
    BY <2>1, RingTailRange
<1>2. \A i \in 1 .. len : buf[RingTail(head, i - 1)] \in Value
  BY <1>1 DEF RingTypeOK
<1>3. Contents \in [1 .. len -> Value] /\ len \in Nat
  BY <1>2, RingAssumption DEF Contents, RingTypeOK
<1> QED
  BY <1>3

\* A push of the array form is an enqueue of the sequence form.
LEMMA PushEnqueues ==
    ASSUME RingTypeOK, NEW v \in Value, Push(v)
    PROVE  Queue!Enqueue(v)
<1>1. len \in 0 .. (Capacity - 1) /\ len' = len + 1 /\ head' = head /\ head \in Index
  BY RingAssumption DEF RingTypeOK, Push
<1>2. Contents' = [i \in 1 .. len + 1 |-> buf'[RingTail(head, i - 1)]]
  BY <1>1 DEF Contents
<1>3. ASSUME NEW i \in 1 .. len + 1
      PROVE  buf'[RingTail(head, i - 1)]
               = IF i = len + 1 THEN v ELSE buf[RingTail(head, i - 1)]
  <2>1. i - 1 \in Index /\ len \in Index
    BY <1>1, RingAssumption DEF Index
  <2>2. RingTail(head, i - 1) \in Index /\ RingTail(head, len) \in Index
    BY <1>1, <2>1, RingTailRange
  <2>3. RingTail(head, i - 1) = RingTail(head, len) => i = len + 1
    <3>1. RingTail(head, i - 1) = RingTail(head, len) => i - 1 = len
      BY <1>1, <2>1, RingTailInjective
    <3> QED
      BY <3>1, <1>1
  <2> QED
    BY <2>2, <2>3 DEF Push, RingTypeOK
<1>4. Contents' \in Seq(Value) /\ Len(Contents') = len + 1
  <2>1. \A i \in 1 .. len + 1 : buf'[RingTail(head, i - 1)] \in Value
    <3>1. \A i \in 1 .. len : Contents[i] = buf[RingTail(head, i - 1)]
      BY DEF Contents
    <3> QED
      BY <1>1, <1>3, <3>1, ContentsType
  <2>2. Contents' \in [1 .. len + 1 -> Value] /\ len + 1 \in Nat
    BY <1>1, <1>2, <2>1
  <2> QED
    BY <2>2
<1>5. /\ Append(Contents, v) \in Seq(Value)
      /\ Len(Append(Contents, v)) = len + 1
      /\ \A i \in 1 .. len : Append(Contents, v)[i] = Contents[i]
      /\ Append(Contents, v)[len + 1] = v
  BY <1>1, ContentsType, AppendProperties
<1>6. \A i \in 1 .. len + 1 : Contents'[i] = Append(Contents, v)[i]
  <2>1. \A i \in 1 .. len : Contents[i] = buf[RingTail(head, i - 1)]
    BY DEF Contents
  <2> QED
    BY <1>1, <1>2, <1>3, <1>5, <2>1
<1>7. Contents' = Append(Contents, v)
  BY <1>4, <1>5, <1>6, SeqEqual
<1> QED
  BY <1>1, <1>7, ContentsType, RingAssumption DEF Queue!Enqueue

\* A pop of the array form is a dequeue of the sequence form.
LEMMA PopDequeues ==
    ASSUME RingTypeOK, Pop
    PROVE  Queue!Dequeue
<1>1. len \in 1 .. Capacity /\ len' = len - 1 /\ buf' = buf /\ head \in Index
      /\ head' = Advance(head)
  BY RingAssumption DEF RingTypeOK, Pop
<1>2. Contents' = [i \in 1 .. len - 1 |-> buf[RingTail(Advance(head), i - 1)]]
  BY <1>1 DEF Contents
<1>3. \A i \in 1 .. len - 1 : RingTail(Advance(head), i - 1) = RingTail(head, i)
  BY <1>1, RingTailAdvance, RingAssumption
<1>4. Contents # <<>>
  BY <1>1, ContentsType
<1>5. /\ Tail(Contents) \in Seq(Value)
      /\ Len(Tail(Contents)) = len - 1
      /\ \A i \in 1 .. len - 1 : Tail(Contents)[i] = Contents[i + 1]
  BY <1>1, <1>4, ContentsType, HeadTailProperties
<1>6. \A i \in 1 .. len - 1 : Contents[i + 1] = buf[RingTail(head, i)]
  BY <1>1 DEF Contents
<1>7. Contents' \in Seq(Value) /\ Len(Contents') = len - 1
  <2>1. Contents' \in [1 .. len - 1 -> Value] /\ len - 1 \in Nat
    BY <1>1, <1>2, <1>3, <1>6, ContentsType
  <2> QED
    BY <2>1
<1>8. \A i \in 1 .. len - 1 : Contents'[i] = Tail(Contents)[i]
  BY <1>2, <1>3, <1>5, <1>6
<1>9. Contents' = Tail(Contents)
  BY <1>5, <1>7, <1>8, SeqEqual
<1> QED
  BY <1>4, <1>9 DEF Queue!Dequeue

\* The array form of a ring implements the bounded FIFO queue, for every
\* capacity: what Scheduler.tla relies on when it uses sequences.
THEOREM RingImplementsFifo == RingSpec => FifoRefined
<1>1. RingInit => Queue!FifoInit
  <2> SUFFICES ASSUME RingInit PROVE Queue!FifoInit
    OBVIOUS
  <2>1. RingTypeOK
    BY RingAssumption DEF RingInit, RingTypeOK, Index
  <2> QED
    BY <2>1, ContentsType, RingAssumption DEF Queue!FifoInit, RingTypeOK
<1>2. RingTypeOK /\ [RingNext]_ringVars => [Queue!FifoNext]_Contents
  <2> SUFFICES ASSUME RingTypeOK, [RingNext]_ringVars
               PROVE  [Queue!FifoNext]_Contents
    OBVIOUS
  <2>1. CASE UNCHANGED ringVars
    BY <2>1 DEF ringVars, Contents
  <2>2. ASSUME NEW v \in Value, Push(v) PROVE Queue!FifoNext
    BY <2>2, PushEnqueues DEF Queue!FifoNext
  <2>3. CASE Pop
    BY <2>3, PopDequeues DEF Queue!FifoNext
  <2> QED
    BY <2>1, <2>2, <2>3 DEF RingNext
<1> QED
  BY <1>1, <1>2, RingType, PTL DEF RingSpec, FifoRefined, Queue!FifoSpec

=============================================================================
