------------------------- MODULE DurableLedgerProofs -------------------------
(* Proofs about DurableLedger: its inductive invariant, the safety properties *)
(* that follow from it, and that it implements ChallengeRegistry.             *)
EXTENDS DurableLedger, SequenceTheorems, TLAPS

-----------------------------------------------------------------------------
(* Prefixes and fresh blocks *)

\* A sequence is a prefix of itself.
LEMMA WithinRefl ==
    ASSUME NEW a \in Seq(Block)
    PROVE  Within(a, a)
BY DEF Within

\* Prefixes of prefixes are prefixes.
LEMMA WithinTrans ==
    ASSUME NEW a \in Seq(Block), NEW b \in Seq(Block), NEW c \in Seq(Block),
           Within(a, b), Within(b, c)
    PROVE  Within(a, c)
BY DEF Within

\* Appending a block leaves what was there before.
LEMMA WithinAppend ==
    ASSUME NEW a \in Seq(Block), NEW b \in Block
    PROVE  /\ Append(a, b) \in Seq(Block) /\ Append(a, b) # <<>>
           /\ Len(Append(a, b)) = Len(a) + 1 /\ Len(a) \in Nat
           /\ Within(a, Append(a, b))
           /\ Append(a, b)[Len(a) + 1] = b
           /\ \A i \in 1 .. Len(a) : Append(a, b)[i] = a[i]
<1>1. /\ Append(a, b) \in Seq(Block) /\ Append(a, b) # <<>>
      /\ Len(Append(a, b)) = Len(a) + 1 /\ Len(a) \in Nat
      /\ Append(a, b)[Len(a) + 1] = b
      /\ \A i \in 1 .. Len(a) : Append(a, b)[i] = a[i]
  BY AppendProperties, LenProperties
<1>2. QED
  BY <1>1 DEF Within

\* A prefix that is as long as the whole is the whole.
LEMMA WithinSame ==
    ASSUME NEW a \in Seq(Block), NEW b \in Seq(Block), Within(a, b),
           Len(b) <= Len(a)
    PROVE  a = b
<1>1. Len(a) = Len(b) /\ \A i \in 1 .. Len(a) : a[i] = b[i]
  BY LenProperties DEF Within
<1>2. QED
  BY <1>1, SeqEqual

\* A head that extends what was observed is not a rollback.
LEMMA WithinNotRegressed ==
    ASSUME NEW s, NEW h \in Seq(Block), last_observed_head[s] \in Seq(Block),
           Within(last_observed_head[s], h)
    PROVE  ~Regressed(s, h)
<1> DEFINE l == last_observed_head[s]
<1>1. l \in Seq(Block) /\ Within(l, h)
  OBVIOUS
<1>2. SUFFICES ~(Len(h) < Len(l) \/ (Len(h) = Len(l) /\ h # l))
  BY DEF Regressed
<1> HIDE DEF l
<1>3. Len(l) <= Len(h) /\ Len(l) \in Nat /\ Len(h) \in Nat
  BY <1>1, LenProperties DEF Within
<1>4. Len(h) = Len(l) => l = h
  BY <1>1, <1>3, WithinSame
<1>5. QED
  BY <1>3, <1>4

\* One more element at the end of a sequence.
LEMMA AppendFacts ==
    ASSUME NEW S, NEW g \in Seq(S), NEW c \in S, NEW h, h = Append(g, c)
    PROVE  /\ DOMAIN g = 1 .. Len(g) /\ Len(g) \in Nat
           /\ DOMAIN h = 1 .. (Len(g) + 1)
           /\ h[Len(g) + 1] = c
           /\ \A i \in 1 .. Len(g) : h[i] = g[i]
  BY AppendProperties, LenProperties

\* A record shares its coordinates with itself, and sharing is symmetric.
LEMMA DisjointFacts ==
    ASSUME NEW c, NEW d
    PROVE  /\ ~Disjoint(c, c)
           /\ Disjoint(c, d) <=> Disjoint(d, c)
BY Zenon DEF Disjoint, Coordinates

\* A ledger that a fresh block is appended to is again one that can be opened.
LEMMA FreshValidated ==
    ASSUME NEW h \in Seq(Block), NEW b \in Block, Fresh(h, b),
           h = <<>> \/ Validated(h)
    PROVE  Validated(Append(h, b))
<1>1. /\ Append(h, b) \in Seq(Block) /\ Append(h, b) # <<>>
      /\ Len(Append(h, b)) = Len(h) + 1 /\ Len(h) \in Nat
      /\ Append(h, b)[Len(h) + 1] = b
      /\ \A i \in 1 .. Len(h) : Append(h, b)[i] = h[i]
  BY WithinAppend
<1>2. CASE h = <<>>
  <2>1. Len(h) = 0 /\ b = Header
    BY <1>2 DEF Fresh
  <2>2. QED
    BY <1>1, <2>1, LedgerAssumption DEF Validated
<1>3. CASE h # <<>>
  <2>1. /\ b \in Candidate /\ Len(h) <= MaxRecords
        /\ \A i \in 2 .. Len(h) : Disjoint(h[i], b)
    BY <1>3 DEF Fresh, Conflicts
  <2>2. Len(Append(h, b)) \in 1 .. (MaxRecords + 1)
    BY <1>1, <2>1, LedgerAssumption
  <2>3. Len(h) >= 1 /\ h[1] = Header
    BY <1>1, <1>3 DEF Validated
  <2>4. Append(h, b)[1] = Header
    BY <1>1, <2>3
  <2>5. ASSUME NEW i \in 2 .. (Len(h) + 1) PROVE Append(h, b)[i] \in Candidate
    BY <1>1, <1>3, <2>1 DEF Validated
  <2>6. ASSUME NEW i \in 2 .. (Len(h) + 1), NEW j \in 2 .. (Len(h) + 1), i # j
        PROVE  Disjoint(Append(h, b)[i], Append(h, b)[j])
    <3>1. CASE i <= Len(h) /\ j <= Len(h)
      BY <1>1, <1>3, <2>6, <3>1 DEF Validated
    <3>2. CASE i <= Len(h) /\ j = Len(h) + 1
      BY <1>1, <2>1, <2>6, <3>2
    <3>3. CASE j <= Len(h) /\ i = Len(h) + 1
      <4>1. Append(h, b)[j] = h[j] /\ Append(h, b)[i] = b /\ Disjoint(h[j], b)
        BY <1>1, <2>1, <2>6, <3>3
      <4>2. QED
        BY <4>1, DisjointFacts
    <3>4. QED
      BY <1>1, <2>6, <3>1, <3>2, <3>3
  <2>7. QED
    BY <1>1, <2>2, <2>4, <2>5, <2>6 DEF Validated
<1>4. QED
  BY <1>2, <1>3

-----------------------------------------------------------------------------
(* Frames *)

\* The part of the invariant that is about the file, the head and the records.
LedgerCore ==
    /\ GrantDurable /\ GrantedOnce
    /\ head = <<>> \/ Validated(head)
    /\ \A r \in orphans : ExactMutation(r)

\* It survives every step that changes none of these and orphans only exact
\* mutations.
LEMMA CoreFrame ==
    ASSUME LedgerCore, UNCHANGED <<cache, disk, head, granted>>,
           \A r \in orphans' : ExactMutation(r)
    PROVE  LedgerCore'
<1>1. GrantDurable'
  BY DEF LedgerCore, GrantDurable
<1>2. GrantedOnce'
  BY DEF LedgerCore, GrantedOnce, Disjoint, Coordinates
<1>3. (head = <<>> \/ Validated(head))'
  BY DEF LedgerCore, Validated, Disjoint, Coordinates
<1>4. ASSUME NEW r \in orphans' PROVE ExactMutation(r)'
  BY <1>4 DEF ExactMutation, Fresh, Conflicts, Disjoint, Coordinates
<1>5. QED
  BY <1>1, <1>2, <1>3, <1>4 DEF LedgerCore

\* The file lock keeps every other service out of its locked section.
LEMMA OthersIdle ==
    ASSUME LedgerTypeOK, NEW s \in Service \cup {NoService}, lock = s,
           NEW t \in Service, t # s
    PROVE  pc[t] \in Idle
BY DEF LedgerTypeOK, Idle

\* A service that is not between calls holds the lock.
LEMMA LockHolder ==
    ASSUME LedgerTypeOK, NEW s \in Service, pc[s] \notin Idle
    PROVE  lock = s
BY DEF LedgerTypeOK, Idle

\* A session that nothing happens to stays as it is.
LEMMA SessionFrame ==
    ASSUME NEW t \in Service, Session(t), pc'[t] = pc[t],
           request'[t] = request[t], response'[t] = response[t],
           last_observed_head'[t] = last_observed_head[t],
           UNCHANGED <<cache, disk, head, state, candidate, granted, orphans>>
    PROVE  Session(t)'
<1>1. Written(t)' = Written(t) /\ Advance(t)' = Advance(t)
  BY DEF Written, Advance
<1>2. /\ (request[t] = {} \/ response[t] = {})'
      /\ (pc[t] \in Idle \cup {"write", "sync", "swap"} =>
              request[t] = {} /\ response[t] = {})'
      /\ (pc[t] \in {"validate", "load"} =>
              /\ cache = state[t]
              /\ request[t] \subseteq {Load}
              /\ \A a \in response[t] : a.status \in {"Loaded", "Absent", "Rejected"}
              /\ \A a \in response[t] : a.status = "Loaded" => a.head # <<>>)'
  BY Zenon DEF Session
<1>3. /\ (pc[t] = "load" => candidate[t] \in Candidate)'
      /\ (pc[t] \in {"write", "sync", "swap", "await"} => Fresh(state[t], candidate[t]))'
      /\ (pc[t] = "write" => cache = state[t] /\ disk = state[t] /\ head = state[t])'
      /\ (pc[t] = "sync" => cache = Written(t) /\ disk = state[t] /\ head = state[t])'
      /\ (pc[t] \in {"swap", "await"} =>
              cache = Written(t) /\ disk = cache /\ orphans = {})'
      /\ (pc[t] = "swap" => head = state[t])'
  BY Zenon, <1>1 DEF Session
<1>4. (pc[t] = "await" =>
         /\ request[t] \subseteq {Advance(t)}
         /\ request[t] # {} => head = state[t]
         /\ \A a \in response[t] : a.status \in {"Advanced", "Rejected"}
         /\ \A a \in response[t] : a.status = "Advanced" =>
               /\ a.head = Written(t) /\ head = Written(t)
               /\ \A i \in DOMAIN granted :
                     \E j \in 2 .. Len(state[t]) : state[t][j] = granted[i])'
  BY Zenon, <1>1 DEF Session
<1>5. /\ Within(last_observed_head[t], head)'
      /\ (\A a \in response[t] : a.status \in {"Loaded", "Absent", "Advanced"} =>
              Within(last_observed_head[t], a.head) /\ Within(a.head, head))'
  BY Zenon DEF Session
<1>6. QED
  BY Zenon, <1>2, <1>3, <1>4, <1>5 DEF Session

\* A service that is between calls has nothing outstanding, and that is all.
LEMMA IdleSession ==
    ASSUME NEW t \in Service, pc'[t] \in Idle, request'[t] = {},
           response'[t] = {}, Within(last_observed_head'[t], head')
    PROVE  Session(t)'
BY DEF Session, Idle

\* A service that is between calls is not disturbed by the step of another.
LEMMA IdleFrame ==
    ASSUME MessageTypes, head \in Seq(Block), head' \in Seq(Block),
           Within(head, head'),
           NEW t \in Service, Session(t), pc[t] \in Idle, pc'[t] = pc[t],
           request'[t] = request[t], response'[t] = response[t],
           last_observed_head'[t] = last_observed_head[t]
    PROVE  Session(t)'
<1>1. /\ request[t] = {} /\ response[t] = {}
      /\ Within(last_observed_head[t], head)
      /\ last_observed_head[t] \in Seq(Block)
  BY DEF Session, Idle, MessageTypes
<1>2. Within(last_observed_head'[t], head')
  BY <1>1, WithinTrans
<1>3. QED
  BY <1>1, <1>2, IdleSession

\* The invariant holds initially.
LEMMA InitInv == LedgerInit => LedgerInv
<1> SUFFICES ASSUME LedgerInit PROVE LedgerInv
  OBVIOUS
<1>1. LedgerTypeOK
  BY LedgerAssumption DEF LedgerInit, LedgerTypeOK, Block
<1>2. MessageTypes
  BY DEF LedgerInit, MessageTypes
<1>3. GrantDurable /\ GrantedOnce
  BY DEF LedgerInit, GrantDurable, GrantedOnce
<1>4. ASSUME NEW s \in Service PROVE Session(s)
  <2>1. pc[s] = "closed" /\ request[s] = {} /\ response[s] = {}
    BY DEF LedgerInit
  <2>2. Within(last_observed_head[s], head)
    BY DEF LedgerInit, Within
  <2>3. QED
    BY <2>1, <2>2 DEF Session, Idle
<1>5. QED
  BY <1>1, <1>2, <1>3, <1>4 DEF LedgerInv, LedgerInit

-----------------------------------------------------------------------------
(* Every step keeps the invariant *)

\* The parts of the invariant, for the proofs below.
LEMMA InvParts ==
    ASSUME LedgerInv
    PROVE  /\ LedgerTypeOK /\ MessageTypes /\ LedgerCore
           /\ \A s \in Service : Session(s)
           /\ head \in Seq(Block) /\ Within(head, head)
BY WithinRefl DEF LedgerInv, LedgerCore, LedgerTypeOK

\* The services other than s are where they were.
OnlyTouches(s) ==
    \A t \in Service \ {s} :
        /\ pc'[t] = pc[t] /\ last_observed_head'[t] = last_observed_head[t]
        /\ request'[t] = request[t] /\ response'[t] = response[t]

\* A step that touches only s, which has the lock or finds it free, leaves the
\* sessions of the others alone, even if the head grows.
LEMMA OthersKept ==
    ASSUME LedgerInv, NEW s \in Service, lock \in {s, NoService}, OnlyTouches(s),
           head' \in Seq(Block), Within(head, head')
    PROVE  \A t \in Service \ {s} : Session(t)'
<1>1. /\ LedgerTypeOK /\ MessageTypes
      /\ \A t \in Service : Session(t)
      /\ head \in Seq(Block)
  BY InvParts
<1>2. ASSUME NEW t \in Service \ {s} PROVE Session(t)'
  <2>1. pc[t] \in Idle
    BY <1>1, OthersIdle, LedgerAssumption
  <2>2. QED
    BY <1>1, <2>1, IdleFrame DEF OnlyTouches
<1>3. QED
  BY <1>2

\* Provisioning starts on an empty file, whose head cannot exist yet.
LEMMA ProvisionInv ==
    ASSUME LedgerInv, NEW s \in Service, Provision(s)
    PROVE  LedgerInv'
<1>1. /\ LedgerTypeOK /\ MessageTypes /\ LedgerCore
      /\ \A t \in Service : Session(t)
      /\ head \in Seq(Block) /\ Within(head, head)
  BY InvParts
<1>2. /\ UNCHANGED <<cache, disk, head, granted, request, response, orphans>>
      /\ lock' = s /\ pc' = [pc EXCEPT ![s] = "write"]
      /\ state' = [state EXCEPT ![s] = <<>>]
      /\ candidate' = [candidate EXCEPT ![s] = Header]
      /\ peer' = [peer EXCEPT ![s] = TRUE]
      /\ last_observed_head' = [last_observed_head EXCEPT ![s] = <<>>]
      /\ pc[s] = "closed" /\ lock = NoService /\ cache = <<>>
  BY DEF Provision, NewClient, file
<1>3. LedgerTypeOK'
  BY <1>1, <1>2, LedgerAssumption DEF LedgerTypeOK
<1>4. MessageTypes'
  BY <1>1, <1>2 DEF MessageTypes
<1>5. LedgerCore'
  BY <1>1, <1>2, CoreFrame DEF LedgerCore
<1>6. disk = <<>> /\ head = <<>>
  <2>1. ASSUME NEW b \in Block PROVE Append(head, b) # <<>>
    BY <1>1, WithinAppend
  <2>2. QED
    BY <1>1, <1>2, <2>1 DEF LedgerCore, GrantDurable
<1>7. Session(s)'
  <2>1. /\ pc'[s] = "write" /\ state'[s] = <<>> /\ candidate'[s] = Header
        /\ request'[s] = {} /\ response'[s] = {} /\ last_observed_head'[s] = <<>>
    BY <1>1, <1>2 DEF LedgerTypeOK, MessageTypes, Session, Idle
  <2>2. Within(<<>>, head')
    BY <1>1, <1>2 DEF Within
  <2>3. Fresh(state[s], candidate[s])'
    BY <2>1 DEF Fresh
  <2>4. QED
    BY <1>2, <1>6, <2>1, <2>2, <2>3 DEF Session, Idle
<1>8. \A t \in Service \ {s} : Session(t)'
  <2>1. OnlyTouches(s)
    BY <1>1, <1>2 DEF OnlyTouches, LedgerTypeOK, MessageTypes
  <2>2. QED
    BY <1>1, <1>2, <2>1, OthersKept
<1>9. QED
  BY <1>3, <1>4, <1>5, <1>7, <1>8 DEF LedgerInv, LedgerCore

\* Opening only reads.
LEMMA OpenInv ==
    ASSUME LedgerInv, NEW s \in Service, OpenExisting(s)
    PROVE  LedgerInv'
<1>1. /\ LedgerTypeOK /\ MessageTypes /\ LedgerCore
      /\ \A t \in Service : Session(t)
      /\ head \in Seq(Block) /\ Within(head, head)
  BY InvParts
<1>2. /\ UNCHANGED <<cache, disk, head, granted, request, response, orphans,
                     lock, candidate>>
      /\ pc' = [pc EXCEPT ![s] = "read"]
      /\ state' = [state EXCEPT ![s] = cache]
      /\ peer' = [peer EXCEPT ![s] = TRUE]
      /\ last_observed_head' = [last_observed_head EXCEPT ![s] = <<>>]
      /\ pc[s] = "closed" /\ lock = NoService
  BY DEF OpenExisting, NewClient, file
<1>3. LedgerTypeOK'
  BY <1>1, <1>2, LedgerAssumption DEF LedgerTypeOK
<1>4. MessageTypes'
  BY <1>1, <1>2 DEF MessageTypes
<1>5. LedgerCore'
  BY <1>1, <1>2, CoreFrame DEF LedgerCore
<1>6. Session(s)'
  <2>1. /\ pc'[s] = "read" /\ request'[s] = {} /\ response'[s] = {}
        /\ last_observed_head'[s] = <<>>
    BY SMTT(30), <1>1, <1>2 DEF LedgerTypeOK, MessageTypes, Session, Idle
  <2>2. Within(<<>>, head')
    BY <1>1, <1>2 DEF Within
  <2>3. QED
    BY <2>1, <2>2, IdleSession DEF Idle
<1>7. \A t \in Service \ {s} : Session(t)'
  <2>1. OnlyTouches(s)
    BY <1>1, <1>2 DEF OnlyTouches, LedgerTypeOK, MessageTypes
  <2>2. QED
    BY <1>1, <1>2, <2>1, OthersKept
<1>8. QED
  BY <1>3, <1>4, <1>5, <1>6, <1>7 DEF LedgerInv, LedgerCore

\* A load is sent by a service that has just compared the file.
LEMMA SendLoadInv ==
    ASSUME LedgerInv, NEW s \in Service, NEW to \in {"validate", "load"},
           pc[s] \in Idle, FileUnchanged(s), SendLoad(s), lock' = s,
           pc' = [pc EXCEPT ![s] = to],
           candidate' \in [Service -> Candidate \cup {Header}],
           to = "load" => candidate'[s] \in Candidate,
           UNCHANGED <<cache, disk, head, state, granted>>
    PROVE  LedgerInv'
<1>1. /\ LedgerTypeOK /\ MessageTypes /\ LedgerCore
      /\ \A t \in Service : Session(t)
      /\ head \in Seq(Block) /\ Within(head, head)
  BY InvParts
<1>2. /\ request' = [request EXCEPT ![s] = {Load}]
      /\ UNCHANGED <<peer, last_observed_head, response, orphans>>
      /\ lock = NoService /\ cache = state[s]
  BY DEF FileUnchanged, SendLoad
<1>3. LedgerTypeOK'
  BY <1>1, <1>2, LedgerAssumption DEF LedgerTypeOK, Idle
<1>4. MessageTypes'
  <2>1. Load \in Request
    BY DEF Load, Request
  <2>2. QED
    BY <1>1, <1>2, <2>1 DEF MessageTypes
<1>5. LedgerCore'
  BY <1>1, <1>2, CoreFrame DEF LedgerCore
<1>6. Session(s)'
  <2>1. /\ pc'[s] = to /\ request'[s] = {Load} /\ response'[s] = {}
        /\ Within(last_observed_head'[s], head')
    BY Zenon, <1>1, <1>2 DEF LedgerTypeOK, MessageTypes, Session, Idle
  <2>2. QED
    BY Zenon, <1>2, <2>1 DEF Session, Idle, Load
<1>7. \A t \in Service \ {s} : Session(t)'
  <2>1. OnlyTouches(s)
    BY <1>1, <1>2 DEF OnlyTouches, LedgerTypeOK, MessageTypes
  <2>2. QED
    BY <1>1, <1>2, <2>1, OthersKept
<1>8. QED
  BY <1>3, <1>4, <1>5, <1>6, <1>7 DEF LedgerInv, LedgerCore

\* What a service leaves on its way when it gives up is an exact mutation.
LEMMA OrphanedExact ==
    ASSUME LedgerInv, NEW s \in Service
    PROVE  /\ \A r \in Orphaned(s) : ExactMutation(r) /\ r \in Request
           /\ lock # s => Orphaned(s) = orphans
<1>1. /\ LedgerTypeOK /\ MessageTypes /\ LedgerCore /\ Session(s)
  BY InvParts
<1>2. ASSUME NEW r \in request[s], r # Load PROVE ExactMutation(r)
  <2>1. pc[s] = "await" /\ r = Advance(s) /\ head = state[s]
    BY SMTT(30), <1>1, <1>2 DEF Session, Idle, LedgerTypeOK
  <2>2. /\ disk = Written(s) /\ disk = cache /\ Fresh(state[s], candidate[s])
        /\ candidate[s] \in Block
    BY <1>1, <2>1 DEF Session, LedgerTypeOK, Block
  <2>3. QED
    BY Zenon, <2>1, <2>2 DEF ExactMutation, Advance, Written
<1>3. lock # s => request[s] = {}
  BY <1>1, LockHolder DEF Session
<1>4. QED
  BY <1>1, <1>2, <1>3 DEF Orphaned, LedgerCore, MessageTypes

\* A call that ends without touching file, head or records, and whatever it had
\* sent, keep the invariant.
LEMMA EndInv ==
    ASSUME LedgerInv, NEW s \in Service, NEW to \in Idle,
           pc' = [pc EXCEPT ![s] = to],
           lock' = IF lock = s THEN NoService ELSE lock,
           peer' \in [Service -> BOOLEAN],
           last_observed_head' \in [Service -> Seq(Block)],
           \A t \in Service \ {s} : last_observed_head'[t] = last_observed_head[t],
           Within(last_observed_head'[s], head),
           request' = [request EXCEPT ![s] = {}],
           response' = [response EXCEPT ![s] = {}],
           orphans' \in {orphans, Orphaned(s)},
           UNCHANGED <<cache, disk, head, state, candidate, granted>>
    PROVE  LedgerInv'
<1>1. /\ LedgerTypeOK /\ MessageTypes /\ LedgerCore
      /\ \A t \in Service : Session(t)
      /\ head \in Seq(Block) /\ Within(head, head)
  BY InvParts
<1>2. LedgerTypeOK'
  BY <1>1, LedgerAssumption DEF LedgerTypeOK, Idle
<1>3. \A r \in orphans' : ExactMutation(r) /\ r \in Request
  BY <1>1, OrphanedExact DEF LedgerCore, MessageTypes
<1>4. MessageTypes'
  BY <1>1, <1>3 DEF MessageTypes
<1>5. LedgerCore'
  BY <1>1, <1>3, CoreFrame
<1>6. Session(s)'
  <2>1. pc'[s] = to /\ request'[s] = {} /\ response'[s] = {}
    BY <1>1 DEF LedgerTypeOK, MessageTypes
  <2>2. QED
    BY <2>1, IdleSession
<1>7. ASSUME NEW t \in Service \ {s} PROVE Session(t)'
  <2>1. /\ pc'[t] = pc[t] /\ last_observed_head'[t] = last_observed_head[t]
        /\ request'[t] = request[t] /\ response'[t] = response[t]
    BY <1>1 DEF LedgerTypeOK, MessageTypes
  <2>2. CASE pc[t] \in Idle
    BY <1>1, <2>1, <2>2, IdleFrame
  <2>3. CASE pc[t] \notin Idle
    <3>1. lock = t
      BY Zenon, <1>1, <2>3, LockHolder
    <3>2. orphans' = orphans
      BY <3>1, OrphanedExact
    <3>3. QED
      BY Zenon, <1>1, <2>1, <3>2, SessionFrame
  <2>4. QED
    BY <2>2, <2>3
<1>8. QED
  BY <1>2, <1>4, <1>5, <1>6, <1>7 DEF LedgerInv, LedgerCore

\* The second half of opening: the file is compared again and a load is sent, or
\* the open fails.
LEMMA ValidateInv ==
    ASSUME LedgerInv, NEW s \in Service, ValidateCurrentHead(s)
    PROVE  LedgerInv'
<1>1. /\ LedgerTypeOK /\ MessageTypes /\ Session(s)
  BY InvParts
<1>2. CASE FileUnchanged(s) /\ lock' = s /\ SendLoad(s)
           /\ pc' = [pc EXCEPT ![s] = "validate"]
  BY Zenon, <1>1, <1>2, SendLoadInv
  DEF ValidateCurrentHead, file, Idle, LedgerTypeOK
<1>3. CASE pc' = [pc EXCEPT ![s] = "closed"] /\ UNCHANGED <<lock, client>>
  <2>1. /\ UNCHANGED <<cache, disk, head, state, candidate, granted, lock>>
        /\ UNCHANGED <<peer, last_observed_head, request, response, orphans>>
        /\ pc[s] = "read"
    BY <1>3 DEF ValidateCurrentHead, file, client
  <2>2. /\ lock # s /\ request[s] = {} /\ response[s] = {}
        /\ Within(last_observed_head[s], head)
    BY Zenon, <1>1, <2>1, LedgerAssumption DEF LedgerTypeOK, Session, Idle
  <2>3. /\ request' = [request EXCEPT ![s] = {}]
        /\ response' = [response EXCEPT ![s] = {}]
        /\ peer' \in [Service -> BOOLEAN]
        /\ last_observed_head' \in [Service -> Seq(Block)]
    BY <1>1, <2>1, <2>2 DEF MessageTypes, LedgerTypeOK
  <2>4. QED
    BY Zenon, <1>3, <2>1, <2>2, <2>3, EndInv DEF Idle
<1>4. QED
  BY <1>2, <1>3 DEF ValidateCurrentHead

\* An append starts by comparing the file and loading the head.
LEMMA AppendInv ==
    ASSUME LedgerInv, NEW s \in Service, NEW c \in Candidate, AppendIfAbsent(s, c)
    PROVE  LedgerInv'
<1>1. LedgerTypeOK
  BY InvParts
<1>2. /\ candidate' \in [Service -> Candidate \cup {Header}]
      /\ candidate'[s] \in Candidate
  BY <1>1 DEF AppendIfAbsent, LedgerTypeOK
<1>3. QED
  BY Zenon, <1>2, SendLoadInv DEF AppendIfAbsent, file, Idle

\* Where a failed call ends.
LEMMA FailEnds ==
    ASSUME LedgerInv, NEW s \in Service, pc[s] \notin Idle, Fail(s)
    PROVE  /\ lock = s /\ lock' = NoService
           /\ \E to \in Idle : pc' = [pc EXCEPT ![s] = to]
BY Zenon, InvParts, LockHolder DEF Fail, Return, Idle

\* Giving up on an exchange leaves at most one exact mutation behind.
LEMMA ExchangeFailsInv ==
    ASSUME LedgerInv, NEW s \in Service, ExchangeFails(s)
    PROVE  LedgerInv'
<1>1. /\ LedgerTypeOK /\ MessageTypes /\ Session(s)
  BY InvParts
<1>2. /\ UNCHANGED <<cache, disk, head, state, candidate, last_observed_head, granted>>
      /\ request' = [request EXCEPT ![s] = {}]
      /\ response' = [response EXCEPT ![s] = {}]
      /\ orphans' = Orphaned(s)
      /\ peer' \in [Service -> BOOLEAN]
      /\ last_observed_head' \in [Service -> Seq(Block)]
      /\ Within(last_observed_head'[s], head)
  BY Zenon, <1>1 DEF ExchangeFails, Poison, file, LedgerTypeOK, MessageTypes, Session
<1>3. CASE Waiting(s) /\ Fail(s)
  <2>1. pc[s] \notin Idle
    BY <1>3 DEF Waiting, Idle
  <2>2. PICK to \in Idle : lock = s /\ lock' = NoService /\ pc' = [pc EXCEPT ![s] = to]
    BY <1>3, <2>1, FailEnds
  <2>3. QED
    BY Zenon, <1>2, <2>2, EndInv
<1>4. CASE pc[s] = "ready" /\ lock = NoService /\ UNCHANGED <<pc, lock>>
  <2>1. pc' = [pc EXCEPT ![s] = "ready"] /\ lock # s
    BY <1>1, <1>4, LedgerAssumption DEF LedgerTypeOK
  <2>2. QED
    BY Zenon, <1>2, <1>4, <2>1, EndInv DEF Idle
<1>5. QED
  BY <1>3, <1>4 DEF ExchangeFails, FileUnchanged

\* A refused exchange ends the call.
LEMMA RefusedInv ==
    ASSUME LedgerInv, NEW s \in Service, NEW a \in response[s], Refused(s, a)
    PROVE  LedgerInv'
<1>1. /\ LedgerTypeOK /\ MessageTypes /\ Session(s)
  BY InvParts
<1>2. request[s] = {} /\ Within(last_observed_head[s], head)
  BY SMTT(30), <1>1 DEF Session
<1>3. /\ UNCHANGED <<cache, disk, head, state, candidate, last_observed_head, granted,
                     orphans>>
      /\ request' = [request EXCEPT ![s] = {}]
      /\ response' = [response EXCEPT ![s] = {}]
      /\ peer' \in [Service -> BOOLEAN]
      /\ last_observed_head' \in [Service -> Seq(Block)]
      /\ Within(last_observed_head'[s], head)
  BY <1>1, <1>2 DEF Refused, Consume, file, LedgerTypeOK, MessageTypes
<1>4. pc[s] \notin Idle
  BY DEF Refused, Waiting, Idle
<1>5. PICK to \in Idle : lock = s /\ lock' = NoService /\ pc' = [pc EXCEPT ![s] = to]
  BY <1>4, FailEnds DEF Refused
<1>6. QED
  BY Zenon, <1>3, <1>5, EndInv

\* A crash of a service is the end of its call.
LEMMA CrashInv ==
    ASSUME LedgerInv, NEW s \in Service, ServiceCrash(s)
    PROVE  LedgerInv'
<1>1. /\ LedgerTypeOK /\ MessageTypes /\ Session(s)
  BY InvParts
<1>2. /\ UNCHANGED <<cache, disk, head, state, candidate, last_observed_head, granted>>
      /\ request' = [request EXCEPT ![s] = {}]
      /\ response' = [response EXCEPT ![s] = {}]
      /\ orphans' = Orphaned(s)
      /\ peer' \in [Service -> BOOLEAN]
      /\ last_observed_head' \in [Service -> Seq(Block)]
      /\ Within(last_observed_head'[s], head)
      /\ pc' = [pc EXCEPT ![s] = "closed"]
      /\ lock' = IF lock = s THEN NoService ELSE lock
  BY Zenon, <1>1 DEF ServiceCrash, Poison, file, LedgerTypeOK, MessageTypes, Session
<1>3. QED
  BY Zenon, <1>2, EndInv DEF Idle

\* A loaded head that equals the validated state is still the head, however late
\* the answer is, because the head only moves towards the file.
LEMMA LoadedCurrent ==
    ASSUME LedgerInv, NEW s \in Service, NEW a \in response[s],
           pc[s] \in {"validate", "load"}, a.status = "Loaded", a.head = state[s]
    PROVE  cache = state[s] /\ disk = state[s] /\ head = state[s] /\ state[s] # <<>>
<1>1. /\ LedgerTypeOK /\ MessageTypes /\ LedgerCore /\ Session(s)
      /\ head \in Seq(Block)
  BY InvParts
<1>2. cache = state[s] /\ state[s] # <<>> /\ Within(state[s], head)
  BY SMTT(30), <1>1 DEF Session
<1>3. ASSUME NEW b \in Block PROVE cache # Append(head, b)
  <2>1. Len(Append(head, b)) = Len(head) + 1 /\ Len(head) \in Nat
    BY <1>1, WithinAppend
  <2>2. Len(cache) <= Len(head)
    BY <1>2 DEF Within
  <2>3. QED
    BY <2>1, <2>2
<1>4. cache = head /\ disk \in {head, cache}
  BY <1>1, <1>3 DEF LedgerCore, GrantDurable
<1>5. QED
  BY <1>2, <1>4

\* After the load a call ends or is about to write on a file that is current.
LEMMA HeadLoadedInv ==
    ASSUME LedgerInv, NEW s \in Service, NEW a \in response[s], HeadLoaded(s, a)
    PROVE  LedgerInv'
<1>1. /\ LedgerTypeOK /\ MessageTypes /\ LedgerCore /\ Session(s)
      /\ head \in Seq(Block) /\ Within(head, head)
  BY InvParts
<1>2. /\ UNCHANGED <<cache, disk, head, state, candidate, granted, peer, orphans, request>>
      /\ response' = [response EXCEPT ![s] = {}]
      /\ last_observed_head' = [last_observed_head EXCEPT ![s] = a.head]
      /\ pc[s] \in {"validate", "load"} /\ a.status = "Loaded"
  BY DEF HeadLoaded, Observe, Consume, file
<1>3. request[s] = {} /\ Within(a.head, head) /\ a.head \in Seq(Block)
  BY SMTT(30), <1>1, <1>2 DEF Session, MessageTypes, Response
<1>4. /\ request' = [request EXCEPT ![s] = {}]
      /\ peer' \in [Service -> BOOLEAN]
      /\ last_observed_head' \in [Service -> Seq(Block)]
      /\ \A t \in Service \ {s} : last_observed_head'[t] = last_observed_head[t]
      /\ last_observed_head'[s] = a.head
  BY <1>1, <1>2, <1>3 DEF LedgerTypeOK, MessageTypes
<1>5. pc[s] \notin Idle /\ lock = s
  BY Zenon, <1>1, <1>2, LockHolder DEF Idle
<1>6. CASE Fail(s) \/ Return(s, "ready")
  <2>1. PICK to \in Idle : lock' = NoService /\ pc' = [pc EXCEPT ![s] = to]
    BY SMTT(30), <1>5, <1>6, FailEnds DEF Return, Idle
  <2>2. QED
    BY Zenon, <1>2, <1>3, <1>4, <1>5, <2>1, EndInv
<1>7. CASE /\ a.head = state[s] /\ pc[s] = "load"
           /\ ~Conflicts(state[s], candidate[s]) /\ Len(state[s]) <= MaxRecords
           /\ pc' = [pc EXCEPT ![s] = "write"]
           /\ UNCHANGED lock
  <2>1. cache = state[s] /\ disk = state[s] /\ head = state[s] /\ state[s] # <<>>
    BY SMTT(30), <1>2, <1>7, LoadedCurrent
  <2>2. LedgerTypeOK'
    BY <1>1, <1>2, <1>5, <1>7 DEF LedgerTypeOK, Idle
  <2>3. MessageTypes'
    BY <1>1, <1>2, <1>4 DEF MessageTypes
  <2>4. LedgerCore'
    BY Zenon, <1>1, <1>2, CoreFrame DEF LedgerCore
  <2>5. Session(s)'
    <3>1. pc'[s] = "write" /\ request'[s] = {} /\ response'[s] = {}
      BY Zenon, <1>1, <1>2, <1>3, <1>7 DEF LedgerTypeOK, MessageTypes
    <3>2. Fresh(state[s], candidate[s])
      <4>1. candidate[s] \in Candidate
        BY Zenon, <1>1, <1>7 DEF Session
      <4>2. QED
        BY Zenon, <1>7, <2>1, <4>1 DEF Fresh
    <3>3. Within(last_observed_head'[s], head')
      BY Zenon, <1>2, <1>3, <1>4
    <3>4. QED
      BY Zenon, <1>2, <2>1, <3>1, <3>2, <3>3 DEF Session, Idle
  <2>6. \A t \in Service \ {s} : Session(t)'
    <3>1. OnlyTouches(s)
      BY <1>1, <1>2, <1>4, <1>7 DEF OnlyTouches, LedgerTypeOK, MessageTypes
    <3>2. QED
      BY SMTT(30), <1>1, <1>2, <1>5, <3>1, OthersKept
  <2>7. QED
    BY Zenon, <2>2, <2>3, <2>4, <2>5, <2>6 DEF LedgerInv, LedgerCore
<1>8. QED
  BY <1>6, <1>7 DEF HeadLoaded

\* While a service writes or synchronizes, no mutation is on its way.
LEMMA WritingNoOrphans ==
    ASSUME LedgerInv, NEW s \in Service, pc[s] \in {"write", "sync"}
    PROVE  orphans = {}
<1>1. /\ LedgerTypeOK /\ LedgerCore /\ Session(s) /\ head \in Seq(Block)
  BY InvParts
<1>2. disk = head
  BY Zenon, <1>1 DEF Session
<1>3. ASSUME NEW r \in orphans PROVE FALSE
  <2>1. PICK b \in Block : disk = Append(head, b)
    BY SMTT(30), <1>1 DEF LedgerCore, ExactMutation
  <2>2. Len(Append(head, b)) = Len(head) + 1 /\ Len(head) \in Nat
    BY <1>1, WithinAppend
  <2>3. QED
    BY <1>2, <2>1, <2>2
<1>4. QED
  BY <1>3

\* A write adds one block, whole or torn, to a file that equals the head.
LEMMA WriteInv ==
    ASSUME LedgerInv, NEW s \in Service, Write(s)
    PROVE  LedgerInv'
<1>1. /\ LedgerTypeOK /\ MessageTypes /\ LedgerCore
      /\ \A t \in Service : Session(t)
      /\ head \in Seq(Block) /\ Within(head, head)
  BY InvParts
<1>2. /\ UNCHANGED <<disk, head, state, candidate, granted, peer, last_observed_head,
                     request, response, orphans>>
      /\ pc[s] = "write"
  BY DEF Write, client
<1>3. /\ cache = state[s] /\ disk = state[s] /\ head = state[s]
      /\ Fresh(state[s], candidate[s]) /\ request[s] = {} /\ response[s] = {}
      /\ Within(last_observed_head[s], head) /\ candidate[s] \in Block
  BY Zenon, <1>1, <1>2 DEF Session, LedgerTypeOK, Block
<1>4. lock = s /\ pc[s] \notin Idle
  BY <1>1, <1>2, LockHolder DEF Idle
<1>5. orphans = {}
  BY <1>2, WritingNoOrphans
<1>6. PICK to \in Idle \cup {"sync"} :
        /\ pc' = [pc EXCEPT ![s] = to]
        /\ lock' = IF to = "sync" THEN s ELSE NoService
        /\ to = "sync" => cache' = Append(cache, candidate[s])
        /\ cache' = cache \/ \E b \in Block : cache' = Append(cache, b)
  <2>1. Torn \in Block
    BY DEF Block
  <2>2. CASE Fail(s)
    <3>1. PICK to \in Idle : lock' = NoService /\ pc' = [pc EXCEPT ![s] = to]
      BY <1>4, <2>2, FailEnds
    <3>2. cache' = cache \/ \E b \in Block : cache' = Append(cache, b)
      BY <1>3, <2>1 DEF Write
    <3>3. to # "sync"
      BY DEF Idle
    <3>4. QED
      BY Zenon, <3>1, <3>2, <3>3
  <2>3. CASE /\ cache' = Append(cache, candidate[s])
             /\ pc' = [pc EXCEPT ![s] = "sync"] /\ UNCHANGED lock
    BY Zenon, <1>3, <1>4, <2>3
  <2>4. QED
    BY Zenon, <2>2, <2>3 DEF Write
<1>7. cache' \in Seq(Block)
  BY ZenonT(40), <1>1, <1>3, <1>6, WithinAppend
<1>8. LedgerTypeOK'
  BY <1>1, <1>2, <1>4, <1>6, <1>7, LedgerAssumption DEF LedgerTypeOK, Idle
<1>9. MessageTypes'
  BY <1>1, <1>2 DEF MessageTypes
<1>10. LedgerCore'
  <2>1. GrantDurable'
    BY Zenon, <1>1, <1>2, <1>3, <1>6 DEF LedgerCore, GrantDurable
  <2>2. GrantedOnce' /\ (head = <<>> \/ Validated(head))'
    BY <1>1, <1>2 DEF LedgerCore, GrantedOnce, Validated
  <2>3. QED
    BY <1>2, <1>5, <2>1, <2>2 DEF LedgerCore
<1>11. Session(s)'
  <2>1. /\ pc'[s] = to /\ request'[s] = {} /\ response'[s] = {}
        /\ Within(last_observed_head'[s], head')
    BY Zenon, <1>1, <1>2, <1>3, <1>6 DEF LedgerTypeOK
  <2>2. CASE to \in Idle
    BY Zenon, <2>1, <2>2, IdleSession
  <2>3. CASE to = "sync"
    BY Zenon, <1>2, <1>3, <1>6, <2>1, <2>3 DEF Session, Idle, Written
  <2>4. QED
    BY <2>2, <2>3
<1>12. \A t \in Service \ {s} : Session(t)'
  <2>1. OnlyTouches(s)
    BY Zenon, <1>1, <1>2, <1>6 DEF OnlyTouches, LedgerTypeOK
  <2>2. QED
    BY <1>1, <1>2, <1>4, <2>1, OthersKept
<1>13. QED
  BY <1>8, <1>9, <1>10, <1>11, <1>12 DEF LedgerInv, LedgerCore


\* Synchronizing makes the written block durable, or the call fails.
LEMMA SynchronizeInv ==
    ASSUME LedgerInv, NEW s \in Service, Synchronize(s)
    PROVE  LedgerInv'
<1>1. /\ LedgerTypeOK /\ MessageTypes /\ LedgerCore /\ Session(s)
      /\ head \in Seq(Block) /\ Within(head, head)
  BY InvParts
<1>2. /\ UNCHANGED <<cache, head, state, candidate, granted, peer, last_observed_head,
                     request, response, orphans>>
      /\ pc[s] = "sync"
  BY DEF Synchronize, client
<1>3. /\ cache = Written(s) /\ disk = state[s] /\ head = state[s]
      /\ Fresh(state[s], candidate[s]) /\ request[s] = {} /\ response[s] = {}
      /\ Within(last_observed_head[s], head)
  BY Zenon, <1>1, <1>2 DEF Session, Idle
<1>4. lock = s /\ pc[s] \notin Idle /\ orphans = {}
  BY <1>1, <1>2, LockHolder, WritingNoOrphans DEF Idle
<1>5. CASE Fail(s) /\ UNCHANGED disk
  <2>1. PICK to \in Idle : lock' = NoService /\ pc' = [pc EXCEPT ![s] = to]
    BY <1>4, <1>5, FailEnds
  <2>2. /\ request' = [request EXCEPT ![s] = {}]
        /\ response' = [response EXCEPT ![s] = {}]
        /\ peer' \in [Service -> BOOLEAN]
        /\ last_observed_head' \in [Service -> Seq(Block)]
    BY <1>1, <1>2, <1>3 DEF LedgerTypeOK, MessageTypes
  <2>3. QED
    BY Zenon, <1>2, <1>3, <1>4, <1>5, <2>1, <2>2, EndInv
<1>6. CASE disk' = cache /\ pc' = [pc EXCEPT ![s] = "swap"] /\ UNCHANGED lock
  <2>1. LedgerTypeOK'
    BY <1>1, <1>2, <1>4, <1>6 DEF LedgerTypeOK, Idle
  <2>2. MessageTypes'
    BY <1>1, <1>2 DEF MessageTypes
  <2>3. LedgerCore'
    <3>1. GrantDurable'
      BY <1>1, <1>2, <1>6 DEF LedgerCore, GrantDurable
    <3>2. GrantedOnce' /\ (head = <<>> \/ Validated(head))'
      BY <1>1, <1>2 DEF LedgerCore, GrantedOnce, Validated
    <3>3. QED
      BY <1>2, <1>4, <3>1, <3>2 DEF LedgerCore
  <2>4. Session(s)'
    <3>1. pc'[s] = "swap"
      BY <1>1, <1>6 DEF LedgerTypeOK
    <3>2. QED
      BY Zenon, <1>2, <1>3, <1>4, <1>6, <3>1 DEF Session, Idle, Written
  <2>5. \A t \in Service \ {s} : Session(t)'
    <3>1. OnlyTouches(s)
      BY SMTT(30), <1>1, <1>2, <1>6 DEF OnlyTouches, LedgerTypeOK
    <3>2. QED
      BY <1>1, <1>2, <1>4, <3>1, OthersKept
  <2>6. QED
    BY <2>1, <2>2, <2>3, <2>4, <2>5 DEF LedgerInv, LedgerCore
<1>7. QED
  BY <1>5, <1>6 DEF Synchronize

\* The head exchange is sent while the head is still what was validated.
LEMMA SendAdvanceInv ==
    ASSUME LedgerInv, NEW s \in Service, SendAdvance(s)
    PROVE  LedgerInv'
<1>1. /\ LedgerTypeOK /\ MessageTypes /\ LedgerCore /\ Session(s)
      /\ head \in Seq(Block) /\ Within(head, head)
  BY InvParts
<1>2. /\ UNCHANGED <<cache, disk, head, state, candidate, granted, last_observed_head>>
      /\ pc[s] = "swap"
  BY DEF SendAdvance, file, client
<1>3. /\ cache = Written(s) /\ disk = cache /\ head = state[s] /\ orphans = {}
      /\ Fresh(state[s], candidate[s]) /\ request[s] = {} /\ response[s] = {}
      /\ Within(last_observed_head[s], head)
  BY Zenon, <1>1, <1>2 DEF Session, Idle
<1>4. lock = s /\ pc[s] \notin Idle
  BY <1>1, <1>2, LockHolder DEF Idle
<1>5. CASE Fail(s) /\ (UNCHANGED client \/ Poison(s))
  <2>1. PICK to \in Idle : lock' = NoService /\ pc' = [pc EXCEPT ![s] = to]
    BY <1>4, <1>5, FailEnds
  <2>2. /\ request' = [request EXCEPT ![s] = {}]
        /\ response' = [response EXCEPT ![s] = {}]
        /\ peer' \in [Service -> BOOLEAN]
        /\ last_observed_head' \in [Service -> Seq(Block)]
        /\ orphans' \in {orphans, Orphaned(s)}
    <3>1. CASE UNCHANGED client
      BY <1>1, <1>2, <1>3, <3>1 DEF LedgerTypeOK, MessageTypes, client
    <3>2. CASE Poison(s)
      BY <1>1, <1>2, <1>3, <3>2 DEF LedgerTypeOK, MessageTypes, Poison
    <3>3. QED
      BY <1>5, <3>1, <3>2
  <2>3. QED
    BY Zenon, <1>2, <1>3, <1>4, <2>1, <2>2, EndInv
<1>6. CASE /\ request' = [request EXCEPT ![s] = {Advance(s)}]
           /\ pc' = [pc EXCEPT ![s] = "await"]
           /\ UNCHANGED <<lock, peer, last_observed_head, response, orphans>>
  <2>1. LedgerTypeOK'
    BY <1>1, <1>2, <1>4, <1>6 DEF LedgerTypeOK, Idle
  <2>2. MessageTypes'
    <3>1. Advance(s) \in Request
      BY SMTT(30), <1>1, <1>3 DEF Advance, Request, Written, LedgerTypeOK
    <3>2. QED
      BY <1>1, <1>6, <3>1 DEF MessageTypes
  <2>3. LedgerCore'
    BY Zenon, <1>1, <1>2, <1>3, <1>6, CoreFrame
  <2>4. Session(s)'
    <3>1. /\ pc'[s] = "await" /\ request'[s] = {Advance(s)} /\ response'[s] = {}
      BY <1>1, <1>3, <1>6 DEF LedgerTypeOK, MessageTypes
    <3>2. Advance(s)' = Advance(s) /\ Written(s)' = Written(s)
      BY Zenon, <1>2 DEF Advance, Written
    <3>3. Fresh(state[s], candidate[s])'
      BY Zenon, <1>2, <1>3
    <3>4. QED
      BY Zenon, <1>2, <1>3, <1>6, <3>1, <3>2, <3>3 DEF Session, Idle
  <2>5. \A t \in Service \ {s} : Session(t)'
    <3>1. OnlyTouches(s)
      BY <1>1, <1>2, <1>6 DEF OnlyTouches, LedgerTypeOK, MessageTypes
    <3>2. QED
      BY <1>1, <1>2, <1>4, <3>1, OthersKept
  <2>6. QED
    BY <2>1, <2>2, <2>3, <2>4, <2>5 DEF LedgerInv, LedgerCore
<1>7. QED
  BY <1>5, <1>6 DEF SendAdvance


\* The store answers a load or refuses: the head is where it was.
LEMMA AnsweredInv ==
    ASSUME LedgerInv, NEW s \in Service, NEW r \in request[s], NEW a \in Response,
           UNCHANGED <<cache, disk, head, lock, pc, state, candidate, peer,
                       last_observed_head, orphans, granted>>,
           request' = [request EXCEPT ![s] = {}],
           response' = [response EXCEPT ![s] = {a}],
           \/ a.status = "Rejected"
           \/ /\ pc[s] \in {"validate", "load"} /\ a.head = head
              /\ a.status = IF head = <<>> THEN "Absent" ELSE "Loaded"
    PROVE  LedgerInv'
<1>1. /\ LedgerTypeOK /\ MessageTypes /\ LedgerCore /\ Session(s)
      /\ \A t \in Service : Session(t)
      /\ head \in Seq(Block) /\ Within(head, head)
  BY SMTT(30), InvParts
<1>2. LedgerTypeOK'
  BY Zenon, <1>1 DEF LedgerTypeOK
<1>3. MessageTypes'
  BY Zenon, <1>1 DEF MessageTypes
<1>4. LedgerCore'
  BY SMTT(30), <1>1, CoreFrame DEF LedgerCore
<1>5. pc[s] \in {"validate", "load", "await"}
  BY Zenon, <1>1 DEF Session, LedgerTypeOK, Idle
<1>6. request'[s] = {} /\ response'[s] = {a}
  BY Zenon, <1>1 DEF MessageTypes
<1>7. Session(s)'
  <2>1. Advance(s)' = Advance(s) /\ Written(s)' = Written(s)
    BY DEF Advance, Written
  <2>2. CASE a.status = "Rejected"
    BY Zenon, <1>1, <1>5, <1>6, <2>1, <2>2 DEF Session, Idle
  <2>3. CASE /\ pc[s] \in {"validate", "load"} /\ a.head = head
             /\ a.status = IF head = <<>> THEN "Absent" ELSE "Loaded"
    BY ZenonT(40), <1>1, <1>5, <1>6, <2>1, <2>3 DEF Session, Idle
  <2>4. QED
    BY <2>2, <2>3
<1>8. \A t \in Service \ {s} : Session(t)'
  <2>1. OnlyTouches(s)
    BY Zenon, <1>1 DEF OnlyTouches, MessageTypes
  <2>2. lock = s
    BY <1>1, <1>5, LockHolder DEF Idle
  <2>3. QED
    BY Zenon, <1>1, <2>1, <2>2, OthersKept
<1>9. QED
  BY Zenon, <1>2, <1>3, <1>4, <1>7, <1>8 DEF LedgerInv, LedgerCore

\* The head reaches the end of a synchronized file, and no mutation is left.
LEMMA HeadMovesCore ==
    ASSUME LedgerInv, NEW b \in Block, Fresh(head, b), disk = cache,
           cache = Append(head, b), head' = cache,
           UNCHANGED <<cache, disk, granted>>, orphans' = {}
    PROVE  /\ LedgerCore' /\ head' \in Seq(Block) /\ Within(head, head')
           /\ cache # <<>>
<1>1. /\ LedgerTypeOK /\ LedgerCore /\ head \in Seq(Block)
  BY InvParts
<1>2. /\ Len(cache) = Len(head) + 1 /\ Len(head) \in Nat
      /\ \A i \in 1 .. Len(head) : cache[i] = head[i]
      /\ cache \in Seq(Block) /\ Within(head, cache) /\ cache # <<>>
  BY Zenon, <1>1, WithinAppend
<1>3. Validated(cache)
  BY <1>1, FreshValidated DEF LedgerCore
<1>4. GrantDurable'
  <2>1. ASSUME NEW i \in DOMAIN granted
        PROVE  \E j \in 2 .. Len(cache) : cache[j] = granted[i]
    <3>1. PICK j \in 2 .. Len(head) : head[j] = granted[i]
      BY <1>1 DEF LedgerCore, GrantDurable
    <3>2. j \in 2 .. Len(cache) /\ cache[j] = granted[i]
      BY <1>2, <3>1
    <3>3. QED
      BY <3>2
  <2>2. QED
    BY <2>1 DEF GrantDurable
<1>5. GrantedOnce' /\ Validated(head)'
  BY Zenon, <1>1, <1>3 DEF LedgerCore, GrantedOnce, Validated
<1>6. QED
  BY <1>2, <1>4, <1>5 DEF LedgerCore

\* The store handles what a waiting service has asked.
LEMMA StoreHandlesInv ==
    ASSUME LedgerInv, NEW s \in Service, NEW r \in request[s], StoreHandles(s, r)
    PROVE  LedgerInv'
<1>1. /\ LedgerTypeOK /\ MessageTypes /\ LedgerCore /\ Session(s)
      /\ head \in Seq(Block) /\ Within(head, head)
  BY InvParts
<1>2. /\ UNCHANGED <<cache, disk, lock, pc, state, candidate, peer,
                     last_observed_head, orphans, granted>>
      /\ request' = [request EXCEPT ![s] = {}]
  BY DEF StoreHandles, file
<1>3. /\ pc[s] \in {"validate", "load", "await"}
      /\ pc[s] \in {"validate", "load"} => r = Load
      /\ pc[s] = "await" => r = Advance(s) /\ head = state[s]
  BY Zenon, <1>1 DEF Session, LedgerTypeOK, Idle
<1>4. CASE /\ response' = [response EXCEPT ![s] = {Answer("Rejected", <<>>)}]
           /\ UNCHANGED head
  <2>1. Answer("Rejected", <<>>) \in Response /\ Answer("Rejected", <<>>).status = "Rejected"
    BY SMTT(30) DEF Answer, Response
  <2>2. QED
    BY Zenon, <1>2, <1>4, <2>1, AnsweredInv
<1>5. CASE /\ Apply(r) /\ response' = [response EXCEPT ![s] = {AnswerTo(r)}]
           /\ pc[s] \in {"validate", "load"}
  <2>1. /\ AnswerTo(r) \in Response /\ AnswerTo(r).head = head
        /\ AnswerTo(r).status = IF head = <<>> THEN "Absent" ELSE "Loaded"
    BY Zenon, <1>1, <1>3, <1>5 DEF AnswerTo, Answer, Response
  <2>2. UNCHANGED head
    BY SMTT(30), <1>3, <1>5 DEF Apply, Load
  <2>3. QED
    BY Zenon, <1>2, <1>5, <2>1, <2>2, AnsweredInv
<1>6. CASE /\ Apply(r) /\ response' = [response EXCEPT ![s] = {AnswerTo(r)}]
           /\ pc[s] = "await"
  <2>1. /\ cache = Written(s) /\ disk = cache /\ orphans = {} /\ head = state[s]
        /\ Fresh(head, candidate[s]) /\ candidate[s] \in Block
        /\ request[s] # {} /\ Within(last_observed_head[s], head)
        /\ last_observed_head[s] \in Seq(Block)
    BY Zenon, <1>1, <1>3, <1>6 DEF Session, LedgerTypeOK, Block, MessageTypes
  <2>2. head' = cache
    <3>1. r.current = head /\ r.next = cache
      BY SMTT(30), <1>3, <1>6, <2>1 DEF Advance, Written
    <3>2. QED
      BY <1>6, <3>1 DEF Apply
  <2>3. /\ LedgerCore' /\ head' \in Seq(Block) /\ Within(head, head') /\ cache # <<>>
    BY Zenon, <1>2, <2>1, <2>2, HeadMovesCore DEF Written
  <2>4. AnswerTo(r) = Answer("Advanced", cache)
    <3>1. r # Load
      BY SMTT(30), <1>3, <1>6, <2>1, <2>3 DEF Load, Advance, Written
    <3>2. r.current = head /\ r.next = cache
      BY SMTT(30), <1>3, <1>6, <2>1 DEF Advance, Written
    <3>3. QED
      BY <3>1, <3>2 DEF AnswerTo
  <2>5. LedgerTypeOK'
    BY <1>1, <1>2, <2>3 DEF LedgerTypeOK
  <2>6. MessageTypes'
    <3>1. Answer("Advanced", cache) \in Response
      BY <1>1 DEF Answer, Response, LedgerTypeOK
    <3>2. QED
      BY <1>1, <1>2, <1>6, <2>4, <3>1 DEF MessageTypes
  <2>7. Session(s)'
    <3>1. /\ pc'[s] = "await" /\ request'[s] = {}
          /\ response'[s] = {Answer("Advanced", cache)}
      BY <1>1, <1>2, <1>6, <2>4 DEF MessageTypes
    <3>2. Advance(s)' = Advance(s) /\ Written(s)' = Written(s)
      BY <1>2 DEF Advance, Written
    <3>3. Within(last_observed_head[s], head') /\ Within(head', head')
      BY Zenon, <2>1, <2>3, <1>1, WithinTrans, WithinRefl
    <3>4. \A i \in DOMAIN granted :
             \E j \in 2 .. Len(state[s]) : state[s][j] = granted[i]
      BY Zenon, <1>1, <2>1 DEF LedgerCore, GrantDurable
    <3>5. /\ Answer("Advanced", cache).status = "Advanced"
          /\ Answer("Advanced", cache).head = cache
      BY DEF Answer
    <3>6. Fresh(state[s], candidate[s])'
      BY <1>2, <2>1
    <3>7. /\ cache' = Written(s)' /\ disk' = cache' /\ orphans' = {}
          /\ head' = Written(s)' /\ cache = cache'
          /\ granted' = granted /\ state'[s] = state[s]
          /\ last_observed_head'[s] = last_observed_head[s]
      BY Zenon, <1>2, <2>1, <2>2, <3>2
    <3>8. \A a \in response'[s] : a.status = "Advanced" /\ a.head = cache
      BY <3>1, <3>5
    <3>9. \A a \in response'[s] : Within(last_observed_head'[s], a.head)
                                  /\ Within(a.head, head')
      BY <2>2, <3>3, <3>7, <3>8
    <3>10. \A i \in DOMAIN granted' :
             \E j \in 2 .. Len(state'[s]) : state'[s][j] = granted'[i]
      BY <3>4, <3>7
    <3>11. QED
      BY Zenon, <2>2, <3>1, <3>3, <3>6, <3>7, <3>8, <3>9, <3>10 DEF Session, Idle
  <2>8. \A t \in Service \ {s} : Session(t)'
    <3>1. OnlyTouches(s)
      BY <1>1, <1>2, <1>6 DEF OnlyTouches, MessageTypes
    <3>2. lock = s
      BY Zenon, <1>1, <1>6, LockHolder DEF Idle
    <3>3. QED
      BY <2>3, <3>1, <3>2, OthersKept
  <2>9. QED
    BY Zenon, <2>3, <2>5, <2>6, <2>7, <2>8 DEF LedgerInv, LedgerCore
<1>7. QED
  BY Zenon, <1>3, <1>4, <1>5, <1>6 DEF StoreHandles


\* A mutation that its sender has given up may still move the head, and then the
\* head is exactly the file.
LEMMA OrphanInv ==
    ASSUME LedgerInv, NEW r \in orphans, StoreHandlesOrphan(r)
    PROVE  LedgerInv'
<1>1. /\ LedgerTypeOK /\ MessageTypes /\ LedgerCore
      /\ \A t \in Service : Session(t)
      /\ head \in Seq(Block) /\ Within(head, head)
  BY InvParts
<1>2. /\ UNCHANGED <<cache, disk, lock, pc, state, candidate, peer,
                     last_observed_head, request, response, granted>>
      /\ orphans' = orphans \ {r}
  BY DEF StoreHandlesOrphan, file
<1>3. ExactMutation(r)
  BY <1>1 DEF LedgerCore
<1>4. orphans' = {}
  <2>1. ASSUME NEW q \in orphans PROVE q = r
    <3>1. q.current = r.current /\ q.next = r.next
      BY Zenon, <1>1, <1>3 DEF LedgerCore, ExactMutation
    <3>2. q \in Request /\ r \in Request
      BY <1>1 DEF MessageTypes
    <3>3. QED
      BY <3>1, <3>2 DEF Request
  <2>2. QED
    BY <1>2, <2>1
<1>5. LedgerCore' /\ head' \in Seq(Block) /\ Within(head, head')
  <2>1. CASE UNCHANGED head
    BY <1>1, <1>2, <1>4, <2>1, CoreFrame
  <2>2. CASE Apply(r)
    <3>1. PICK b \in Block : Fresh(head, b) /\ disk = Append(head, b)
      BY Zenon, <1>3 DEF ExactMutation
    <3>2. head' = cache /\ disk = cache
      BY Zenon, <1>3, <2>2 DEF Apply, ExactMutation
    <3>3. QED
      BY Zenon, <1>2, <1>4, <3>1, <3>2, HeadMovesCore
  <2>3. QED
    BY <2>1, <2>2 DEF StoreHandlesOrphan
<1>6. LedgerTypeOK'
  BY <1>1, <1>2, <1>5 DEF LedgerTypeOK
<1>7. MessageTypes'
  BY <1>1, <1>2, <1>4 DEF MessageTypes
<1>8. ASSUME NEW t \in Service PROVE Session(t)'
  <2>1. CASE pc[t] \in Idle
    BY <1>1, <1>2, <1>5, <2>1, IdleFrame
  <2>2. pc[t] \notin {"write", "sync", "swap", "await"}
    BY Zenon, <1>1, WritingNoOrphans DEF Session
  <2>3. CASE pc[t] \in {"validate", "load"}
    <3>1. Within(last_observed_head[t], head')
      BY Zenon, <1>1, <1>5, WithinTrans DEF Session, MessageTypes
    <3>2. ASSUME NEW a \in response[t], Within(a.head, head)
          PROVE  Within(a.head, head')
      BY <1>1, <1>5, <3>2, WithinTrans DEF MessageTypes, Response
    <3>3. QED
      BY Zenon, <1>1, <1>2, <2>3, <3>1, <3>2 DEF Session, Idle
  <2>4. QED
    BY <1>1, <2>1, <2>2, <2>3 DEF LedgerTypeOK, Idle
<1>9. QED
  BY <1>5, <1>6, <1>7, <1>8 DEF LedgerInv, LedgerCore

\* A record is reported as appended once its exchange is acknowledged.
LEMMA AdvancedInv ==
    ASSUME LedgerInv, NEW s \in Service, NEW a \in response[s], Advanced(s, a)
    PROVE  LedgerInv'
<1>1. /\ LedgerTypeOK /\ MessageTypes /\ LedgerCore /\ Session(s)
      /\ head \in Seq(Block) /\ Within(head, head)
  BY InvParts
<1>2. /\ UNCHANGED <<cache, disk, head, candidate, peer, request, orphans>>
      /\ response' = [response EXCEPT ![s] = {}]
      /\ last_observed_head' = [last_observed_head EXCEPT ![s] = a.head]
      /\ pc' = [pc EXCEPT ![s] = "ready"] /\ lock' = NoService
      /\ state' = [state EXCEPT ![s] = a.head]
      /\ granted' = IF candidate[s] = Header THEN granted
                    ELSE Append(granted, candidate[s])
      /\ pc[s] = "await" /\ a.status = "Advanced"
  BY Zenon DEF Advanced, Observe, Consume, Return, file
<1>3. /\ a.head = Written(s) /\ head = Written(s) /\ orphans = {} /\ request[s] = {}
      /\ Fresh(state[s], candidate[s]) /\ candidate[s] \in Block
      /\ state[s] \in Seq(Block)
      /\ \A i \in DOMAIN granted :
            \E j \in 2 .. Len(state[s]) : state[s][j] = granted[i]
  BY Zenon, <1>1, <1>2 DEF Session, LedgerTypeOK, Block
<1>4. lock = s
  BY Zenon, <1>1, <1>2, LockHolder DEF Idle
<1>6. granted' \in Seq(Candidate)
  BY <1>1, <1>2 DEF LedgerTypeOK
<1>7. LedgerTypeOK'
  BY Zenon, <1>1, <1>2, <1>3, <1>4, <1>6, LedgerAssumption DEF LedgerTypeOK
<1>8. MessageTypes'
  BY Zenon, <1>1, <1>2, <1>3 DEF MessageTypes
<1>9. LedgerCore'
  <2>1. CASE candidate[s] = Header
    BY Zenon, <1>1, <1>2, <2>1, CoreFrame DEF LedgerCore
  <2>2. CASE candidate[s] # Header
    <3>1. /\ granted' = Append(granted, candidate[s]) /\ granted \in Seq(Candidate)
          /\ candidate[s] \in Candidate
      BY <1>1, <1>2, <2>2 DEF LedgerTypeOK
    <3>2. /\ DOMAIN granted = 1 .. Len(granted) /\ Len(granted) \in Nat
          /\ DOMAIN granted' = 1 .. (Len(granted) + 1)
          /\ granted'[Len(granted) + 1] = candidate[s]
          /\ \A i \in 1 .. Len(granted) : granted'[i] = granted[i]
      BY SMTT(30), <3>1, AppendFacts
    <3>3. /\ Len(head) = Len(state[s]) + 1 /\ Len(state[s]) \in Nat
          /\ head[Len(state[s]) + 1] = candidate[s]
          /\ \A i \in 1 .. Len(state[s]) : head[i] = state[s][i]
      BY Zenon, <1>3, WithinAppend DEF Written
    <3>4. /\ state[s] # <<>> /\ Len(state[s]) > 0
          /\ \A j \in 2 .. Len(state[s]) : Disjoint(state[s][j], candidate[s])
      BY SMTT(30), <1>3, <2>2, <3>3 DEF Fresh, Conflicts
    <3>5. GrantDurable'
      <4>1. ASSUME NEW i \in DOMAIN granted'
            PROVE  \E j \in 2 .. Len(head) : head[j] = granted'[i]
        <5>1. CASE i = Len(granted) + 1
          BY SMTT(30), <3>2, <3>3, <3>4, <5>1
        <5>2. CASE i \in DOMAIN granted
          BY Zenon, <1>1, <3>2, <5>2 DEF LedgerCore, GrantDurable
        <5>3. QED
          BY SMTT(30), <3>2, <5>1, <5>2
      <4>2. QED
        BY Zenon, <1>1, <1>2, <4>1 DEF LedgerCore, GrantDurable
    <3>6. ASSUME NEW i \in DOMAIN granted
          PROVE  Disjoint(granted[i], candidate[s]) /\ Disjoint(candidate[s], granted[i])
      <4>1. PICK j \in 2 .. Len(state[s]) : state[s][j] = granted[i]
        BY <1>3
      <4>2. QED
        BY Zenon, <3>4, <4>1, DisjointFacts
    <3>7. GrantedOnce'
      <4>1. ASSUME NEW i \in DOMAIN granted', NEW j \in DOMAIN granted', i # j
            PROVE  Disjoint(granted'[i], granted'[j])
        <5>1. CASE i = Len(granted) + 1
          BY <3>2, <3>6, <4>1, <5>1
        <5>2. CASE j = Len(granted) + 1
          BY <3>2, <3>6, <4>1, <5>2
        <5>3. CASE i \in DOMAIN granted /\ j \in DOMAIN granted
          BY <1>1, <3>2, <4>1, <5>3 DEF LedgerCore, GrantedOnce
        <5>4. QED
          BY <3>2, <5>1, <5>2, <5>3
      <4>2. QED
        BY <4>1 DEF GrantedOnce, Disjoint, Coordinates
    <3>8. (head = <<>> \/ Validated(head))'
      BY Zenon, <1>1, <1>2 DEF LedgerCore, Validated
    <3>9. QED
      BY Zenon, <1>2, <1>3, <3>5, <3>7, <3>8 DEF LedgerCore
  <2>3. QED
    BY Zenon, <2>1, <2>2
<1>10. Session(s)'
  <2>1. /\ pc'[s] = "ready" /\ request'[s] = {} /\ response'[s] = {}
        /\ last_observed_head'[s] = head
    BY Zenon, <1>1, <1>2, <1>3 DEF LedgerTypeOK, MessageTypes
  <2>2. QED
    BY Zenon, <1>1, <1>2, <2>1, IdleSession DEF Idle
<1>11. \A t \in Service \ {s} : Session(t)'
  <2>1. OnlyTouches(s)
    BY <1>1, <1>2 DEF OnlyTouches, LedgerTypeOK, MessageTypes
  <2>2. QED
    BY Zenon, <1>1, <1>2, <1>4, <2>1, OthersKept
<1>12. QED
  BY <1>7, <1>8, <1>9, <1>10, <1>11 DEF LedgerInv, LedgerCore


\* The host is lost: the file keeps what was synchronized and perhaps more, and
\* whatever was sent stays on its way.
LEMMA HostCrashInv ==
    ASSUME LedgerInv, HostCrash
    PROVE  LedgerInv'
<1>1. /\ LedgerTypeOK /\ MessageTypes /\ LedgerCore
      /\ \A t \in Service : Session(t)
      /\ head \in Seq(Block) /\ Within(head, head)
  BY InvParts
<1>2. /\ UNCHANGED <<head, state, candidate, last_observed_head, granted>>
      /\ cache' = disk' /\ lock' = NoService
      /\ pc' = [s \in Service |-> "closed"]
      /\ peer' = [s \in Service |-> FALSE]
      /\ request' = [s \in Service |-> {}]
      /\ response' = [s \in Service |-> {}]
      /\ orphans' = UNION {Orphaned(s) : s \in Service}
      /\ \/ disk' = disk \/ disk' = cache
         \/ cache # disk /\ disk' = Append(disk, Torn)
  BY DEF HostCrash
<1>3. \A r \in orphans' : ExactMutation(r) /\ r \in Request
  BY <1>2, OrphanedExact
<1>4. Torn \in Block
  BY DEF Block
<1>5. /\ disk' = head \/ \E b \in Block : disk' = Append(head, b)
      /\ disk' \in Seq(Block)
  <2>1. disk \in {head, cache} /\ (cache = head \/ \E b \in Block : cache = Append(head, b))
    BY <1>1 DEF LedgerCore, GrantDurable
  <2>2. disk \in Seq(Block) /\ cache \in Seq(Block) /\ Append(disk, Torn) \in Seq(Block)
    BY Zenon, <1>1, <1>4, WithinAppend DEF LedgerTypeOK
  <2>3. QED
    BY Zenon, <1>2, <1>4, <2>1, <2>2
<1>6. LedgerTypeOK'
  BY <1>1, <1>2, <1>5, LedgerAssumption DEF LedgerTypeOK
<1>7. MessageTypes'
  BY <1>1, <1>2, <1>3 DEF MessageTypes
<1>8. LedgerCore'
  <2>1. GrantDurable'
    BY Zenon, <1>1, <1>2, <1>5 DEF LedgerCore, GrantDurable
  <2>2. GrantedOnce' /\ (head = <<>> \/ Validated(head))'
    BY <1>1, <1>2 DEF LedgerCore, GrantedOnce, Validated
  <2>3. ASSUME NEW r \in orphans' PROVE ExactMutation(r)'
    <3>1. ExactMutation(r)
      BY <1>3
    <3>2. disk' = disk /\ cache' = cache
      BY <1>2, <3>1 DEF ExactMutation
    <3>3. QED
      BY Zenon, <1>2, <3>1, <3>2 DEF ExactMutation
  <2>4. QED
    BY <2>1, <2>2, <2>3 DEF LedgerCore
<1>9. ASSUME NEW t \in Service PROVE Session(t)'
  BY Zenon, <1>1, <1>2, IdleSession DEF Session, Idle
<1>10. QED
  BY <1>6, <1>7, <1>8, <1>9 DEF LedgerInv, LedgerCore

\* Every step, and every stuttering step, keeps the invariant.
LEMMA NextInv == LedgerInv /\ [LedgerNext]_ledgerVars => LedgerInv'
<1> SUFFICES ASSUME LedgerInv, [LedgerNext]_ledgerVars PROVE LedgerInv'
  OBVIOUS
<1>1. ASSUME NEW s \in Service, LedgerStep(s) PROVE LedgerInv'
  BY Zenon, <1>1, ProvisionInv, OpenInv, ValidateInv, AppendInv, RefusedInv, HeadLoadedInv,
     AdvancedInv, WriteInv, SynchronizeInv, SendAdvanceInv, ExchangeFailsInv, CrashInv
  DEF LedgerStep
<1>2. ASSUME NEW s \in Service, NEW r \in request[s], StoreHandles(s, r)
      PROVE  LedgerInv'
  BY <1>2, StoreHandlesInv
<1>3. ASSUME NEW r \in orphans, StoreHandlesOrphan(r) PROVE LedgerInv'
  BY <1>3, OrphanInv
<1>4. CASE HostCrash
  BY <1>4, HostCrashInv
<1>5. CASE UNCHANGED ledgerVars
  <2>1. UNCHANGED <<cache, disk, head, lock, pc, state, candidate, granted, peer,
                    last_observed_head, request, response, orphans>>
    BY <1>5 DEF ledgerVars, file, client
  <2>2. /\ LedgerTypeOK /\ MessageTypes /\ LedgerCore
        /\ \A t \in Service : Session(t)
    BY InvParts
  <2>3. LedgerTypeOK'
    BY <2>1, <2>2 DEF LedgerTypeOK
  <2>4. MessageTypes'
    BY <2>1, <2>2 DEF MessageTypes
  <2>5. LedgerCore'
    BY <2>1, <2>2, CoreFrame DEF LedgerCore
  <2>6. ASSUME NEW t \in Service PROVE Session(t)'
    <3>1. Session(t)
      BY <2>2
    <3>2. QED
      BY Zenon, <2>1, <3>1 DEF Session, Written, Advance
  <2>7. QED
    BY <2>3, <2>4, <2>5, <2>6 DEF LedgerInv, LedgerCore
<1>6. QED
  BY <1>1, <1>2, <1>3, <1>4, <1>5 DEF LedgerNext

-----------------------------------------------------------------------------
(* The results *)

\* The invariant holds in every reachable state, for any number of services,
\* records and crashes.
THEOREM LedgerInvariant == LedgerSpec => []LedgerInv
  BY InitInv, NextInv, PTL DEF LedgerSpec

\* Every variable has its type, and the lock belongs to the service that is
\* inside append_if_absent, provision or validate_current_head.
THEOREM LedgerType == LedgerSpec => []LedgerTypeOK
<1>1. LedgerInv => LedgerTypeOK
  BY DEF LedgerInv
<1>2. QED
  BY <1>1, LedgerInvariant, PTL

\* append_if_absent returns Ok(true) at most once for every coordinate.
THEOREM LedgerGrantedOnce == LedgerSpec => []GrantedOnce
<1>1. LedgerInv => GrantedOnce
  BY DEF LedgerInv
<1>2. QED
  BY <1>1, LedgerInvariant, PTL

\* The head is never ahead of the synchronized file, and what append_if_absent
\* has reported is below the head.
THEOREM LedgerGrantDurable == LedgerSpec => []GrantDurable
<1>1. LedgerInv => GrantDurable
  BY DEF LedgerInv
<1>2. QED
  BY <1>1, LedgerInvariant, PTL

\* When pwrite_all runs, file and head are what the call has validated, and no
\* head exchange ever conflicts.
THEOREM LedgerCheckStillCurrent == LedgerSpec => []CheckStillCurrent
<1>1. ASSUME LedgerInv PROVE CheckStillCurrent
  <2>1. ASSUME NEW s \in Service
        PROVE  /\ pc[s] = "write" => cache = state[s] /\ disk = state[s] /\ head = state[s]
               /\ \A a \in response[s] : a.status # "Conflict"
    BY Zenon, <1>1, InvParts DEF Session, LedgerTypeOK, Idle
  <2>2. QED
    BY Zenon, <2>1 DEF CheckStillCurrent
<1>2. QED
  BY <1>1, LedgerInvariant, PTL

\* observe_loaded_head never rejects what an honest store answers.
THEOREM LedgerNoFalseRollback == LedgerSpec => []NoFalseRollback
<1>1. ASSUME LedgerInv PROVE NoFalseRollback
  <2>1. ASSUME NEW s \in Service, NEW a \in response[s],
               a.status \in {"Loaded", "Absent", "Advanced"}
        PROVE  ~Regressed(s, a.head)
    <3>1. /\ Within(last_observed_head[s], a.head)
          /\ last_observed_head[s] \in Seq(Block) /\ a.head \in Seq(Block)
      BY SMTT(30), <1>1, <2>1, InvParts DEF Session, MessageTypes, Response
    <3>2. QED
      BY Zenon, <3>1, WithinNotRegressed
  <2>2. QED
    BY Zenon, <2>1 DEF NoFalseRollback
<1>2. QED
  BY <1>1, LedgerInvariant, PTL


\* Above a stranded tail nobody writes, and nobody waits for an exchange that
\* could succeed.
LEMMA StrandedFacts ==
    ASSUME LedgerInv, Stranded
    PROVE  /\ cache = disk /\ orphans = {}
           /\ \A s \in Service :
                 /\ pc[s] \notin {"write", "sync", "swap"}
                 /\ request[s] \subseteq {Load} /\ Orphaned(s) = {}
                 /\ \A a \in response[s] : a.status # "Advanced"
<1>1. /\ LedgerTypeOK /\ MessageTypes /\ LedgerCore
      /\ \A t \in Service : Session(t)
      /\ head \in Seq(Block)
  BY InvParts
<1>2. Len(head) < Len(disk) /\ Len(head) \in Nat /\ Len(disk) \in Nat
  BY <1>1, LenProperties DEF Stranded, LedgerTypeOK
<1>3. disk # head
  BY <1>2
<1>4. cache = disk
  BY <1>1, <1>3 DEF LedgerCore, GrantDurable
<1>5. ASSUME NEW s \in Service, NEW a \in response[s] PROVE a.status # "Advanced"
  <2>1. a.status = "Advanced" => pc[s] = "await"
    BY Zenon, <1>1, <1>5 DEF Session, LedgerTypeOK, Idle
  <2>2. QED
    BY SMTT(30), <1>1, <1>3, <1>4, <1>5, <2>1 DEF Session
<1>6. QED
  BY SMTT(30), <1>1, <1>3, <1>4, <1>5 DEF Session, Stranded, Orphaned

\* No step adopts, truncates or overtakes a stranded tail.
LEMMA StrandedStep ==
    ASSUME LedgerInv, Stranded, LedgerNext
    PROVE  Stranded' /\ granted' = granted
<1>1. /\ cache = disk /\ orphans = {}
      /\ \A s \in Service :
            /\ pc[s] \notin {"write", "sync", "swap"}
            /\ request[s] \subseteq {Load} /\ Orphaned(s) = {}
            /\ \A a \in response[s] : a.status # "Advanced"
  BY Zenon, StrandedFacts
<1>2. Len(head) < Len(disk) /\ LedgerTypeOK /\ MessageTypes
  BY InvParts DEF Stranded
<1>3. SUFFICES /\ UNCHANGED <<disk, head, granted>> /\ orphans' = {}
               /\ \A s \in Service : request'[s] \subseteq {Load} /\ pc'[s] # "swap"
  BY <1>2 DEF Stranded
<1>4. ASSUME NEW s \in Service, LedgerStep(s)
      PROVE  /\ UNCHANGED <<disk, head, granted>> /\ orphans' = {}
             /\ \A t \in Service : request'[t] \subseteq {Load} /\ pc'[t] # "swap"
  <2>1. CASE Provision(s)
    BY Zenon, <1>1, <1>2, <2>1 DEF Provision, NewClient, file, LedgerTypeOK
  <2>2. CASE OpenExisting(s)
    BY Zenon, <1>1, <1>2, <2>2 DEF OpenExisting, NewClient, file, LedgerTypeOK
  <2>3. CASE ValidateCurrentHead(s)
    BY Zenon, <1>1, <1>2, <2>3
    DEF ValidateCurrentHead, SendLoad, file, client, LedgerTypeOK, MessageTypes
  <2>4. CASE \E c \in Candidate : AppendIfAbsent(s, c)
    BY SMTT(30), <1>1, <1>2, <2>4 DEF AppendIfAbsent, SendLoad, file, LedgerTypeOK, MessageTypes
  <2>5. CASE \E a \in response[s] : Refused(s, a)
    BY Zenon, <1>1, <1>2, <2>5 DEF Refused, Consume, Fail, Return, file, LedgerTypeOK
  <2>6. CASE \E a \in response[s] : HeadLoaded(s, a)
    BY Zenon, <1>1, <1>2, <2>6
    DEF HeadLoaded, Observe, Consume, Fail, Return, file, LedgerTypeOK
  <2>7. CASE \E a \in response[s] : Advanced(s, a)
    BY Zenon, <1>1, <2>7 DEF Advanced
  <2>8. CASE ExchangeFails(s)
    BY Zenon, <1>1, <1>2, <2>8
    DEF ExchangeFails, Poison, Fail, Return, file, LedgerTypeOK, MessageTypes
  <2>9. CASE ServiceCrash(s)
    BY <1>1, <1>2, <2>9 DEF ServiceCrash, Poison, file, LedgerTypeOK, MessageTypes
  <2>10. ~Write(s) /\ ~Synchronize(s) /\ ~SendAdvance(s)
    BY Zenon, <1>1 DEF Write, Synchronize, SendAdvance
  <2>11. QED
    BY Zenon, <1>4, <2>1, <2>2, <2>3, <2>4, <2>5, <2>6, <2>7, <2>8, <2>9, <2>10 DEF LedgerStep
<1>5. ASSUME NEW s \in Service, NEW r \in request[s], StoreHandles(s, r)
      PROVE  /\ UNCHANGED <<disk, head, granted>> /\ orphans' = {}
             /\ \A t \in Service : request'[t] \subseteq {Load} /\ pc'[t] # "swap"
  BY SMTT(30), <1>1, <1>2, <1>5 DEF StoreHandles, Apply, Load, file, MessageTypes
<1>6. CASE HostCrash
  BY Zenon, <1>1, <1>6 DEF HostCrash
<1>7. QED
  BY Zenon, <1>1, <1>4, <1>5, <1>6 DEF LedgerNext

\* A tail left above the head stays there, and nothing is appended any more.
THEOREM LedgerStranded == LedgerSpec => StrandedForever
<1>1. LedgerInv /\ [LedgerNext]_ledgerVars
        => [Stranded => Stranded' /\ granted' = granted]_ledgerVars
  BY StrandedStep
<1>2. QED
  BY <1>1, LedgerInvariant, PTL DEF LedgerSpec, StrandedForever


-----------------------------------------------------------------------------
(* The ledger implements the registry *)

Burned == {head[i] : i \in 2 .. Len(head)}
Admitted == {granted[i] : i \in DOMAIN granted}

\* Moving the head by one fresh block burns its record; the header burns none.
LEMMA HeadMovesBurn ==
    ASSUME LedgerInv, NEW b \in Block, Fresh(head, b), head' = Append(head, b),
           UNCHANGED granted
    PROVE  Registry!RegistryNext \/ UNCHANGED <<Burned, Admitted>>
<1>1. head \in Seq(Block) /\ (head = <<>> \/ Validated(head))
  BY InvParts DEF LedgerCore
<1>2. /\ Len(head') = Len(head) + 1 /\ Len(head) \in Nat
      /\ head'[Len(head) + 1] = b
      /\ \A i \in 1 .. Len(head) : head'[i] = head[i]
  BY Zenon, <1>1, WithinAppend
<1>3. UNCHANGED Admitted
  BY Zenon DEF Admitted
<1>4. CASE head = <<>>
  <2>1. Len(head) = 0
    BY <1>4
  <2>2. 2 .. Len(head) = {} /\ 2 .. Len(head') = {}
    BY <1>2, <2>1
  <2>3. QED
    BY Zenon, <1>3, <2>2 DEF Burned
<1>5. CASE head # <<>>
  <2>1. /\ b \in Candidate /\ Len(head) >= 1
        /\ \A i \in 2 .. Len(head) : Disjoint(head[i], b)
    BY <1>1, <1>2, <1>5 DEF Fresh, Conflicts, Validated
  <2>2. Burned' = Burned \cup {b}
    <3>1. 2 .. Len(head') = (2 .. Len(head)) \cup {Len(head) + 1}
      BY <1>2, <2>1
    <3>2. \A i \in 2 .. Len(head) : head'[i] = head[i]
      BY <1>2
    <3>3. QED
      BY <1>2, <3>1, <3>2 DEF Burned
  <2>3. \A d \in Burned : Disjoint(d, b)
    BY <2>1 DEF Burned
  <2>4. Registry!Burn(b)
    BY <1>3, <2>2, <2>3 DEF Registry!Burn, Burned, Admitted
  <2>5. QED
    BY <2>1, <2>4 DEF Registry!RegistryNext
<1>6. QED
  BY <1>4, <1>5

\* Reporting a record grants it, for the first time and after it was burned.
LEMMA AdvancedGrants ==
    ASSUME LedgerInv, NEW s \in Service, NEW a \in response[s], Advanced(s, a)
    PROVE  Registry!RegistryNext \/ UNCHANGED <<Burned, Admitted>>
<1>1. LedgerInv' /\ LedgerTypeOK
  BY AdvancedInv, InvParts
<1>2. /\ UNCHANGED head
      /\ granted' = IF candidate[s] = Header THEN granted
                    ELSE Append(granted, candidate[s])
  BY DEF Advanced
<1>3. UNCHANGED Burned
  BY <1>2 DEF Burned
<1>4. CASE candidate[s] = Header
  BY <1>2, <1>3, <1>4 DEF Admitted
<1>5. CASE candidate[s] # Header
  <2>1. /\ granted' = Append(granted, candidate[s]) /\ granted \in Seq(Candidate)
        /\ candidate[s] \in Candidate
    BY Zenon, <1>1, <1>2, <1>5 DEF LedgerTypeOK
  <2>2. /\ DOMAIN granted = 1 .. Len(granted) /\ Len(granted) \in Nat
        /\ DOMAIN granted' = 1 .. (Len(granted) + 1)
        /\ granted'[Len(granted) + 1] = candidate[s]
        /\ \A i \in 1 .. Len(granted) : granted'[i] = granted[i]
    BY SMTT(30), <2>1, AppendFacts
  <2>3. Admitted' = Admitted \cup {candidate[s]}
    <3>1. DOMAIN granted' = DOMAIN granted \cup {Len(granted) + 1}
      BY <2>2
    <3>2. QED
      BY <2>2, <3>1 DEF Admitted
  <2>4. candidate[s] \in Burned
    <3>1. \E j \in 2 .. Len(head') : head'[j] = granted'[Len(granted) + 1]
      BY SMTT(30), <1>1, <2>2 DEF LedgerInv, GrantDurable
    <3>2. QED
      BY SMTT(30), <1>2, <2>2, <3>1 DEF Burned
  <2>5. candidate[s] \notin Admitted
    <3>1. ASSUME NEW i \in DOMAIN granted PROVE granted[i] # candidate[s]
      <4>1. Disjoint(granted'[i], granted'[Len(granted) + 1])
        BY SMTT(30), <1>1, <2>2 DEF LedgerInv, GrantedOnce, Disjoint, Coordinates
      <4>2. QED
        BY <2>2, <4>1, DisjointFacts
    <3>2. QED
      BY <3>1 DEF Admitted
  <2>6. PICK c \in Candidate : c = candidate[s]
    BY <2>1
  <2>7. Registry!Grant(c)
    BY Zenon, <1>3, <2>3, <2>4, <2>5, <2>6 DEF Registry!Grant, Burned, Admitted
  <2>8. QED
    BY <2>7 DEF Registry!RegistryNext
<1>6. QED
  BY <1>4, <1>5

\* Every other step of a service leaves head and grants alone.
LEMMA StepStutters ==
    ASSUME NEW s \in Service, LedgerStep(s),
           \A a \in response[s] : ~Advanced(s, a)
    PROVE  UNCHANGED <<head, granted>>
<1>1. CASE \/ Provision(s) \/ OpenExisting(s) \/ ValidateCurrentHead(s)
           \/ \E c \in Candidate : AppendIfAbsent(s, c)
  BY Zenon, <1>1 DEF Provision, OpenExisting, ValidateCurrentHead, AppendIfAbsent
<1>2. CASE \/ \E a \in response[s] : Refused(s, a) \/ HeadLoaded(s, a)
           \/ Write(s) \/ Synchronize(s)
  BY Zenon, <1>2 DEF Refused, HeadLoaded, Write, Synchronize
<1>3. CASE SendAdvance(s) \/ ExchangeFails(s) \/ ServiceCrash(s)
  BY Zenon, <1>3 DEF SendAdvance, ExchangeFails, ServiceCrash
<1>4. QED
  BY Zenon, <1>1, <1>2, <1>3 DEF LedgerStep

\* Every step of the ledger is a step of the registry or stutters.
LEMMA RegistryStep ==
    ASSUME LedgerInv, [LedgerNext]_ledgerVars
    PROVE  [Registry!RegistryNext]_(Registry!registryVars)
<1> SUFFICES Registry!RegistryNext \/ UNCHANGED <<Burned, Admitted>>
  BY Zenon DEF Registry!registryVars, Burned, Admitted
<1>1. /\ LedgerTypeOK /\ MessageTypes /\ LedgerCore
      /\ \A t \in Service : Session(t)
  BY InvParts
<1>2. CASE UNCHANGED <<head, granted>>
  BY <1>2 DEF Burned, Admitted
<1>3. ASSUME NEW s \in Service, LedgerStep(s)
      PROVE  Registry!RegistryNext \/ UNCHANGED <<Burned, Admitted>>
  BY <1>2, <1>3, AdvancedGrants, StepStutters
<1>4. ASSUME NEW r, NEW s \in Service, r \in orphans \/ r \in request[s], Apply(r),
             UNCHANGED granted
      PROVE  Registry!RegistryNext \/ UNCHANGED <<Burned, Admitted>>
  <2>1. CASE r = Load
    BY Zenon, <1>2, <1>4, <2>1 DEF Apply, Load
  <2>2. CASE r # Load
    <3>1. ExactMutation(r)
      BY <1>4, <2>2, OrphanedExact DEF Orphaned
    <3>2. PICK b \in Block : Fresh(head, b) /\ disk = Append(head, b)
      BY Zenon, <3>1 DEF ExactMutation
    <3>3. head' = Append(head, b)
      BY <1>4, <3>1, <3>2 DEF Apply, ExactMutation
    <3>4. QED
      BY Zenon, <1>4, <3>2, <3>3, HeadMovesBurn
  <2>3. QED
    BY <2>1, <2>2
<1>5. ASSUME NEW s \in Service, NEW r \in request[s], StoreHandles(s, r)
      PROVE  Registry!RegistryNext \/ UNCHANGED <<Burned, Admitted>>
  BY <1>2, <1>4, <1>5 DEF StoreHandles
<1>6. ASSUME NEW r \in orphans, StoreHandlesOrphan(r)
      PROVE  Registry!RegistryNext \/ UNCHANGED <<Burned, Admitted>>
  <2>1. CASE UNCHANGED head
    BY <1>2, <1>6, <2>1 DEF StoreHandlesOrphan
  <2>2. CASE Apply(r)
    <3>1. ExactMutation(r)
      BY <1>1 DEF LedgerCore
    <3>2. PICK b \in Block : Fresh(head, b) /\ disk = Append(head, b)
      BY Zenon, <3>1 DEF ExactMutation
    <3>3. head' = Append(head, b) /\ UNCHANGED granted
      BY <1>6, <2>2, <3>1, <3>2 DEF Apply, ExactMutation, StoreHandlesOrphan
    <3>4. QED
      BY <3>2, <3>3, HeadMovesBurn
  <2>3. QED
    BY <1>6, <2>1, <2>2 DEF StoreHandlesOrphan
<1>7. CASE HostCrash
  BY <1>2, <1>7 DEF HostCrash
<1>8. CASE UNCHANGED ledgerVars
  BY <1>2, <1>8 DEF ledgerVars
<1>9. QED
  BY <1>3, <1>5, <1>6, <1>7, <1>8 DEF LedgerNext

\* With the head as the set of burned records and the reports as grants, the
\* ledger implements ChallengeRegistry: every challenge is burned before it is
\* granted and granted at most once.
THEOREM LedgerRegistry == LedgerSpec => RegistryRefined
<1>1. LedgerInit => Registry!RegistryInit
  <2>1. ASSUME LedgerInit PROVE head = <<>> /\ granted = <<>>
    BY <2>1 DEF LedgerInit
  <2>2. 2 .. Len(<<>>) = {} /\ DOMAIN <<>> = {}
    OBVIOUS
  <2>3. QED
    BY <2>1, <2>2 DEF Registry!RegistryInit
<1>2. LedgerInv /\ [LedgerNext]_ledgerVars
        => [Registry!RegistryNext]_(Registry!registryVars)
  BY RegistryStep
<1>3. QED
  BY <1>1, <1>2, LedgerInvariant, PTL DEF LedgerSpec, RegistryRefined, Registry!RegistrySpec
=============================================================================
