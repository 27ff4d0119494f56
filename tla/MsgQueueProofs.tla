--------------------------- MODULE MsgQueueProofs ---------------------------
(***************************************************************************)
(* What post, cancel and dispatch do to a well-formed queue and to the     *)
(* messages pending for one sender.  The proofs about the faces rest on    *)
(* these lemmas.                                                           *)
(***************************************************************************)
EXTENDS MsgQueue, TLAPS

\* The ring: counting on from the head, less than twice around.
LEMMA RingModulo ==
  \A n \in 0 .. 2 * QueueCap - 1 :
    n % QueueCap = IF n < QueueCap THEN n ELSE n - QueueCap
BY QueueAssumption, SMT

\* A queue made at the start is well formed and holds nothing.
LEMMA EmptyQueueWellFormed ==
  /\ WellFormed(EmptyQueue)
  /\ \A x \in Sender : Pending(EmptyQueue, x) = {}
<1>1. EmptyQueue \in Queues
  BY QueueAssumption DEF EmptyQueue, Queues, Slots
<1>2. \A s \in Slots : EmptyQueue.ring[s] = Empty
  BY DEF EmptyQueue
<1>3. InUse(EmptyQueue) = {}
  BY QueueAssumption DEF EmptyQueue, InUse, Slots
<1> QED
  BY <1>1, <1>2, <1>3, QueueAssumption DEF WellFormed, Pending, Empty

\* The message at the front is that of the head, which is in use.
LEMMA FrontOfQueue ==
  ASSUME NEW q, WellFormed(q), Front(q) # Empty
  PROVE  /\ q.len \in 1 .. QueueCap /\ q.head \in Slots
         /\ q.ring[q.head] = Front(q)
         /\ \A x : Front(q) = x => q.head \in Pending(q, x)
<1>1. q.len \in 0 .. QueueCap /\ q.head \in Slots
  BY DEF WellFormed, Queues
<1>2. q.len # 0 /\ q.ring[q.head] = Front(q)
  BY DEF Front
<1> QED
  BY <1>1, <1>2, QueueAssumption DEF Pending

\* A post fills an empty slot with a message of its sender.
LEMMA PostToQueue ==
  ASSUME NEW q, WellFormed(q), NEW who \in Sender, q.len < QueueCap
  PROVE  /\ WellFormed(Post(q, who))
         /\ Post(q, who).len = q.len + 1 /\ Post(q, who).head = q.head
         /\ NextSlot(q) \in Slots /\ q.ring[NextSlot(q)] = Empty
         /\ NextSlot(q) # NoSlot
         /\ Post(q, who).ring = [q.ring EXCEPT ![NextSlot(q)] = who]
         /\ \A x \in Sender :
              /\ NextSlot(q) \notin Pending(q, x)
              /\ Pending(Post(q, who), x) =
                   Pending(q, x) \cup (IF x = who THEN {NextSlot(q)} ELSE {})
<1> DEFINE n == NextSlot(q)
           p == Post(q, who)
<1>1. /\ q.ring \in [Slots -> Sender \cup {Empty, Cancelled}]
      /\ q.head \in 0 .. QueueCap - 1 /\ q.len \in 0 .. QueueCap - 1
      /\ q = [ring |-> q.ring, head |-> q.head, len |-> q.len]
  BY QueueAssumption DEF WellFormed, Queues, Slots
<1>2. n = IF q.head + q.len < QueueCap THEN q.head + q.len
          ELSE q.head + q.len - QueueCap
  BY <1>1, RingModulo, QueueAssumption DEF NextSlot
<1>3. n \in Slots /\ n \notin InUse(q) /\ n # NoSlot
  BY <1>1, <1>2, QueueAssumption DEF Slots, InUse, NoSlot
<1>4. q.ring[n] = Empty
  BY <1>3 DEF WellFormed
<1>5. /\ p.ring = [q.ring EXCEPT ![n] = who]
      /\ p.head = q.head /\ p.len = q.len + 1
      /\ p \in Queues
  <2>1. p = [ring |-> [q.ring EXCEPT ![n] = who], head |-> q.head, len |-> q.len + 1]
    BY <1>1 DEF Post
  <2>2. q.len + 1 \in 0 .. QueueCap
    BY <1>1, QueueAssumption
  <2> QED
    BY <1>1, <1>3, <2>1, <2>2 DEF Queues, Slots
<1>6. InUse(p) = InUse(q) \cup {n}
  <2> SUFFICES ASSUME NEW s \in Slots
               PROVE  s \in InUse(p) <=> s \in InUse(q) \/ s = n
    BY <1>3 DEF InUse
  <2> QED
    BY <1>1, <1>2, <1>5, QueueAssumption DEF InUse, Slots
<1>7. WellFormed(p)
  <2>1. who # Empty
    BY QueueAssumption DEF Empty
  <2>2. \A s \in Slots : p.ring[s] = IF s = n THEN who ELSE q.ring[s]
    BY <1>1, <1>5
  <2> QED
    BY <2>1, <2>2, <1>3, <1>4, <1>5, <1>6 DEF WellFormed
<1>8. ASSUME NEW x \in Sender
      PROVE  /\ n \notin Pending(q, x)
             /\ Pending(p, x) = Pending(q, x) \cup (IF x = who THEN {n} ELSE {})
  <2>1. x # Empty
    BY QueueAssumption DEF Empty
  <2>2. \A s \in Slots : p.ring[s] = IF s = n THEN who ELSE q.ring[s]
    BY <1>1, <1>5
  <2> QED
    BY <2>1, <2>2, <1>3, <1>4 DEF Pending
<1> QED
  BY <1>3, <1>4, <1>5, <1>7, <1>8

\* A dispatch empties the head and moves it on.
LEMMA PopOfQueue ==
  ASSUME NEW q, WellFormed(q), q.len # 0
  PROVE  /\ WellFormed(Pop(q))
         /\ Pop(q).len = q.len - 1
         /\ q.head \in Slots
         /\ Pop(q).head = (IF q.head + 1 < QueueCap THEN q.head + 1 ELSE 0)
         /\ Pop(q).ring = [q.ring EXCEPT ![q.head] = Empty]
         /\ \A x \in Sender : Pending(Pop(q), x) = Pending(q, x) \ {q.head}
<1> DEFINE p == Pop(q)
<1>1. /\ q.ring \in [Slots -> Sender \cup {Empty, Cancelled}]
      /\ q.head \in 0 .. QueueCap - 1 /\ q.len \in 1 .. QueueCap
      /\ q = [ring |-> q.ring, head |-> q.head, len |-> q.len]
  BY QueueAssumption DEF WellFormed, Queues, Slots
<1>2. (q.head + 1) % QueueCap = IF q.head + 1 < QueueCap THEN q.head + 1 ELSE 0
  BY <1>1, RingModulo, QueueAssumption
<1>3. /\ p.ring = [q.ring EXCEPT ![q.head] = Empty]
      /\ p.head = (IF q.head + 1 < QueueCap THEN q.head + 1 ELSE 0)
      /\ p.len = q.len - 1
      /\ p \in Queues
  <2>1. p = [ring |-> [q.ring EXCEPT ![q.head] = Empty],
             head |-> (q.head + 1) % QueueCap, len |-> q.len - 1]
    BY <1>1 DEF Pop
  <2>2. (q.head + 1) % QueueCap \in Slots /\ q.len - 1 \in 0 .. QueueCap
    BY <1>1, <1>2, QueueAssumption DEF Slots
  <2> QED
    BY <1>1, <1>2, <2>1, <2>2 DEF Queues, Slots
<1>4. InUse(p) = InUse(q) \ {q.head}
  <2> SUFFICES ASSUME NEW s \in Slots
               PROVE  s \in InUse(p) <=> s \in InUse(q) /\ s # q.head
    BY DEF InUse
  <2> QED
    BY <1>1, <1>3, QueueAssumption DEF InUse, Slots
<1>5. \A s \in Slots : p.ring[s] = IF s = q.head THEN Empty ELSE q.ring[s]
  BY <1>1, <1>3
<1>6. WellFormed(p)
  BY <1>3, <1>4, <1>5 DEF WellFormed
<1>7. ASSUME NEW x \in Sender
      PROVE  Pending(p, x) = Pending(q, x) \ {q.head}
  <2>1. x # Empty
    BY QueueAssumption DEF Empty
  <2> QED
    BY <2>1, <1>5 DEF Pending
<1> QED
  BY <1>1, <1>3, <1>6, <1>7 DEF Slots

\* A cancel takes the one message its slot holds, whoever it is for.
LEMMA CancelInQueue ==
  ASSUME NEW q, WellFormed(q), NEW slot \in Slots \cup {NoSlot}
  PROVE  /\ WellFormed(Cancel(q, slot))
         /\ Cancel(q, slot).len = q.len /\ Cancel(q, slot).head = q.head
         /\ \A s \in Slots :
              Cancel(q, slot).ring[s] =
                IF s = slot /\ q.ring[s] # Empty THEN Cancelled ELSE q.ring[s]
         /\ \A x \in Sender :
              Pending(Cancel(q, slot), x) = Pending(q, x) \ {slot}
<1> DEFINE p == Cancel(q, slot)
<1>1. /\ q.ring \in [Slots -> Sender \cup {Empty, Cancelled}]
      /\ q.head \in Slots /\ q.len \in 0 .. QueueCap
      /\ q = [ring |-> q.ring, head |-> q.head, len |-> q.len]
  BY QueueAssumption DEF WellFormed, Queues
<1>2. NoSlot \notin Slots
  BY QueueAssumption DEF NoSlot, Slots
<1>3. /\ p \in Queues /\ p.len = q.len /\ p.head = q.head
      /\ \A s \in Slots :
           p.ring[s] = IF s = slot /\ q.ring[s] # Empty THEN Cancelled ELSE q.ring[s]
  <2>1. CASE slot = NoSlot \/ q.ring[slot] = Empty
    BY <1>1, <1>2, <2>1 DEF Cancel, WellFormed
  <2>2. CASE ~(slot = NoSlot \/ q.ring[slot] = Empty)
    <3>1. p = [ring |-> [q.ring EXCEPT ![slot] = Cancelled],
               head |-> q.head, len |-> q.len]
      BY <1>1, <2>2 DEF Cancel
    <3> QED
      BY <1>1, <2>2, <3>1 DEF Queues
  <2> QED
    BY <2>1, <2>2
<1>4. Empty # Cancelled
  BY DEF Empty, Cancelled
<1>5. InUse(p) = InUse(q)
  BY <1>3 DEF InUse
<1>6. WellFormed(p)
  BY <1>3, <1>4, <1>5 DEF WellFormed
<1>7. ASSUME NEW x \in Sender
      PROVE  Pending(p, x) = Pending(q, x) \ {slot}
  <2>1. x # Empty /\ x # Cancelled
    BY QueueAssumption DEF Empty, Cancelled
  <2> QED
    BY <2>1, <1>3 DEF Pending
<1> QED
  BY <1>3, <1>6, <1>7

\* A post that succeeds has found room; one that is refused returns NULL.
LEMMA PostOutcome ==
  ASSUME NEW q, WellFormed(q), NEW ok \in PostOutcomes(q)
  PROVE  ok \in BOOLEAN /\ (ok => q.len < QueueCap)
<1>1. q.len \in 0 .. QueueCap
  BY DEF WellFormed, Queues
<1>2. CASE q.len + 1 < QueueCap
  <2>1. PostOutcomes(q) = {TRUE}
    BY <1>2 DEF PostOutcomes
  <2> QED
    BY <2>1, <1>1, <1>2, QueueAssumption
<1>3. CASE ~(q.len + 1 < QueueCap) /\ q.len < QueueCap
  <2>1. PostOutcomes(q) = BOOLEAN
    BY <1>3 DEF PostOutcomes
  <2> QED
    BY <2>1, <1>3
<1>4. CASE ~(q.len + 1 < QueueCap) /\ ~(q.len < QueueCap)
  <2>1. PostOutcomes(q) = {FALSE}
    BY <1>4 DEF PostOutcomes
  <2> QED
    BY <2>1, <1>1
<1> QED
  BY <1>2, <1>3, <1>4

\* What a handler that posts leaves, whether or not it was given a slot, and
\* the pointer it keeps.
LEMMA PostIfOnQueue ==
  ASSUME NEW q, WellFormed(q), NEW who \in Sender,
         NEW ok \in BOOLEAN, ok => q.len < QueueCap
  PROVE  /\ WellFormed(PostIf(q, ok, who))
         /\ PostIf(q, ok, who).head = q.head
         /\ PostedAt(q, ok) \in Slots \cup {NoSlot}
         /\ PostedAt(q, ok) = NoSlot <=> ~ok
         /\ \A s \in Slots :
              PostIf(q, ok, who).ring[s] = IF s = PostedAt(q, ok) THEN who ELSE q.ring[s]
         /\ \A x \in Sender :
              Pending(PostIf(q, ok, who), x) =
                Pending(q, x) \cup (IF ok /\ x = who THEN {PostedAt(q, ok)} ELSE {})
<1>0. NoSlot \notin Slots
  BY QueueAssumption DEF NoSlot, Slots
<1>1. CASE ok
  <2> DEFINE n == NextSlot(q)
             p == Post(q, who)
  <2>1. q.ring \in [Slots -> Sender \cup {Empty, Cancelled}]
    BY DEF WellFormed, Queues
  <2>2. PostIf(q, ok, who) = p /\ PostedAt(q, ok) = n
    BY <1>1 DEF PostIf, PostedAt
  <2>3. /\ WellFormed(p) /\ p.head = q.head /\ n \in Slots /\ n # NoSlot
        /\ p.ring = [q.ring EXCEPT ![n] = who]
    BY <1>1, PostToQueue
  <2>4. \A s \in Slots : p.ring[s] = IF s = n THEN who ELSE q.ring[s]
    BY <2>1, <2>3
  <2>5. ASSUME NEW x \in Sender
        PROVE  Pending(p, x) = Pending(q, x) \cup (IF ok /\ x = who THEN {n} ELSE {})
    <3>1. CASE x = who
      BY <1>1, <3>1, PostToQueue
    <3>2. CASE x # who
      BY <1>1, <3>2, PostToQueue
    <3> QED
      BY <3>1, <3>2
  <2> HIDE DEF n, p
  <2> QED
    BY <1>1, <2>2, <2>3, <2>4, <2>5
<1>2. CASE ~ok
  <2>1. PostIf(q, ok, who) = q /\ PostedAt(q, ok) = NoSlot
    BY <1>2 DEF PostIf, PostedAt
  <2> QED
    BY <1>0, <1>2, <2>1
<1> QED
  BY <1>1, <1>2

\* In a queue with room, the slot behind the head is free.
LEMMA BehindTheHead ==
  ASSUME NEW q, WellFormed(q), q.len < QueueCap,
         NEW s \in Slots, (s + 1) % QueueCap = q.head
  PROVE  q.ring[s] = Empty
<1>1. q.head \in 0 .. QueueCap - 1 /\ q.len \in 0 .. QueueCap - 1
      /\ s \in 0 .. QueueCap - 1
  BY QueueAssumption DEF WellFormed, Queues, Slots
<1>2. (s + 1) % QueueCap = IF s + 1 < QueueCap THEN s + 1 ELSE 0
  BY <1>1, RingModulo, QueueAssumption
<1>3. s \notin InUse(q)
  BY <1>1, <1>2, QueueAssumption DEF InUse
<1> QED
  BY <1>3 DEF WellFormed

\* The post of a sender that has no message in the queue.
LEMMA OnlyPost ==
  ASSUME NEW q, WellFormed(q), NEW who \in Sender, Pending(q, who) = {},
         NEW ok \in BOOLEAN, ok => q.len < QueueCap
  PROVE  \A x \in Sender : Pending(PostIf(q, ok, who), x) =
           IF x # who THEN Pending(q, x)
           ELSE IF ok THEN {PostedAt(q, ok)} ELSE {}
<1>1. \A x \in Sender : Pending(PostIf(q, ok, who), x) =
        Pending(q, x) \cup (IF ok /\ x = who THEN {PostedAt(q, ok)} ELSE {})
  BY PostIfOnQueue
<1> QED
  BY <1>1

\* A dispatch takes away the only message of its sender.
LEMMA OnlyPop ==
  ASSUME NEW q, WellFormed(q), Front(q) # Empty, NEW x \in Sender,
         NEW at, Pending(q, x) \subseteq {at}
  PROVE  /\ Front(q) = x => Pending(q, x) = {q.head}
         /\ Pending(Pop(q), x) = IF Front(q) = x THEN {} ELSE Pending(q, x)
<1>1. q.len # 0 /\ q.ring[q.head] = Front(q) /\ q.head \in Slots
  BY FrontOfQueue DEF Front
<1>2. Pending(Pop(q), x) = Pending(q, x) \ {q.head}
  BY <1>1, PopOfQueue
<1>3. q.head \in Pending(q, x) <=> Front(q) = x
  BY <1>1 DEF Pending
<1> QED
  BY <1>2, <1>3
=============================================================================
