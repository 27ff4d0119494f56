------------------------------ MODULE MsgQueue ------------------------------
(***************************************************************************)
(* The message queue of the ndn-lite core (ndn_msgqueue_post, _cancel and  *)
(* the dispatch loop of ndn_forwarder_process), as the faces use it.  The  *)
(* core is a submodule outside this repository: this module states what    *)
(* its callers rely on.  A post returns a pointer to the slot it filled,   *)
(* or NULL when the queue is full; a cancel neutralises whatever message   *)
(* the slot holds at that moment, so a pointer must not outlive its own.   *)
(***************************************************************************)
EXTENDS Integers, FiniteSets

CONSTANTS
  QueueCap,    \* slots of the queue
  Sender       \* who posts messages

ASSUME QueueAssumption ==
  /\ QueueCap \in Nat \ {0}
  /\ {"empty", "cancelled"} \cap Sender = {}

Slots     == 0 .. QueueCap - 1
NoSlot    == QueueCap              \* the NULL that a refused post returns
Empty     == "empty"
Cancelled == "cancelled"

Queues ==
  [ring : [Slots -> Sender \cup {Empty, Cancelled}],
   head : Slots, len : 0 .. QueueCap]

\* The slots between head and head + len, around the ring.
InUse(q) ==
  {s \in Slots : \/ q.head <= s /\ s < q.head + q.len
                \/ s + QueueCap < q.head + q.len}

\* A slot is empty exactly when it is not in use: a cancel leaves its slot to
\* the dispatch that comes to it, and only a dispatch gives a slot back.
WellFormed(q) ==
  /\ q \in Queues
  /\ \A s \in Slots : q.ring[s] # Empty <=> s \in InUse(q)

EmptyQueue == [ring |-> [s \in Slots |-> Empty], head |-> 0, len |-> 0]

\* The slot the next post fills.
NextSlot(q) == (q.head + q.len) % QueueCap

\* Whether a post succeeds.  With one slot left both answers are possible: the
\* slot of the message being dispatched may or may not be free already.
PostOutcomes(q) ==
  IF q.len + 1 < QueueCap THEN {TRUE}
  ELSE IF q.len < QueueCap THEN BOOLEAN ELSE {FALSE}

Post(q, who) ==
  [ring |-> [q.ring EXCEPT ![NextSlot(q)] = who],
   head |-> q.head, len |-> q.len + 1]

\* A post of `who' with the given outcome, and the pointer it returns.
PostIf(q, ok, who) == IF ok THEN Post(q, who) ELSE q
PostedAt(q, ok)    == IF ok THEN NextSlot(q) ELSE NoSlot

Front(q) == IF q.len = 0 THEN Empty ELSE q.ring[q.head]

Pop(q) ==
  [ring |-> [q.ring EXCEPT ![q.head] = Empty],
   head |-> (q.head + 1) % QueueCap, len |-> q.len - 1]

\* The cancel of a pointer that may be NULL.
Cancel(q, slot) ==
  IF slot = NoSlot \/ q.ring[slot] = Empty THEN q
  ELSE [ring |-> [q.ring EXCEPT ![slot] = Cancelled],
        head |-> q.head, len |-> q.len]

\* The slots that hold a message of `who'.
Pending(q, who) == {s \in Slots : q.ring[s] = who}
=============================================================================
