--------------------------- MODULE UdpFaceProofs ---------------------------
(***************************************************************************)
(* Proofs about the UDP faces of a process, for any number of faces, any   *)
(* capacity of the message queue and any size of the face table.           *)
(***************************************************************************)
EXTENDS UdpFace, MsgQueueProofs

\* The inductive invariant.  That process_event names the face's message says
\* nothing of what a down does in the middle of a receive: EventsOwned also
\* says where process_event points then, and TypeOK that the queue is well
\* formed, which makes that slot one no other face can own.
IInv == TypeOK /\ EventsOwned

-----------------------------------------------------------------------------
(* What the steps do to the queue. *)

\* The senders are not marks of the queue, and the application is no face.
LEMMA Senders ==
  /\ App \in Sender /\ App \notin Face
  /\ \A f \in Face : f \in Sender /\ f # App
  /\ \A x \in Sender : x # Empty /\ x # Cancelled
BY UdpAssumption, QueueAssumption DEF Empty, Cancelled

\* A message pending for a face is no message of another.
LEMMA OneOwner ==
  ASSUME NEW q, NEW x, NEW y, x # y
  PROVE  Pending(q, x) \cap Pending(q, y) = {}
BY DEF Pending

\* Outside its receive a face's process_event is its message or NULL; in its
\* receive it is a slot that no face has a message in.
LEMMA EventIsOwn ==
  ASSUME IInv, NEW f \in Face, running = {} \/ running = {f}
  PROVE  /\ event[f] \in Slots \cup {NoSlot}
         /\ \A g \in Face \ {f} : event[f] \notin Pending(queue, g)
<1>1. event[f] \in Slots \cup {NoSlot}
  BY DEF IInv, TypeOK
<1>2. NoSlot \notin Slots
  BY QueueAssumption DEF NoSlot, Slots
<1>3. CASE f \in running
  <2>1. queue.ring[event[f]] \in {Empty, App}
    BY <1>3 DEF IInv, EventsOwned
  <2> QED
    BY <1>1, <2>1, Senders DEF Pending
<1>4. CASE f \notin running /\ event[f] = NoSlot
  BY <1>1, <1>2, <1>4 DEF Pending
<1>5. CASE f \notin running /\ event[f] # NoSlot
  <2>1. Pending(queue, f) = {event[f]}
    BY <1>5 DEF IInv, EventsOwned
  <2> QED
    BY <1>1, <2>1, OneOwner
<1> QED
  BY <1>3, <1>4, <1>5

\* A face taken down leaves no message of its own, and every other's.
LEMMA TakeDownQueue ==
  ASSUME IInv, NEW f \in Face, running = {} \/ running = {f}
  PROVE  /\ WellFormed(Cancel(queue, event[f]))
         /\ \A g \in Face : Pending(Cancel(queue, event[f]), g) =
                              IF g = f THEN {} ELSE Pending(queue, g)
<1>1. event[f] \in Slots \cup {NoSlot} /\ WellFormed(queue)
  BY EventIsOwn DEF IInv, TypeOK
<1>2. /\ WellFormed(Cancel(queue, event[f]))
      /\ \A g \in Face : Pending(Cancel(queue, event[f]), g) =
                           Pending(queue, g) \ {event[f]}
  BY <1>1, CancelInQueue, Senders
<1>3. Pending(queue, f) \subseteq {event[f]}
  BY DEF IInv, EventsOwned
<1> QED
  BY <1>2, <1>3, EventIsOwn

\* A dispatch takes the front message, which is one face's or no face's.
LEMMA DispatchQueue ==
  ASSUME IInv, Front(queue) # Empty
  PROVE  /\ WellFormed(Pop(queue))
         /\ \A g \in Face : Pending(Pop(queue), g) =
                              IF Front(queue) = g THEN {} ELSE Pending(queue, g)
<1>1. WellFormed(queue)
  BY DEF IInv, TypeOK
<1>2. queue.len # 0 /\ queue.ring[queue.head] = Front(queue) /\ queue.head \in Slots
  BY <1>1, FrontOfQueue DEF Front
<1>3. \A g \in Face : Pending(Pop(queue), g) = Pending(queue, g) \ {queue.head}
  BY <1>1, <1>2, PopOfQueue, Senders
<1>4. ASSUME NEW g \in Face, Front(queue) = g
      PROVE  Pending(queue, g) \ {queue.head} = {}
  <2>1. queue.head \in Pending(queue, g)
    BY <1>2, <1>4 DEF Pending
  <2>2. \E s : Pending(queue, g) \subseteq {s}
    BY DEF IInv, EventsOwned
  <2> QED
    BY <2>1, <2>2
<1>5. ASSUME NEW g \in Face, Front(queue) # g
      PROVE  Pending(queue, g) \ {queue.head} = Pending(queue, g)
  BY <1>2, <1>5 DEF Pending
<1> QED
  BY <1>1, <1>2, <1>3, <1>4, <1>5, PopOfQueue

\* What a post by the application leaves to the faces.
LEMMA AppPostQueue ==
  ASSUME IInv, NEW ok \in PostOutcomes(queue)
  PROVE  /\ ok \in BOOLEAN
         /\ WellFormed(PostIf(queue, ok, App))
         /\ PostIf(queue, ok, App).head = queue.head
         /\ \A s \in Slots :
              PostIf(queue, ok, App).ring[s] \in {queue.ring[s], App}
         /\ \A g \in Face : Pending(PostIf(queue, ok, App), g) = Pending(queue, g)
<1>1. WellFormed(queue) /\ ok \in BOOLEAN /\ (ok => queue.len < QueueCap)
  BY PostOutcome DEF IInv, TypeOK
<1>2. \A s \in Slots :
        PostIf(queue, ok, App).ring[s] = queue.ring[s] \/ PostIf(queue, ok, App).ring[s] = App
  BY <1>1, PostIfOnQueue, Senders
<1>3. ASSUME NEW g \in Face
      PROVE  Pending(PostIf(queue, ok, App), g) = Pending(queue, g)
  <2>1. \A x \in Sender : Pending(PostIf(queue, ok, App), x) =
          Pending(queue, x) \cup (IF ok /\ x = App THEN {PostedAt(queue, ok)} ELSE {})
    BY <1>1, PostIfOnQueue, Senders
  <2> QED
    BY <2>1, Senders
<1> QED
  BY <1>1, <1>2, <1>3, PostIfOnQueue, Senders

\* What a post for a face that owns no message leaves.
LEMMA FacePostQueue ==
  ASSUME IInv, NEW f \in Face, NEW ok \in BOOLEAN, ok => queue.len < QueueCap,
         Pending(queue, f) = {}
  PROVE  /\ WellFormed(PostIf(queue, ok, f))
         /\ PostedAt(queue, ok) \in Slots \cup {NoSlot}
         /\ PostedAt(queue, ok) = NoSlot <=> ~ok
         /\ \A g \in Face : Pending(PostIf(queue, ok, f), g) =
              IF g # f THEN Pending(queue, g)
              ELSE IF ok THEN {PostedAt(queue, ok)} ELSE {}
<1>1. WellFormed(queue)
  BY DEF IInv, TypeOK
<1>2. \A g \in Sender : Pending(PostIf(queue, ok, f), g) =
        Pending(queue, g) \cup (IF ok /\ g = f THEN {PostedAt(queue, ok)} ELSE {})
  BY <1>1, PostIfOnQueue, Senders
<1>3. ASSUME NEW g \in Face
      PROVE  Pending(PostIf(queue, ok, f), g) =
               IF g # f THEN Pending(queue, g)
               ELSE IF ok THEN {PostedAt(queue, ok)} ELSE {}
  BY <1>2, Senders
<1> QED
  BY <1>1, <1>3, PostIfOnQueue, Senders

-----------------------------------------------------------------------------
(* Every step keeps the invariant. *)

\* ndn_udp_face_up, called by the construct or by the application.
LEMMA BringUpKeeps ==
  ASSUME IInv, running = {}, NEW f \in Face, NEW ok \in BOOLEAN, BringUp(f, ok),
         event[f] = NoSlot, live' = live \cup {f}, UNCHANGED <<running, inbox, fault>>
  PROVE  IInv'
<1>1. PICK posted \in PostOutcomes(queue) :
        /\ state' = [state EXCEPT ![f] = IF ok /\ posted THEN "UP" ELSE "DOWN"]
        /\ bound' = IF ok /\ posted THEN bound \cup {f} ELSE bound \ {f}
        /\ event' = [event EXCEPT ![f] = PostedAt(queue, ok /\ posted)]
        /\ queue' = PostIf(queue, ok /\ posted, f)
        /\ refused' = (refused \/ (ok /\ ~posted))
  BY DEF BringUp
<1> DEFINE up == ok /\ posted
           at == PostedAt(queue, up)
<1>2. up \in BOOLEAN /\ posted \in BOOLEAN /\ (up => queue.len < QueueCap)
  BY <1>1, PostOutcome DEF IInv, TypeOK
<1>3. Pending(queue, f) = {}
  BY DEF IInv, EventsOwned
<1>4. /\ WellFormed(queue')
      /\ at \in Slots \cup {NoSlot} /\ (at = NoSlot <=> ~up)
      /\ \A g \in Face : Pending(queue', g) =
           IF g # f THEN Pending(queue, g) ELSE IF up THEN {at} ELSE {}
  BY <1>1, <1>2, <1>3, FacePostQueue
<1>5. TypeOK'
  <2>1. (refused \/ (ok /\ ~posted)) \in BOOLEAN
    OBVIOUS
  <2> QED
    BY <1>1, <1>4, <2>1 DEF IInv, TypeOK
<1>6. ASSUME NEW g \in Face
      PROVE  /\ Pending(queue', g) = IF event'[g] = NoSlot THEN {} ELSE {event'[g]}
             /\ event'[g] # NoSlot => g \in live' /\ state'[g] = "UP"
             /\ g \in bound' <=> state'[g] = "UP"
  <2>1. CASE g = f
    BY <1>1, <1>4, <2>1 DEF IInv, TypeOK
  <2>2. CASE g # f
    BY <1>1, <1>4, <2>2 DEF IInv, TypeOK, EventsOwned
  <2> QED
    BY <2>1, <2>2
<1>7. EventsOwned'
  BY <1>6 DEF EventsOwned
<1> QED
  BY <1>5, <1>7 DEF IInv

\* ndn_udp_face_down, whoever calls it.
LEMMA TakeDownKeeps ==
  ASSUME IInv, NEW f \in Face, running = {} \/ running = {f}, TakeDown(f),
         running' = {}, live' \in {live, live \ {f}}, refused' = refused
  PROVE  IInv'
<1>1. /\ WellFormed(queue')
      /\ \A g \in Face : Pending(queue', g) = IF g = f THEN {} ELSE Pending(queue, g)
  BY TakeDownQueue DEF TakeDown
<1>2. TypeOK'
  BY <1>1, UdpAssumption DEF IInv, TypeOK, TakeDown
<1>3. ASSUME NEW g \in Face
      PROVE  /\ Pending(queue', g) = IF event'[g] = NoSlot THEN {} ELSE {event'[g]}
             /\ event'[g] # NoSlot => g \in live' /\ state'[g] = "UP"
             /\ g \in bound' <=> state'[g] = "UP"
  <2>1. CASE g = f
    BY <1>1, <2>1 DEF IInv, TypeOK, TakeDown
  <2>2. CASE g # f
    BY <1>1, <2>2 DEF IInv, TypeOK, EventsOwned, TakeDown
  <2> QED
    BY <2>1, <2>2
<1>4. EventsOwned'
  BY <1>3 DEF EventsOwned
<1> QED
  BY <1>2, <1>4 DEF IInv

\* The dispatch of a face's message, in whose place process_event still points.
LEMMA RecvStartKeeps ==
  ASSUME IInv, NEW f \in Face, RecvStart(f)
  PROVE  IInv'
<1>1. /\ running = {} /\ Front(queue) = f /\ queue' = Pop(queue) /\ running' = {f}
      /\ UNCHANGED <<live, state, bound, event, inbox, fault, refused>>
  BY DEF RecvStart
<1>2. WellFormed(queue) /\ Front(queue) # Empty
  BY <1>1, Senders DEF IInv, TypeOK
<1>3. /\ WellFormed(queue')
      /\ \A g \in Face : Pending(queue', g) = IF g = f THEN {} ELSE Pending(queue, g)
  BY <1>1, <1>2, DispatchQueue
<1>4. event[f] = queue.head
  <2>1. queue.head \in Pending(queue, f)
    BY <1>1, <1>2, FrontOfQueue
  <2> QED
    BY <1>1, <2>1 DEF IInv, EventsOwned
<1>5. /\ event[f] \in Slots /\ event[f] # NoSlot
      /\ (event[f] + 1) % QueueCap = queue'.head
      /\ queue'.ring[event[f]] = Empty
  <2>1. queue.head \in Slots /\ queue.len # 0
        /\ queue.ring \in [Slots -> Sender \cup {Empty, Cancelled}]
    BY <1>2, FrontOfQueue DEF WellFormed, Queues, Front
  <2>2. queue'.ring = [queue.ring EXCEPT ![queue.head] = Empty]
    BY <1>1, <1>2, <2>1, PopOfQueue
  <2>3. queue'.head = (queue.head + 1) % QueueCap
    BY <1>1 DEF Pop
  <2> QED
    BY <1>4, <2>1, <2>2, <2>3, QueueAssumption DEF NoSlot, Slots
<1>6. f \in live /\ f \in bound /\ state[f] = "UP"
  BY <1>5 DEF IInv, EventsOwned
<1>7. TypeOK'
  BY <1>1, <1>3 DEF IInv, TypeOK
<1>8. EventsOwned'
  BY <1>1, <1>3, <1>5, <1>6 DEF IInv, EventsOwned
<1> QED
  BY <1>7, <1>8 DEF IInv

\* A post by the application, in a receive or outside one.
LEMMA AppPostKeeps ==
  ASSUME IInv, NEW ok \in PostOutcomes(queue),
         queue' = PostIf(queue, ok, App), refused' = (refused \/ ~ok),
         UNCHANGED <<live, state, bound, event, running, fault>>,
         inbox' \in [Face -> 0 .. SockBuf]
  PROVE  IInv'
<1>1. TypeOK'
  <2>1. (refused \/ ~ok) \in BOOLEAN
    OBVIOUS
  <2> QED
    BY <2>1, AppPostQueue DEF IInv, TypeOK
<1>2. ASSUME NEW f \in running, f \in Face, event[f] # NoSlot
      PROVE  queue'.ring[event[f]] \in {Empty, App}
  <2>1. event[f] \in Slots /\ queue.ring[event[f]] \in {Empty, App}
    BY <1>2 DEF IInv, TypeOK, EventsOwned
  <2> QED
    BY <2>1, AppPostQueue
<1>3. EventsOwned'
  BY <1>2, AppPostQueue DEF IInv, EventsOwned
<1> QED
  BY <1>1, <1>3 DEF IInv

\* recvfrom() returns a datagram.
LEMMA RecvDatagramKeeps ==
  ASSUME IInv, NEW f \in Face, RecvDatagram(f)
  PROVE  IInv'
<1>1. inbox' \in [Face -> 0 .. SockBuf]
  BY UdpAssumption DEF IInv, TypeOK, RecvDatagram
<1>2. CASE UNCHANGED <<queue, refused>>
  BY <1>1, <1>2 DEF IInv, TypeOK, EventsOwned, RecvDatagram
<1>3. CASE \E ok \in PostOutcomes(queue) :
             /\ queue' = PostIf(queue, ok, App)
             /\ refused' = (refused \/ ~ok)
  BY <1>1, <1>3, AppPostKeeps DEF RecvDatagram
<1> QED
  BY <1>2, <1>3 DEF RecvDatagram

\* The receive ends and the face reposts.
LEMMA RecvDryKeeps ==
  ASSUME IInv, NEW f \in Face, RecvDry(f)
  PROVE  IInv'
<1>1. PICK ok \in PostOutcomes(queue) :
        /\ running = {f} /\ running' = {}
        /\ queue' = PostIf(queue, ok, f)
        /\ event' = [event EXCEPT ![f] = PostedAt(queue, ok)]
        /\ refused' = (refused \/ ~ok)
        /\ UNCHANGED <<live, state, bound, inbox, fault>>
  BY DEF RecvDry
<1>2. ok \in BOOLEAN /\ (ok => queue.len < QueueCap)
  BY PostOutcome DEF IInv, TypeOK
<1>3. Pending(queue, f) = {} /\ f \in live /\ state[f] = "UP"
  BY <1>1 DEF IInv, EventsOwned
<1> DEFINE at == PostedAt(queue, ok)
<1>4. /\ WellFormed(queue')
      /\ at \in Slots \cup {NoSlot} /\ (at = NoSlot <=> ~ok)
      /\ \A g \in Face : Pending(queue', g) =
           IF g # f THEN Pending(queue, g) ELSE IF ok THEN {at} ELSE {}
  BY <1>1, <1>2, <1>3, FacePostQueue
<1>5. TypeOK'
  <2>1. (refused \/ ~ok) \in BOOLEAN
    OBVIOUS
  <2> QED
    BY <1>1, <1>4, <2>1 DEF IInv, TypeOK
<1>6. ASSUME NEW g \in Face
      PROVE  /\ Pending(queue', g) = IF event'[g] = NoSlot THEN {} ELSE {event'[g]}
             /\ event'[g] # NoSlot => g \in live' /\ state'[g] = "UP"
             /\ g \in bound' <=> state'[g] = "UP"
  <2>1. CASE g = f
    BY <1>1, <1>3, <1>4, <2>1 DEF IInv, TypeOK, EventsOwned
  <2>2. CASE g # f
    BY <1>1, <1>4, <2>2 DEF IInv, TypeOK, EventsOwned
  <2> QED
    BY <2>1, <2>2
<1>7. EventsOwned'
  BY <1>1, <1>6 DEF EventsOwned
<1> QED
  BY <1>5, <1>7 DEF IInv

\* A message of no face leaves the queue, outside a receive.
LEMMA OtherDispatchKeeps ==
  ASSUME IInv, running = {}, Front(queue) \in {App, Cancelled}, queue' = Pop(queue),
         UNCHANGED <<live, state, bound, event, running, inbox, fault, refused>>
  PROVE  IInv'
<1>1. Front(queue) # Empty /\ \A g \in Face : Front(queue) # g
  BY Senders DEF Empty, Cancelled
<1>2. WellFormed(queue') /\ \A g \in Face : Pending(queue', g) = Pending(queue, g)
  BY <1>1, DispatchQueue
<1>3. TypeOK'
  BY <1>2 DEF IInv, TypeOK
<1>4. EventsOwned'
  BY <1>2 DEF IInv, EventsOwned
<1> QED
  BY <1>3, <1>4 DEF IInv

\* Init establishes the invariant.
LEMMA InitInvariant == Init => IInv
<1> SUFFICES ASSUME Init PROVE IInv
  OBVIOUS
<1>1. WellFormed(queue) /\ \A f \in Face : Pending(queue, f) = {}
  BY EmptyQueueWellFormed, Senders DEF Init
<1>2. TypeOK
  <2>1. refused \in BOOLEAN
    BY Zenon DEF Init
  <2>2. inbox \in [Face -> 0 .. SockBuf]
    BY UdpAssumption DEF Init
  <2> QED
    BY <1>1, <2>1, <2>2 DEF Init, TypeOK
<1>3. EventsOwned
  BY <1>1 DEF Init, EventsOwned
<1> QED
  BY <1>2, <1>3 DEF IInv

\* Every step keeps the invariant.
LEMMA NextInvariant == IInv /\ [Next]_vars => IInv'
<1> SUFFICES ASSUME IInv, [Next]_vars PROVE IInv'
  OBVIOUS
<1>1. CASE UNCHANGED vars
  BY <1>1 DEF IInv, TypeOK, EventsOwned, vars
<1>2. ASSUME NEW f \in Face, Construct(f)
      PROVE  IInv'
  <2>1. event[f] = NoSlot /\ live' = live \cup {f} /\ running = {}
    BY <1>2 DEF IInv, EventsOwned, Construct
  <2> QED
    BY <1>2, <2>1, BringUpKeeps DEF Construct
<1>3. ASSUME NEW f \in Face, FaceUp(f)
      PROVE  IInv'
  <2>1. event[f] = NoSlot /\ live' = live \cup {f} /\ running = {}
    BY <1>3 DEF IInv, EventsOwned, FaceUp
  <2> QED
    BY <1>3, <2>1, BringUpKeeps DEF FaceUp
<1>4. ASSUME NEW f \in Face, FaceDown(f) \/ FaceDestroy(f) \/ RecvError(f)
      PROVE  IInv'
  BY <1>4, TakeDownKeeps DEF FaceDown, FaceDestroy, RecvError
<1>5. ASSUME NEW f \in Face, RecvStart(f) \/ RecvDatagram(f) \/ RecvDry(f)
      PROVE  IInv'
  BY <1>5, RecvStartKeeps, RecvDatagramKeeps, RecvDryKeeps
<1>6. CASE DropCancelled \/ RunApp
  BY <1>6, OtherDispatchKeeps DEF DropCancelled, RunApp
<1>7. CASE AppPost
  <2>1. inbox' \in [Face -> 0 .. SockBuf]
    BY <1>7 DEF IInv, TypeOK, AppPost
  <2> QED
    BY <1>7, <2>1, AppPostKeeps DEF AppPost
<1>8. ASSUME NEW f \in Face, Arrive(f) \/ Fault(f)
      PROVE  IInv'
  <2>1. TypeOK'
    BY <1>8, UdpAssumption DEF IInv, TypeOK, Arrive, Fault
  <2>2. EventsOwned'
    BY <1>8 DEF IInv, EventsOwned, Arrive, Fault
  <2> QED
    BY <2>1, <2>2 DEF IInv
<1> QED
  BY <1>1, <1>2, <1>3, <1>4, <1>5, <1>6, <1>7, <1>8 DEF Next, Loop

\* The invariant holds of every behaviour of the faces.
THEOREM InvariantHolds == Spec => []IInv
<1> QED  BY InitInvariant, NextInvariant, PTL DEF Spec

\* Type correctness, with the queue well formed.
THEOREM TypeCorrect == Spec => []TypeOK
<1>1. IInv => TypeOK
  BY DEF IInv
<1> QED  BY <1>1, InvariantHolds, PTL

\* process_event owns the face's message at all times.
THEOREM EventsAreOwned == Spec => []EventsOwned
<1>1. IInv => EventsOwned
  BY DEF IInv
<1> QED  BY <1>1, InvariantHolds, PTL

-----------------------------------------------------------------------------
(* A down cancels the face's own message and no other. *)

\* The slots that a dispatch, a post or nothing changes are not cancelled.
LEMMA NothingCancelled ==
  ASSUME IInv, NEW s \in Slots, queue.ring[s] \in Sender,
         \/ queue' = queue
         \/ Front(queue) # Empty /\ queue' = Pop(queue)
         \/ \E who \in Sender, ok \in PostOutcomes(queue) : queue' = PostIf(queue, ok, who)
  PROVE  queue'.ring[s] # Cancelled
<1>1. /\ WellFormed(queue)
      /\ queue.ring \in [Slots -> Sender \cup {Empty, Cancelled}]
  BY DEF IInv, TypeOK, WellFormed, Queues
<1>2. Empty # Cancelled
  BY DEF Empty, Cancelled
<1>3. CASE queue' = queue
  BY <1>3, Senders
<1>4. CASE Front(queue) # Empty /\ queue' = Pop(queue)
  <2>1. queue'.ring = [queue.ring EXCEPT ![queue.head] = Empty]
    BY <1>1, <1>4, PopOfQueue DEF Front
  <2> QED
    BY <1>1, <1>2, <2>1, Senders
<1>5. ASSUME NEW who \in Sender, NEW ok \in PostOutcomes(queue),
             queue' = PostIf(queue, ok, who)
      PROVE  queue'.ring[s] # Cancelled
  <2>1. ok \in BOOLEAN /\ (ok => queue.len < QueueCap)
    BY <1>1, PostOutcome
  <2>2. queue'.ring[s] = IF s = PostedAt(queue, ok) THEN who ELSE queue.ring[s]
    BY <1>1, <1>5, <2>1, PostIfOnQueue
  <2> QED
    BY <2>2, Senders
<1> QED
  BY <1>3, <1>4, <1>5

\* ndn_udp_face_down while the queue has room.
LEMMA CancelsOwn ==
  ASSUME IInv, NEW f \in Face, running = {} \/ running = {f}, TakeDown(f),
         queue.len < QueueCap,
         NEW s \in Slots, queue.ring[s] \in Sender, queue'.ring[s] = Cancelled
  PROVE  queue.ring[s] = f /\ state'[f] = "DOWN"
<1>1. WellFormed(queue) /\ event[f] \in Slots \cup {NoSlot}
  BY DEF IInv, TypeOK
<1>2. event[f] = s
  BY <1>1, CancelInQueue, Senders DEF TakeDown
<1>3. f \notin running
  <2> SUFFICES ASSUME f \in running PROVE FALSE
    OBVIOUS
  <2>1. (s + 1) % QueueCap = queue.head
    BY <1>2 DEF IInv, EventsOwned
  <2> QED
    BY <1>1, <2>1, BehindTheHead, Senders
<1>4. s \in Pending(queue, f)
  <2>1. s # NoSlot
    BY QueueAssumption DEF NoSlot, Slots
  <2> QED
    BY <1>2, <1>3, <2>1 DEF IInv, EventsOwned
<1> QED
  BY <1>4 DEF Pending, TakeDown, IInv, TypeOK

\* Taking a face down cancels no message but that face's own.
THEOREM CancelsOnlyItsOwn == Spec => CancelsOwnMessage
<1> DEFINE Cancels ==
      queue.len < QueueCap =>
        \A s \in Slots :
          queue.ring[s] \in Sender /\ queue'.ring[s] = Cancelled =>
            \E f \in Face : queue.ring[s] = f /\ state'[f] = "DOWN"
<1>1. IInv /\ [Next]_vars => [Cancels]_vars
  <2> SUFFICES ASSUME IInv, Next, queue.len < QueueCap,
                      NEW s \in Slots, queue.ring[s] \in Sender,
                      queue'.ring[s] = Cancelled
               PROVE  \E f \in Face : queue.ring[s] = f /\ state'[f] = "DOWN"
    OBVIOUS
  <2> HIDE DEF Cancels
  <2>1. ASSUME NEW f \in Face, FaceDown(f) \/ FaceDestroy(f) \/ RecvError(f)
        PROVE  \E g \in Face : queue.ring[s] = g /\ state'[g] = "DOWN"
    BY <2>1, CancelsOwn DEF FaceDown, FaceDestroy, RecvError
  <2>2. ASSUME NEW f \in Face, Construct(f) \/ FaceUp(f)
        PROVE  FALSE
    <3>1. PICK ok \in BOOLEAN : BringUp(f, ok)
      BY <2>2 DEF Construct, FaceUp
    <3>2. PICK posted \in PostOutcomes(queue) : queue' = PostIf(queue, ok /\ posted, f)
      BY <3>1 DEF BringUp
    <3>3. queue' = queue \/ queue' = PostIf(queue, posted, f)
      BY <3>2, PostOutcome DEF PostIf, IInv, TypeOK
    <3> QED
      BY <3>2, <3>3, NothingCancelled, Senders
  <2>3. ASSUME NEW f \in Face, RecvStart(f) \/ RecvDatagram(f) \/ RecvDry(f)
        PROVE  FALSE
    BY <2>3, NothingCancelled, Senders DEF RecvStart, RecvDatagram, RecvDry
  <2>4. CASE DropCancelled \/ RunApp
    BY <2>4, NothingCancelled, Senders DEF DropCancelled, RunApp, Cancelled, Empty
  <2>5. CASE AppPost
    BY <2>5, NothingCancelled, Senders DEF AppPost
  <2>6. ASSUME NEW f \in Face, Arrive(f) \/ Fault(f)
        PROVE  FALSE
    BY <2>6, NothingCancelled DEF Arrive, Fault
  <2> QED
    BY <2>1, <2>2, <2>3, <2>4, <2>5, <2>6 DEF Next, Loop
<1> QED
  BY <1>1, InvariantHolds, PTL DEF Spec, CancelsOwnMessage

-----------------------------------------------------------------------------
(* The faces keep the contract of FaceContract. *)

\* A face is heard when its receive runs or its message is in the queue.
Heard(f) == f \in running \/ Pending(queue, f) # {}

statuses == [f \in Face |-> Status(f)]

\* What a face's status is, before a step and after it.
LEMMA StatusCases ==
  ASSUME NEW f \in Face
  PROVE  /\ f \notin live => Status(f) = "none"
         /\ f \in live /\ state[f] = "DOWN" => Status(f) = "down"
         /\ f \in live /\ state[f] = "UP" /\ Heard(f) => Status(f) = "listening"
         /\ f \in live /\ state[f] = "UP" /\ ~Heard(f) => Status(f) = "deaf"
         /\ f \notin live' => Status(f)' = "none"
         /\ f \in live' /\ state'[f] = "DOWN" => Status(f)' = "down"
         /\ f \in live' /\ state'[f] = "UP" /\ Heard(f)' => Status(f)' = "listening"
         /\ f \in live' /\ state'[f] = "UP" /\ ~Heard(f)' => Status(f)' = "deaf"
BY DEF Status, Heard

\* A face whose three marks stay keeps its status.
LEMMA StatusKept ==
  ASSUME NEW f \in Face, f \in live' <=> f \in live, state'[f] = state[f],
         Heard(f)' <=> Heard(f)
  PROVE  Status(f)' = Status(f)
BY DEF Status, Heard

\* A step of one face alone is a step of the abstract statuses.
LEMMA BecomesStatus ==
  ASSUME NEW f \in Face, NEW s, Status(f)' = s,
         \A g \in Face \ {f} : Status(g)' = Status(g)
  PROVE  Contract!Becomes(f, s)
<1>1. \A g \in Face : Status(g)' = IF g = f THEN s ELSE Status(g)
  OBVIOUS
<1>2. statuses' = [statuses EXCEPT ![f] = s]
  BY <1>1 DEF statuses
<1> QED
  BY <1>2 DEF statuses, Contract!Becomes

\* ndn_udp_face_up makes the face listen or leaves it down.
LEMMA BringUpStatus ==
  ASSUME IInv, NEW f \in Face, NEW ok \in BOOLEAN, BringUp(f, ok),
         event[f] = NoSlot, live' = live \cup {f}, running = {}, running' = {}
  PROVE  /\ Status(f)' \in {"listening", "down"}
         /\ \A g \in Face \ {f} : Status(g)' = Status(g)
         /\ refused => refused'
<1>1. PICK posted \in PostOutcomes(queue) :
        /\ state' = [state EXCEPT ![f] = IF ok /\ posted THEN "UP" ELSE "DOWN"]
        /\ queue' = PostIf(queue, ok /\ posted, f)
        /\ refused' = (refused \/ (ok /\ ~posted))
  BY DEF BringUp
<1> DEFINE up == ok /\ posted
<1>2. up \in BOOLEAN /\ (up => queue.len < QueueCap)
  BY <1>1, PostOutcome DEF IInv, TypeOK
<1>3. Pending(queue, f) = {}
  BY DEF IInv, EventsOwned
<1>4. \A g \in Face : Pending(queue', g) =
        IF g # f THEN Pending(queue, g)
        ELSE IF up THEN {PostedAt(queue, up)} ELSE {}
  BY <1>1, <1>2, <1>3, FacePostQueue
<1>5. state'[f] = IF up THEN "UP" ELSE "DOWN"
  BY <1>1 DEF IInv, TypeOK
<1>6. up => Heard(f)'
  BY <1>4 DEF Heard
<1>7. Status(f)' \in {"listening", "down"}
  BY <1>5, <1>6, StatusCases
<1>8. ASSUME NEW g \in Face \ {f}
      PROVE  Status(g)' = Status(g)
  <2>1. state'[g] = state[g] /\ (Heard(g)' <=> Heard(g))
    BY <1>1, <1>4 DEF IInv, TypeOK, Heard
  <2> QED
    BY <2>1, StatusKept
<1> QED
  BY <1>1, <1>7, <1>8

\* ndn_udp_face_down leaves every other face as it was.
LEMMA TakeDownStatus ==
  ASSUME IInv, NEW f \in Face, running = {} \/ running = {f}, TakeDown(f),
         running' = {}, live' \in {live, live \ {f}}
  PROVE  /\ Status(f)' = IF f \in live' THEN "down" ELSE "none"
         /\ \A g \in Face \ {f} : Status(g)' = Status(g)
<1>1. Status(f)' = IF f \in live' THEN "down" ELSE "none"
  <2>1. state'[f] = "DOWN"
    BY DEF IInv, TypeOK, TakeDown
  <2> QED
    BY <2>1, StatusCases
<1>2. ASSUME NEW g \in Face \ {f}
      PROVE  Status(g)' = Status(g)
  <2>1. Pending(queue', g) = Pending(queue, g)
    BY TakeDownQueue DEF TakeDown
  <2>2. state'[g] = state[g] /\ (Heard(g)' <=> Heard(g))
    BY <2>1 DEF IInv, TypeOK, TakeDown, Heard
  <2> QED
    BY <2>2, StatusKept
<1> QED
  BY <1>1, <1>2

\* Steps that leave the faces and the messages for them alone, but for the
\* one whose message is dispatched to its receive.
LEMMA NoStatusChanges ==
  ASSUME IInv, UNCHANGED <<live, state>>,
         \A g \in Face : Heard(g)' <=> Heard(g)
  PROVE  statuses' = statuses
<1>1. \A g \in Face : Status(g)' = Status(g)
  BY StatusKept
<1> QED
  BY <1>1 DEF statuses

\* The receive ends: the face reposts, or goes deaf with a post refused.
LEMMA RecvDryStatus ==
  ASSUME IInv, NEW f \in Face, RecvDry(f)
  PROVE  \/ statuses' = statuses /\ (refused => refused')
         \/ Contract!Deafen(f)
<1>1. PICK ok \in PostOutcomes(queue) :
        /\ running = {f} /\ running' = {}
        /\ queue' = PostIf(queue, ok, f)
        /\ refused' = (refused \/ ~ok)
        /\ UNCHANGED <<live, state>>
  BY DEF RecvDry
<1>2. ok \in BOOLEAN /\ (ok => queue.len < QueueCap)
  BY PostOutcome DEF IInv, TypeOK
<1>3. Pending(queue, f) = {} /\ f \in live /\ state[f] = "UP" /\ Heard(f)
  BY <1>1 DEF IInv, EventsOwned, Heard
<1>4. \A g \in Face : Pending(queue', g) =
        IF g # f THEN Pending(queue, g)
        ELSE IF ok THEN {PostedAt(queue, ok)} ELSE {}
  BY <1>1, <1>2, <1>3, FacePostQueue
<1>5. \A g \in Face \ {f} : Heard(g)' <=> Heard(g)
  BY <1>1, <1>4 DEF Heard
<1>6. Heard(f)' <=> ok
  BY <1>1, <1>2, <1>4 DEF Heard
<1>7. CASE ok
  BY <1>1, <1>3, <1>5, <1>6, <1>7, NoStatusChanges
<1>8. CASE ~ok
  <2>1. Status(f) = "listening" /\ Status(f)' = "deaf"
    BY <1>1, <1>3, <1>6, <1>8, StatusCases
  <2>2. Contract!Becomes(f, "deaf")
    BY <1>1, <1>5, <2>1, StatusKept, BecomesStatus
  <2> QED
    BY <1>1, <1>8, <2>1, <2>2 DEF Contract!Deafen
<1> QED
  BY <1>2, <1>7, <1>8

\* A step in which no status changes, as the contract sees it.
LEMMA Stutters ==
  ASSUME statuses' = statuses, refused => refused'
  PROVE  Contract!Next
BY DEF statuses, Contract!Next

\* A step of one face, as the contract sees it.
LEMMA OneFaceSteps ==
  ASSUME NEW f \in Face, refused => refused',
         \/ Contract!Construct(f) \/ Contract!Up(f) \/ Contract!Down(f)
         \/ Contract!Destroy(f) \/ Contract!Deafen(f)
  PROVE  Contract!Next
BY DEF Contract!Next

\* Every step of the faces is a step of the contract.
LEMMA NextRefines == IInv /\ Next => Contract!Next
<1> SUFFICES ASSUME IInv, Next PROVE Contract!Next
  OBVIOUS
<1>1. ASSUME NEW f \in Face, Construct(f)
      PROVE  Contract!Next
  <2>1. event[f] = NoSlot /\ live' = live \cup {f} /\ running = {} /\ running' = {}
    BY <1>1 DEF IInv, EventsOwned, Construct
  <2>2. /\ Status(f)' \in {"listening", "down"} /\ (refused => refused')
        /\ \A g \in Face \ {f} : Status(g)' = Status(g)
    BY <1>1, <2>1, BringUpStatus DEF Construct
  <2>3. Status(f) = "none"
    BY <1>1, StatusCases DEF Construct
  <2>4. Contract!Becomes(f, "listening") \/ Contract!Becomes(f, "down")
    BY <2>2, BecomesStatus
  <2> QED
    BY <2>2, <2>3, <2>4, OneFaceSteps DEF Contract!Construct
<1>2. ASSUME NEW f \in Face, FaceUp(f)
      PROVE  Contract!Next
  <2>1. event[f] = NoSlot /\ live' = live \cup {f} /\ running = {} /\ running' = {}
    BY <1>2 DEF IInv, EventsOwned, FaceUp
  <2>2. /\ Status(f)' \in {"listening", "down"} /\ (refused => refused')
        /\ \A g \in Face \ {f} : Status(g)' = Status(g)
    BY <1>2, <2>1, BringUpStatus DEF FaceUp
  <2>3. Status(f) = "down"
    BY <1>2, StatusCases DEF FaceUp
  <2>4. CASE Status(f)' = "listening"
    BY <2>2, <2>3, <2>4, BecomesStatus, OneFaceSteps DEF Contract!Up
  <2>5. CASE Status(f)' = "down"
    <3>1. statuses' = statuses
      BY <2>2, <2>3, <2>5 DEF statuses
    <3> QED
      BY <2>2, <3>1, Stutters
  <2> QED
    BY <2>2, <2>4, <2>5
<1>3. ASSUME NEW f \in Face, FaceDown(f) \/ RecvError(f)
      PROVE  Contract!Next
  <2>1. /\ running = {} \/ running = {f}
        /\ TakeDown(f) /\ running' = {} /\ live' = live /\ refused' = refused
        /\ f \in live
    BY <1>3 DEF FaceDown, RecvError, IInv, EventsOwned
  <2>2. Status(f)' = "down" /\ \A g \in Face \ {f} : Status(g)' = Status(g)
    BY <2>1, TakeDownStatus
  <2>3. Status(f) \in {"down", "listening", "deaf"}
    BY <2>1, StatusCases DEF IInv, TypeOK
  <2>4. CASE Status(f) = "down"
    <3>1. statuses' = statuses
      BY <2>2, <2>4 DEF statuses
    <3> QED
      BY <2>1, <3>1, Stutters
  <2>5. CASE Status(f) \in {"listening", "deaf"}
    BY <2>1, <2>2, <2>5, BecomesStatus, OneFaceSteps DEF Contract!Down
  <2> QED
    BY <2>3, <2>4, <2>5
<1>4. ASSUME NEW f \in Face, FaceDestroy(f)
      PROVE  Contract!Next
  <2>1. /\ running = {} /\ TakeDown(f) /\ running' = {} /\ refused' = refused
        /\ live' = live \ {f} /\ f \in live
    BY <1>4 DEF FaceDestroy
  <2>2. Status(f)' = "none" /\ \A g \in Face \ {f} : Status(g)' = Status(g)
    BY <2>1, TakeDownStatus
  <2>3. Status(f) # "none"
    BY <2>1, StatusCases DEF IInv, TypeOK
  <2> QED
    BY <2>1, <2>2, <2>3, BecomesStatus, OneFaceSteps DEF Contract!Destroy
<1>5. ASSUME NEW f \in Face, RecvDry(f)
      PROVE  Contract!Next
  <2>1. refused => refused'
    BY <1>5 DEF RecvDry
  <2> QED
    BY <1>5, <2>1, RecvDryStatus, Stutters, OneFaceSteps
<1>6. ASSUME NEW f \in Face, RecvStart(f)
      PROVE  Contract!Next
  <2>1. /\ running = {} /\ Front(queue) = f /\ queue' = Pop(queue) /\ running' = {f}
        /\ UNCHANGED <<live, state, refused>>
    BY <1>6 DEF RecvStart
  <2>2. Front(queue) # Empty /\ WellFormed(queue)
    BY <2>1, Senders DEF IInv, TypeOK
  <2>3. \A g \in Face : Pending(queue', g) = IF g = f THEN {} ELSE Pending(queue, g)
    BY <2>1, <2>2, DispatchQueue
  <2>4. Pending(queue, f) # {}
    BY <2>1, <2>2, FrontOfQueue
  <2>5. \A g \in Face : Heard(g)' <=> Heard(g)
    BY <2>1, <2>3, <2>4 DEF Heard
  <2> QED
    BY <2>1, <2>5, NoStatusChanges, Stutters
<1>7. ASSUME NEW f \in Face, RecvDatagram(f)
      PROVE  Contract!Next
  <2>1. UNCHANGED <<live, state, running>>
    BY <1>7 DEF RecvDatagram
  <2>2. \/ queue' = queue /\ refused' = refused
        \/ \E ok \in PostOutcomes(queue) :
             queue' = PostIf(queue, ok, App) /\ refused' = (refused \/ ~ok)
    BY <1>7 DEF RecvDatagram
  <2>3. \A g \in Face : Pending(queue', g) = Pending(queue, g)
    BY <2>2, AppPostQueue
  <2>4. refused => refused'
    BY <2>2, Zenon
  <2>5. statuses' = statuses
    BY <2>1, <2>3, NoStatusChanges DEF Heard
  <2> QED
    BY <2>4, <2>5, Stutters
<1>8. CASE DropCancelled \/ RunApp
  <2>1. /\ Front(queue) \in {App, Cancelled} /\ queue' = Pop(queue)
        /\ UNCHANGED <<live, state, running, refused>>
    BY <1>8 DEF DropCancelled, RunApp
  <2>2. Front(queue) # Empty /\ \A g \in Face : Front(queue) # g
    BY <2>1, Senders DEF Empty, Cancelled
  <2>3. \A g \in Face : Pending(queue', g) = Pending(queue, g)
    BY <2>1, <2>2, DispatchQueue
  <2> QED
    BY <2>1, <2>3, NoStatusChanges, Stutters DEF Heard
<1>9. CASE AppPost
  <2>1. \A g \in Face : Pending(queue', g) = Pending(queue, g)
    BY <1>9, AppPostQueue DEF AppPost
  <2> QED
    BY <1>9, <2>1, NoStatusChanges, Stutters DEF AppPost, Heard
<1>10. ASSUME NEW f \in Face, Arrive(f) \/ Fault(f)
       PROVE  Contract!Next
  BY <1>10, NoStatusChanges, Stutters DEF Arrive, Fault, Heard
<1> QED
  BY <1>1, <1>2, <1>3, <1>4, <1>5, <1>6, <1>7, <1>8, <1>9, <1>10 DEF Next, Loop

\* The UDP faces implement the contract of FaceContract: a face that is up is
\* read until it goes down, but for a post that the queue has refused.
THEOREM ContractKept == Spec => KeepsContract
<1>1. Init => Contract!Init
  BY DEF Init, Contract!Init, Status
<1>2. IInv /\ [Next]_vars => [Contract!Next]_(Contract!contract)
  <2>1. ASSUME UNCHANGED vars PROVE UNCHANGED Contract!contract
    BY <2>1 DEF vars, Contract!contract, Status, Pending
  <2> QED
    BY <2>1, NextRefines
<1> QED
  BY <1>1, <1>2, InvariantHolds, PTL DEF Spec, KeepsContract, Contract!Spec
=============================================================================
