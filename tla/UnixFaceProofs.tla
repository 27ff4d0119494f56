--------------------------- MODULE UnixFaceProofs ---------------------------
(***************************************************************************)
(* Proofs about the life of the Unix-socket faces, for any number of       *)
(* client, server and slave faces and any size of the queue, the face      *)
(* table and the table of descriptors.                                     *)
(***************************************************************************)
EXTENDS UnixFace, MsgQueueProofs, WellFoundedInduction

\* The inductive invariant is the conjunction of the invariants themselves: a
\* descriptor's owner, an event's owner and the face table hold each other up.
IInv == TypeOK /\ DescriptorsOwned /\ EventsOwned /\ TableMatches

-----------------------------------------------------------------------------
(* Descriptors. *)

\* A set of natural numbers that is not empty has a least element.
LEMMA LeastNumber ==
  ASSUME NEW S, S \subseteq Nat, S # {}
  PROVE  \E d \in S : \A e \in S : d <= e
<1>1. PICK d \in S : \A e \in S : <<e, d>> \notin OpToRel(<, Nat)
  BY NatLessThanWellFounded, WFMin
<1>2. \A e \in S : e < d => <<e, d>> \in OpToRel(<, Nat)
  BY DEF OpToRel
<1>3. \A e \in S : ~(e < d)
  BY <1>1, <1>2, Zenon
<1>4. \A e \in S : d <= e
  BY <1>3
<1> QED
  BY <1>4

\* socket(), accept() and open() return a free descriptor while there is one.
LEMMA LowestIsFree ==
  ASSUME FreeFd # {}
  PROVE  Lowest \in FreeFd /\ Lowest \in Fd /\ Lowest \notin open
<1>1. FreeFd \subseteq Nat
  BY FaceAssumption DEF FreeFd, Fd
<1>2. \E d \in FreeFd : \A e \in FreeFd : d <= e
  BY <1>1, LeastNumber
<1>3. Lowest \in FreeFd
  BY <1>2 DEF Lowest
<1> QED
  BY <1>3 DEF FreeFd

\* NULL is no slot and -1 no descriptor.
LEMMA Nulls == NoSlot \notin Slots /\ NoFd \notin Fd
BY QueueAssumption, FaceAssumption DEF NoSlot, Slots, NoFd, Fd

\* A face that holds no descriptor and comes up with a free one.
LEMMA OpensDescriptor ==
  ASSUME IInv, NEW f \in Face, sock[f] = NoFd, NEW d \in FreeFd,
         sock' = [sock EXCEPT ![f] = d], state' = [state EXCEPT ![f] = "UP"],
         open' = open \cup {d}, files' = files, live' = live \cup {f}
  PROVE  DescriptorsOwned'
<1>1. d # NoFd /\ d \notin open
  BY Nulls DEF FreeFd
<1>2. \A g \in Face : sock'[g] = IF g = f THEN d ELSE sock[g]
  BY DEF IInv, TypeOK
<1>3. \A g \in Face : state'[g] = IF g = f THEN "UP" ELSE state[g]
  BY DEF IInv, TypeOK
<1>4. \A g \in Face : sock[g] # NoFd => sock[g] \in open
  BY DEF IInv, DescriptorsOwned
<1>5. \A g \in Face : sock'[g] # NoFd <=> g \in live' /\ state'[g] = "UP"
  BY <1>1, <1>2, <1>3 DEF IInv, DescriptorsOwned
<1>6. open' = files' \cup {sock'[g] : g \in {h \in Face : sock'[h] # NoFd}}
  BY <1>1, <1>2 DEF IInv, DescriptorsOwned
<1>7. ASSUME NEW g \in Face, sock'[g] # NoFd
      PROVE  sock'[g] \notin files' /\ \A h \in Face : sock'[h] = sock'[g] => h = g
  <2>1. files \subseteq open
    BY DEF IInv, DescriptorsOwned
  <2> QED
    BY <1>1, <1>2, <1>4, <1>7, <2>1 DEF IInv, DescriptorsOwned
<1> QED
  BY <1>5, <1>6, <1>7 DEF DescriptorsOwned

\* A face that goes or stays down, and gives back the descriptor it had.
LEMMA ClosesDescriptor ==
  ASSUME IInv, NEW f \in Face,
         sock' = [sock EXCEPT ![f] = NoFd], state' = [state EXCEPT ![f] = "DOWN"],
         open' = open \ {sock[f]}, files' = files,
         \A g \in Face \ {f} : g \in live' <=> g \in live
  PROVE  DescriptorsOwned'
<1>1. \A g \in Face : sock'[g] = IF g = f THEN NoFd ELSE sock[g]
  BY DEF IInv, TypeOK
<1>2. \A g \in Face : state'[g] = IF g = f THEN "DOWN" ELSE state[g]
  BY DEF IInv, TypeOK
<1>3. \A g \in Face : sock'[g] # NoFd <=> g \in live' /\ state'[g] = "UP"
  BY <1>1, <1>2 DEF IInv, DescriptorsOwned
<1>4. open' = files' \cup {sock'[g] : g \in {h \in Face : sock'[h] # NoFd}}
  <2>1. \A d : d \in open' <=> d \in open /\ d # sock[f]
    OBVIOUS
  <2>2. NoFd \notin open
    BY Nulls DEF IInv, TypeOK
  <2>3. \A d : d \in open <=> d \in files \/ \E g \in Face : sock[g] # NoFd /\ d = sock[g]
    BY DEF IInv, DescriptorsOwned
  <2>4. \A g \in Face : sock[g] # NoFd =>
          sock[g] \notin files /\ \A h \in Face : sock[h] = sock[g] => h = g
    BY DEF IInv, DescriptorsOwned
  <2>5. \A d : d \in open' <=> d \in files' \/ \E g \in Face : sock'[g] # NoFd /\ d = sock'[g]
    BY <1>1, <2>1, <2>2, <2>3, <2>4
  <2> QED
    BY <2>5
<1>5. ASSUME NEW g \in Face, sock'[g] # NoFd
      PROVE  sock'[g] \notin files' /\ \A h \in Face : sock'[h] = sock'[g] => h = g
  BY <1>1, <1>5 DEF IInv, DescriptorsOwned
<1> QED
  BY <1>3, <1>4, <1>5 DEF DescriptorsOwned

-----------------------------------------------------------------------------
(* Events and the queue. *)

\* The senders are not marks of the queue, and the application is no face.
LEMMA Senders ==
  /\ App \in Sender /\ App \notin Face
  /\ \A f \in Face : f \in Sender /\ f # App
  /\ \A x \in Sender : x # Empty /\ x # Cancelled
BY FaceAssumption, QueueAssumption DEF Empty, Cancelled

\* A server is no slave and no client.
LEMMA Kinds ==
  /\ \A f \in Server : f \in Face /\ f \notin Slave /\ f \notin Client
  /\ \A f \in Slave : f \in Face /\ f \notin Server /\ f \notin Client
  /\ \A f \in Client : f \in Face /\ f \notin Server /\ f \notin Slave
BY FaceAssumption DEF Face

\* What EventsOwned says of one face, of a queue and events given.
Owns(f, q, ev) == Pending(q, f) = IF ev[f] = NoSlot THEN {} ELSE {ev[f]}

\* A dispatch takes the front message, which is one face's or no face's; that
\* face is live, up and without a message.
LEMMA DispatchQueue ==
  ASSUME IInv, Front(queue) # Empty
  PROVE  /\ WellFormed(Pop(queue))
         /\ \A g \in Face : Pending(Pop(queue), g) =
                              IF Front(queue) = g THEN {} ELSE Pending(queue, g)
         /\ \A g \in Face : Front(queue) = g =>
              /\ g \in live /\ state[g] = "UP" /\ event[g] # NoSlot
              /\ sock[g] \in Fd
<1>1. WellFormed(queue)
  BY DEF IInv, TypeOK
<1>2. ASSUME NEW g \in Face
      PROVE  /\ Front(queue) = g => Pending(queue, g) = {queue.head}
             /\ Pending(Pop(queue), g) = IF Front(queue) = g THEN {} ELSE Pending(queue, g)
  <2>1. Pending(queue, g) \subseteq {event[g]}
    BY DEF IInv, EventsOwned
  <2> QED
    BY <1>1, <2>1, OnlyPop, Senders
<1>3. ASSUME NEW g \in Face, Front(queue) = g
      PROVE  g \in live /\ state[g] = "UP" /\ event[g] # NoSlot /\ sock[g] \in Fd
  <2>1. event[g] # NoSlot
    BY <1>2, <1>3 DEF IInv, EventsOwned
  <2> QED
    BY <2>1 DEF IInv, EventsOwned, DescriptorsOwned, TypeOK
<1>4. queue.len # 0
  BY DEF Front
<1> QED
  BY <1>1, <1>2, <1>3, <1>4, PopOfQueue

\* A post by the application.
LEMMA AppPostQueue ==
  ASSUME NEW q, WellFormed(q), NEW ok \in PostOutcomes(q)
  PROVE  /\ ok \in BOOLEAN /\ WellFormed(PostIf(q, ok, App))
         /\ \A g \in Face : Pending(PostIf(q, ok, App), g) = Pending(q, g)
<1>1. ok \in BOOLEAN /\ (ok => q.len < QueueCap)
  BY PostOutcome
<1>2. \A x \in Sender : Pending(PostIf(q, ok, App), x) =
        Pending(q, x) \cup (IF ok /\ x = App THEN {PostedAt(q, ok)} ELSE {})
  BY <1>1, PostIfOnQueue, Senders
<1>3. \A g \in Face : Pending(PostIf(q, ok, App), g) = Pending(q, g)
  BY <1>2, Senders
<1> QED
  BY <1>1, <1>3, PostIfOnQueue, Senders

\* A post for a face without a message, and the pointer the face keeps of it.
LEMMA FacePost ==
  ASSUME NEW q, WellFormed(q), NEW f \in Face, Pending(q, f) = {},
         NEW ok \in BOOLEAN, ok => q.len < QueueCap
  PROVE  /\ WellFormed(PostIf(q, ok, f))
         /\ PostedAt(q, ok) \in Slots \cup {NoSlot}
         /\ PostedAt(q, ok) = NoSlot <=> ~ok
         /\ \A g \in Face : Pending(PostIf(q, ok, f), g) =
              IF g # f THEN Pending(q, g)
              ELSE IF PostedAt(q, ok) = NoSlot THEN {} ELSE {PostedAt(q, ok)}
<1>1. /\ WellFormed(PostIf(q, ok, f)) /\ PostedAt(q, ok) \in Slots \cup {NoSlot}
      /\ PostedAt(q, ok) = NoSlot <=> ~ok
  BY PostIfOnQueue, Senders
<1>2. \A g \in Face : Pending(PostIf(q, ok, f), g) =
        IF g # f THEN Pending(q, g) ELSE IF ok THEN {PostedAt(q, ok)} ELSE {}
  BY OnlyPost, Senders
<1> QED
  BY <1>1, <1>2

\* The repost at the end of a handler.
LEMMA RepostQueue ==
  ASSUME NEW q, WellFormed(q), NEW f \in Face, Pending(q, f) = {},
         NEW ev \in [Face -> Slots \cup {NoSlot}], NEW met \in BOOLEAN,
         Repost(f, q, ev, met)
  PROVE  /\ WellFormed(queue') /\ event' \in [Face -> Slots \cup {NoSlot}]
         /\ refused' \in BOOLEAN
         /\ refused \/ met \/ event'[f] = NoSlot => refused'
         /\ Owns(f, queue', event')
         /\ \A g \in Face \ {f} : event'[g] = ev[g] /\ Pending(queue', g) = Pending(q, g)
<1>1. PICK ok \in PostOutcomes(q) :
        /\ queue' = PostIf(q, ok, f)
        /\ event' = [ev EXCEPT ![f] = PostedAt(q, ok)]
        /\ refused' = (refused \/ met \/ ~ok)
  BY DEF Repost
<1>2. ok \in BOOLEAN /\ (ok => q.len < QueueCap)
  BY PostOutcome
<1> DEFINE at == PostedAt(q, ok)
<1>3. /\ WellFormed(queue') /\ at \in Slots \cup {NoSlot} /\ (at = NoSlot <=> ~ok)
      /\ \A g \in Face : Pending(queue', g) =
           IF g # f THEN Pending(q, g) ELSE IF at = NoSlot THEN {} ELSE {at}
  BY <1>1, <1>2, FacePost
<1>5. /\ event' \in [Face -> Slots \cup {NoSlot}] /\ event'[f] = at
      /\ Owns(f, queue', event')
      /\ \A g \in Face \ {f} : event'[g] = ev[g] /\ Pending(queue', g) = Pending(q, g)
  <2>1. event' = [ev EXCEPT ![f] = at]
    BY <1>1
  <2> HIDE DEF at
  <2>2. event'[f] = at /\ \A g \in Face \ {f} : event'[g] = ev[g]
    BY <2>1
  <2> QED
    BY <1>3, <2>1, <2>2 DEF Owns
<1>4. refused' \in BOOLEAN /\ (refused \/ met \/ ~ok => refused')
  BY <1>1, Zenon
<1> QED
  BY <1>3, <1>4, <1>5

-----------------------------------------------------------------------------
(* Every step keeps the invariant. *)

\* ndn_face_up of a face without a socket, called by the construct or by the
\* application.
LEMMA BringUpKeeps ==
  ASSUME IInv, NEW f \in Client \cup Server, NEW ok \in BOOLEAN, BringUp(f, ok),
         f \notin live \/ state[f] = "DOWN",
         live' = live \cup {f}, registered' = registered \cup {f},
         UNCHANGED <<files, gone, backlog>>
  PROVE  /\ IInv'
         /\ state'[f] = "UP" => event'[f] # NoSlot
         /\ \A g \in Face \ {f} : event'[g] = event[g] /\ state'[g] = state[g]
         /\ refused => refused'
<1>0. f \in Face /\ f \notin Slave
  BY Kinds
<1>1. PICK posted \in PostOutcomes(queue) :
        LET opens == FreeFd # {}
            up    == opens /\ ok /\ posted
        IN  /\ state' = [state EXCEPT ![f] = IF up THEN "UP" ELSE "DOWN"]
            /\ sock' = [sock EXCEPT ![f] = IF up THEN Lowest ELSE NoFd]
            /\ event' = [event EXCEPT ![f] = PostedAt(queue, up)]
            /\ queue' = PostIf(queue, up, f)
            /\ open' = IF up THEN open \cup {Lowest} ELSE open
            /\ refused' = (refused \/ (opens /\ ok /\ ~posted))
  BY DEF BringUp
<1> DEFINE up == FreeFd # {} /\ ok /\ posted
<1>2. /\ up \in BOOLEAN /\ (up => queue.len < QueueCap) /\ (up => FreeFd # {})
      /\ WellFormed(queue) /\ event \in [Face -> Slots \cup {NoSlot}]
  BY PostOutcome DEF IInv, TypeOK
<1>3. sock[f] = NoFd /\ event[f] = NoSlot /\ Pending(queue, f) = {}
  BY <1>0 DEF IInv, DescriptorsOwned, EventsOwned
<1>4. /\ WellFormed(queue') /\ event' \in [Face -> Slots \cup {NoSlot}]
      /\ event'[f] = NoSlot <=> ~up
      /\ Owns(f, queue', event')
      /\ \A g \in Face \ {f} :
           event'[g] = event[g] /\ Pending(queue', g) = Pending(queue, g)
  <2> DEFINE at == PostedAt(queue, up)
  <2>1. queue' = PostIf(queue, up, f) /\ event' = [event EXCEPT ![f] = at]
    BY <1>1
  <2> HIDE DEF up
  <2>2. /\ WellFormed(queue') /\ at \in Slots \cup {NoSlot} /\ (at = NoSlot <=> ~up)
        /\ \A g \in Face : Pending(queue', g) =
             IF g # f THEN Pending(queue, g) ELSE IF at = NoSlot THEN {} ELSE {at}
    BY <1>0, <1>2, <1>3, <2>1, FacePost
  <2> HIDE DEF at
  <2>3. event'[f] = at /\ \A g \in Face \ {f} : event'[g] = event[g]
    BY <1>0, <1>2, <2>1
  <2> QED
    BY <1>0, <1>2, <2>1, <2>2, <2>3 DEF Owns
<1>5. /\ state' = [state EXCEPT ![f] = IF up THEN "UP" ELSE "DOWN"]
      /\ sock' = [sock EXCEPT ![f] = IF up THEN Lowest ELSE NoFd]
      /\ open' = IF up THEN open \cup {Lowest} ELSE open
  BY <1>1
<1>6. refused' \in BOOLEAN /\ (refused => refused')
  BY <1>1, Zenon
<1> HIDE DEF up
<1>7. DescriptorsOwned'
  <2>1. CASE up
    <3>1. /\ sock' = [sock EXCEPT ![f] = Lowest] /\ state' = [state EXCEPT ![f] = "UP"]
          /\ open' = open \cup {Lowest} /\ Lowest \in FreeFd
      BY <1>2, <1>5, <2>1, LowestIsFree
    <3> QED
      BY <1>0, <1>3, <3>1, OpensDescriptor
  <2>2. CASE ~up
    <3>1. /\ sock' = [sock EXCEPT ![f] = NoFd] /\ state' = [state EXCEPT ![f] = "DOWN"]
          /\ open' = open
      BY <1>5, <2>2
    <3>2. open \ {sock[f]} = open
      BY <1>3, Nulls DEF IInv, TypeOK
    <3> QED
      BY <1>0, <3>1, <3>2, ClosesDescriptor
  <2> QED
    BY <2>1, <2>2
<1>8. TypeOK'
  <2>1. CASE up
    BY <1>0, <1>2, <1>4, <1>5, <1>6, <2>1, LowestIsFree DEF IInv, TypeOK
  <2>2. CASE ~up
    BY <1>0, <1>4, <1>5, <1>6, <2>2 DEF IInv, TypeOK
  <2> QED
    BY <2>1, <2>2
<1>9. state'[f] = (IF up THEN "UP" ELSE "DOWN") /\ \A g \in Face \ {f} : state'[g] = state[g]
  BY <1>0, <1>5 DEF IInv, TypeOK
<1>10. EventsOwned'
  <2> SUFFICES ASSUME NEW g \in Face
               PROVE  /\ Owns(g, queue', event')
                      /\ event'[g] # NoSlot => g \in live' /\ state'[g] = "UP"
    BY DEF EventsOwned, Owns
  <2>1. CASE g = f
    BY <1>4, <1>9, <2>1
  <2>2. CASE g # f
    BY <1>4, <1>9, <2>2 DEF IInv, EventsOwned, Owns
  <2> QED
    BY <2>1, <2>2
<1>11. TableMatches'
  BY <1>0, <1>9, Kinds DEF IInv, TableMatches
<1> QED
  BY <1>4, <1>6, <1>7, <1>8, <1>9, <1>10, <1>11 DEF IInv

\* ndn_unix_face_down: of a slave with the end of its life, of another face
\* with or without it.  q is the queue before the cancel.
LEMMA TakeDownKeeps ==
  ASSUME IInv, NEW f \in Face, NEW q, NEW ev, TakeDown(f, q, ev),
         WellFormed(queue'),
         \A g \in Face : Pending(queue', g) = IF g = f THEN {} ELSE Pending(queue, g),
         live' \in {live, live \ {f}}, f \in Slave => f \notin live',
         registered' = live', UNCHANGED <<files, refused>>
  PROVE  /\ IInv' /\ state'[f] = "DOWN"
         /\ \A g \in Face \ {f} : event'[g] = event[g] /\ state'[g] = state[g]
<1>1. \A g \in Face : /\ state'[g] = IF g = f THEN "DOWN" ELSE state[g]
                      /\ event'[g] = IF g = f THEN NoSlot ELSE event[g]
  BY DEF IInv, TypeOK, TakeDown
<1>2. DescriptorsOwned'
  BY ClosesDescriptor DEF TakeDown
<1>3. TypeOK'
  BY DEF IInv, TypeOK, TakeDown
<1>4. EventsOwned'
  BY <1>1 DEF IInv, EventsOwned
<1>5. TableMatches'
  BY <1>1, Kinds DEF IInv, TableMatches
<1> QED
  BY <1>1, <1>2, <1>3, <1>4, <1>5 DEF IInv

\* The cancel of a face's own event.
LEMMA CancelQueue ==
  ASSUME IInv, NEW f \in Face
  PROVE  /\ WellFormed(Cancel(queue, event[f]))
         /\ \A g \in Face : Pending(Cancel(queue, event[f]), g) =
                              IF g = f THEN {} ELSE Pending(queue, g)
<1>1. WellFormed(queue) /\ event[f] \in Slots \cup {NoSlot}
  BY DEF IInv, TypeOK
<1>2. /\ WellFormed(Cancel(queue, event[f]))
      /\ \A g \in Face : Pending(Cancel(queue, event[f]), g) = Pending(queue, g) \ {event[f]}
  BY <1>1, CancelInQueue, Senders
<1>3. Pending(queue, f) \subseteq {event[f]}
  BY DEF IInv, EventsOwned
<1>4. ASSUME NEW g \in Face \ {f} PROVE event[f] \notin Pending(queue, g)
  <2>1. CASE event[f] = NoSlot
    BY <2>1, Nulls DEF Pending
  <2>2. CASE event[f] # NoSlot
    <3>1. event[f] \in Pending(queue, f)
      BY <2>2 DEF IInv, EventsOwned
    <3> QED
      BY <3>1 DEF Pending
  <2> QED
    BY <2>1, <2>2
<1> QED
  BY <1>2, <1>3, <1>4

\* ndn_face_down and ndn_face_destroy by the application.
LEMMA AppDownKeeps ==
  ASSUME IInv, NEW f \in Face, FaceDown(f) \/ FaceDestroy(f)
  PROVE  /\ IInv' /\ state'[f] = "DOWN"
         /\ \A g \in Face \ {f} : event'[g] = event[g] /\ state'[g] = state[g]
<1>1. TakeDown(f, queue, event[f]) /\ f \notin Slave /\ UNCHANGED <<files, refused>>
  BY Kinds DEF FaceDown, FaceDestroy
<1>2. live' \in {live, live \ {f}} /\ registered' = live'
  BY DEF FaceDown, FaceDestroy, IInv, TableMatches
<1>3. queue' = Cancel(queue, event[f])
  BY <1>1 DEF TakeDown
<1> QED
  BY <1>1, <1>2, <1>3, CancelQueue, TakeDownKeeps

\* A handler that takes its face down: the end of a connection, or an accept
\* that has no descriptor left.
LEMMA HandlerDownKeeps ==
  ASSUME IInv, NEW f \in Face, RecvEnds(f) \/ AcceptFails(f)
  PROVE  /\ IInv' /\ state'[f] = "DOWN"
         /\ \A g \in Face \ {f} : event'[g] = event[g] /\ state'[g] = state[g]
<1>1. /\ TakeDown(f, Pop(queue), NoSlot) /\ Front(queue) = f
      /\ UNCHANGED <<files, refused>>
  BY DEF RecvEnds, AcceptFails, Running
<1>2. queue' = Pop(queue)
  BY <1>1 DEF TakeDown, Cancel
<1>3. /\ WellFormed(queue')
      /\ \A g \in Face : Pending(queue', g) = IF g = f THEN {} ELSE Pending(queue, g)
  BY <1>1, <1>2, DispatchQueue, Senders
<1>4. /\ live' \in {live, live \ {f}} /\ registered' = live'
      /\ f \in Slave => f \notin live'
  <2>1. CASE RecvEnds(f)
    <3>1. live' = live \ ({f} \cap Slave) /\ registered' = live'
      BY <2>1 DEF RecvEnds, IInv, TableMatches
    <3>2. {f} \cap Slave = {} \/ {f} \cap Slave = {f}
      OBVIOUS
    <3> QED
      BY <3>1, <3>2
  <2>2. CASE AcceptFails(f)
    BY <2>2, Kinds DEF AcceptFails, IInv, TableMatches
  <2> QED
    BY <2>1, <2>2
<1> QED
  BY <1>1, <1>3, <1>4, TakeDownKeeps

\* A handler that only reposts, after a post by the application or none.
LEMMA RepostKeeps ==
  ASSUME IInv, NEW f \in Face, Front(queue) = f,
         NEW q, WellFormed(q),
         \A g \in Face : Pending(q, g) = Pending(Pop(queue), g),
         NEW met \in BOOLEAN, Repost(f, q, event, met),
         UNCHANGED <<live, registered, state, sock, open, files, gone>>,
         backlog' \subseteq Server
  PROVE  /\ IInv'
         /\ refused \/ event'[f] = NoSlot => refused'
         /\ \A g \in Face \ {f} : event'[g] = event[g]
<1>1. /\ f \in live /\ state[f] = "UP"
      /\ \A g \in Face : Pending(q, g) = IF g = f THEN {} ELSE Pending(queue, g)
  BY DispatchQueue, Senders
<1>2. event \in [Face -> Slots \cup {NoSlot}]
  BY DEF IInv, TypeOK
<1>3. /\ WellFormed(queue') /\ event' \in [Face -> Slots \cup {NoSlot}]
      /\ refused' \in BOOLEAN
      /\ refused \/ met \/ event'[f] = NoSlot => refused'
      /\ Owns(f, queue', event')
      /\ \A g \in Face \ {f} : event'[g] = event[g] /\ Pending(queue', g) = Pending(q, g)
  BY <1>1, <1>2, RepostQueue
<1>4. TypeOK'
  BY <1>3 DEF IInv, TypeOK
<1>5. EventsOwned'
  BY <1>1, <1>3 DEF IInv, EventsOwned, Owns
<1>6. DescriptorsOwned'
  BY DEF IInv, DescriptorsOwned
<1>7. TableMatches'
  BY DEF IInv, TableMatches
<1> QED
  BY <1>3, <1>4, <1>5, <1>6, <1>7 DEF IInv

\* A receive with bytes or EWOULDBLOCK, an accept without a connection, an
\* accept that drops the connection.
LEMMA HandlerGoesOnKeeps ==
  ASSUME IInv, NEW f \in Face,
         \/ RecvGoesOn(f) \/ AcceptNothing(f)
         \/ Running(f) /\ AcceptDrops(f) /\ backlog' \subseteq Server
            /\ UNCHANGED <<files, gone>>
  PROVE  /\ IInv'
         /\ UNCHANGED <<live, state>>
         /\ refused \/ event'[f] = NoSlot => refused'
         /\ \A g \in Face \ {f} : event'[g] = event[g]
<1>1. /\ Front(queue) = f /\ backlog' \subseteq Server
      /\ UNCHANGED <<live, registered, state, sock, open, files, gone>>
  BY DEF RecvGoesOn, AcceptNothing, AcceptDrops, Running, IInv, TypeOK
<1>2. WellFormed(Pop(queue))
  BY <1>1, DispatchQueue, Senders
<1>3. CASE Repost(f, Pop(queue), event, FALSE)
  BY <1>1, <1>2, <1>3, RepostKeeps
<1>4. ASSUME NEW ok \in PostOutcomes(Pop(queue)),
             Repost(f, PostIf(Pop(queue), ok, App), event, ~ok)
      PROVE  /\ IInv'
             /\ refused \/ event'[f] = NoSlot => refused'
             /\ \A g \in Face \ {f} : event'[g] = event[g]
  <2>1. /\ ok \in BOOLEAN /\ WellFormed(PostIf(Pop(queue), ok, App))
        /\ \A g \in Face : Pending(PostIf(Pop(queue), ok, App), g) = Pending(Pop(queue), g)
    BY <1>2, AppPostQueue
  <2> DEFINE q == PostIf(Pop(queue), ok, App)
             met == ~ok
  <2>2. Repost(f, q, event, met) /\ met \in BOOLEAN
    BY <1>4
  <2> HIDE DEF q, met
  <2>3. WellFormed(q) /\ \A g \in Face : Pending(q, g) = Pending(Pop(queue), g)
    BY <2>1 DEF q
  <2> QED
    BY <1>1, <2>2, <2>3, RepostKeeps
<1>5. \/ Repost(f, Pop(queue), event, FALSE)
      \/ \E ok \in PostOutcomes(Pop(queue)) : Repost(f, PostIf(Pop(queue), ok, App), event, ~ok)
  BY DEF RecvGoesOn, AcceptNothing, AcceptDrops
<1> QED
  BY <1>1, <1>3, <1>4, <1>5

\* A connection becomes a slave face, or is dropped because its first receive
\* could not be posted; the server reposts either way.
LEMMA AcceptSlaveKeeps ==
  ASSUME IInv, NEW f \in Server, NEW s \in Slave \ live, Front(queue) = f,
         FreeFd # {}, AcceptSlave(f, s), backlog' \subseteq Server,
         UNCHANGED <<files, gone>>
  PROVE  /\ IInv'
         /\ \/ /\ live' = live \cup {s}
               /\ state' = [state EXCEPT ![s] = "UP"] /\ event'[s] # NoSlot
            \/ /\ live' = live
               /\ state' = [state EXCEPT ![s] = "DOWN"] /\ event'[s] = NoSlot
         /\ refused \/ event'[f] = NoSlot => refused'
         /\ \A g \in Face \ {f, s} : event'[g] = event[g]
<1>0. f \in Face /\ s \in Face /\ f # s /\ f \notin Slave /\ s \in Slave
  BY Kinds
<1> DEFINE q == Pop(queue)
<1>1. PICK ok \in PostOutcomes(q) :
        /\ live' = IF ok THEN live \cup {s} ELSE live
        /\ registered' = IF ok THEN registered \cup {s} ELSE registered
        /\ state' = [state EXCEPT ![s] = IF ok THEN "UP" ELSE "DOWN"]
        /\ sock' = [sock EXCEPT ![s] = IF ok THEN Lowest ELSE NoFd]
        /\ open' = IF ok THEN open \cup {Lowest} ELSE open
        /\ Repost(f, PostIf(q, ok, s), [event EXCEPT ![s] = PostedAt(q, ok)], ~ok)
  BY DEF AcceptSlave
<1>2. /\ WellFormed(q) /\ f \in live /\ state[f] = "UP"
      /\ \A g \in Face : Pending(q, g) = IF g = f THEN {} ELSE Pending(queue, g)
  BY <1>0, DispatchQueue, Senders
<1>3. ok \in BOOLEAN /\ (ok => q.len < QueueCap)
  BY <1>1, <1>2, PostOutcome
<1>4. s \notin live /\ sock[s] = NoFd /\ event[s] = NoSlot /\ Pending(q, s) = {}
  BY <1>0, <1>2 DEF IInv, DescriptorsOwned, EventsOwned
<1> DEFINE at == PostedAt(q, ok)
           p  == PostIf(q, ok, s)
           ev == [event EXCEPT ![s] = at]
<1> HIDE DEF q
<1>5. /\ WellFormed(p) /\ at \in Slots \cup {NoSlot} /\ (at = NoSlot <=> ~ok)
      /\ \A g \in Face : Pending(p, g) =
           IF g # s THEN Pending(q, g) ELSE IF at = NoSlot THEN {} ELSE {at}
  BY <1>0, <1>2, <1>3, <1>4, FacePost
<1>6. /\ ev \in [Face -> Slots \cup {NoSlot}]
      /\ \A g \in Face : ev[g] = IF g = s THEN at ELSE event[g]
  <2> HIDE DEF at
  <2> QED
    BY <1>5 DEF IInv, TypeOK
<1>7. /\ WellFormed(queue') /\ event' \in [Face -> Slots \cup {NoSlot}]
      /\ refused' \in BOOLEAN
      /\ refused \/ ~ok \/ event'[f] = NoSlot => refused'
      /\ Owns(f, queue', event')
      /\ \A g \in Face \ {f} : event'[g] = ev[g] /\ Pending(queue', g) = Pending(p, g)
  <2> DEFINE met == ~ok
  <2>1. Repost(f, p, ev, met) /\ met \in BOOLEAN
    BY <1>1
  <2>2. Pending(p, f) = {}
    BY <1>0, <1>2, <1>5
  <2>3. met <=> ~ok
    OBVIOUS
  <2> HIDE DEF met, p, ev
  <2> QED
    BY <1>0, <1>5, <1>6, <2>1, <2>2, <2>3, RepostQueue
<1> HIDE DEF at, p, ev
<1>8. \A g \in Face : state'[g] = IF g = s THEN (IF ok THEN "UP" ELSE "DOWN") ELSE state[g]
  BY <1>0, <1>1 DEF IInv, TypeOK
<1>9. TypeOK'
  <2>1. CASE ok
    BY <1>0, <1>1, <1>7, <2>1, LowestIsFree DEF IInv, TypeOK
  <2>2. CASE ~ok
    BY <1>0, <1>1, <1>7, <2>2 DEF IInv, TypeOK
  <2> QED
    BY <2>1, <2>2
<1>10. DescriptorsOwned'
  <2>1. CASE ok
    <3>1. /\ sock' = [sock EXCEPT ![s] = Lowest] /\ state' = [state EXCEPT ![s] = "UP"]
          /\ open' = open \cup {Lowest} /\ Lowest \in FreeFd /\ live' = live \cup {s}
      BY <1>1, <2>1, LowestIsFree
    <3> QED
      BY <1>0, <1>4, <3>1, OpensDescriptor
  <2>2. CASE ~ok
    <3>1. /\ sock' = [sock EXCEPT ![s] = NoFd] /\ state' = [state EXCEPT ![s] = "DOWN"]
          /\ open' = open /\ live' = live
      BY <1>1, <2>2
    <3>2. open \ {sock[s]} = open
      BY <1>4, Nulls DEF IInv, TypeOK
    <3> QED
      BY <1>0, <3>1, <3>2, ClosesDescriptor
  <2> QED
    BY <2>1, <2>2
<1>11. EventsOwned'
  <2> SUFFICES ASSUME NEW g \in Face
               PROVE  /\ Owns(g, queue', event')
                      /\ event'[g] # NoSlot => g \in live' /\ state'[g] = "UP"
    BY DEF EventsOwned, Owns
  <2>0. live \subseteq live' /\ (ok => s \in live')
    BY <1>1
  <2>1. CASE g = f
    BY <1>0, <1>2, <1>7, <1>8, <2>0, <2>1
  <2>2. CASE g = s
    BY <1>0, <1>5, <1>6, <1>7, <1>8, <2>0, <2>2 DEF Owns
  <2>3. CASE g # f /\ g # s
    BY <1>2, <1>5, <1>6, <1>7, <1>8, <2>0, <2>3 DEF IInv, EventsOwned, Owns
  <2> QED
    BY <2>1, <2>2, <2>3
<1>12. TableMatches'
  <2>1. registered = live /\ \A t \in live \cap Slave : state[t] = "UP" /\ t \in Face
    BY Kinds DEF IInv, TableMatches
  <2>2. registered' = live'
    BY <1>1, <2>1
  <2>3. \A t \in live' \cap Slave : state'[t] = "UP"
    <3>1. CASE ok
      BY <1>0, <1>1, <1>8, <2>1, <3>1
    <3>2. CASE ~ok
      BY <1>0, <1>1, <1>4, <1>8, <2>1, <3>2
    <3> QED
      BY <3>1, <3>2
  <2> QED
    BY <2>2, <2>3 DEF TableMatches
<1>13. /\ IInv'
       /\ refused \/ event'[f] = NoSlot => refused'
       /\ \A g \in Face \ {f, s} : event'[g] = event[g]
  BY <1>6, <1>7, <1>9, <1>10, <1>11, <1>12 DEF IInv
<1>14. event'[s] = at
  BY <1>0, <1>6, <1>7
<1>15. CASE ok
  BY <1>1, <1>5, <1>13, <1>14, <1>15
<1>16. CASE ~ok
  BY <1>1, <1>5, <1>13, <1>14, <1>16
<1> QED
  BY <1>15, <1>16

\* The dispatch of a message of no face, and the posts of the application.
LEMMA QueueOnlyKeeps ==
  ASSUME IInv, WellFormed(queue'), refused' \in BOOLEAN,
         \A g \in Face : Pending(queue', g) = Pending(queue, g),
         UNCHANGED <<faces, open, files, gone, backlog>>
  PROVE  IInv'
BY DEF IInv, TypeOK, DescriptorsOwned, EventsOwned, TableMatches, faces

\* The dispatch of a cancelled message, and of one of the application.
LEMMA OtherDispatch ==
  ASSUME IInv, DropCancelled \/ RunApp
  PROVE  /\ IInv' /\ UNCHANGED faces /\ (refused => refused')
<1>1. Front(queue) \in {App, Cancelled} /\ UNCHANGED <<faces, open, files, gone, backlog>>
  BY DEF DropCancelled, RunApp
<1>2. Front(queue) # Empty /\ \A g \in Face : Front(queue) # g
  BY <1>1, Senders DEF Empty, Cancelled
<1>3. /\ WellFormed(Pop(queue))
      /\ \A g \in Face : Pending(Pop(queue), g) = Pending(queue, g)
  BY <1>2, DispatchQueue
<1>4. \/ queue' = Pop(queue) /\ refused' = refused
      \/ \E ok \in PostOutcomes(Pop(queue)) :
           queue' = PostIf(Pop(queue), ok, App) /\ refused' = (refused \/ ~ok)
  BY DEF DropCancelled, RunApp
<1>5. WellFormed(queue') /\ \A g \in Face : Pending(queue', g) = Pending(queue, g)
  BY <1>3, <1>4, AppPostQueue
<1>6. refused \in BOOLEAN
  BY DEF IInv, TypeOK
<1>7. refused' \in BOOLEAN /\ (refused => refused')
  <2>1. CASE refused' = refused
    BY <1>6, <2>1
  <2>2. ASSUME NEW ok, refused' = (refused \/ ~ok)
        PROVE  refused' \in BOOLEAN /\ (refused => refused')
    BY <2>2, Zenon
  <2> QED
    BY <1>4, <2>1, <2>2
<1> QED
  BY <1>1, <1>5, <1>7, QueueOnlyKeeps

\* A post by the application.
LEMMA AppPostKeeps ==
  ASSUME IInv, AppPost
  PROVE  /\ IInv' /\ UNCHANGED faces /\ (refused => refused')
<1>1. PICK ok \in PostOutcomes(queue) :
        queue' = PostIf(queue, ok, App) /\ refused' = (refused \/ ~ok)
  BY DEF AppPost
<1>2. WellFormed(queue') /\ \A g \in Face : Pending(queue', g) = Pending(queue, g)
  BY <1>1, AppPostQueue DEF IInv, TypeOK
<1>3. refused' \in BOOLEAN /\ (refused => refused')
  BY <1>1, Zenon
<1> QED
  BY <1>2, <1>3, QueueOnlyKeeps DEF AppPost

\* Files opened and closed by other code, and the peers.
LEMMA OthersKeep ==
  ASSUME IInv, OpenFile \/ CloseFile \/ PeerConnects \/ PeerLeaves
  PROVE  IInv' /\ UNCHANGED <<faces, refused>>
<1>1. UNCHANGED <<faces, queue, refused>>
  BY DEF OpenFile, CloseFile, PeerConnects, PeerLeaves
<1>2. EventsOwned' /\ TableMatches'
  BY <1>1 DEF IInv, EventsOwned, TableMatches, faces
<1>3. CASE OpenFile
  <2>1. /\ open' = open \cup {Lowest} /\ files' = files \cup {Lowest}
        /\ Lowest \in Fd /\ Lowest \notin open /\ UNCHANGED <<gone, backlog>>
    BY <1>3, LowestIsFree DEF OpenFile
  <2>2. \A g \in Face : sock[g] # NoFd => sock[g] \in open
    BY DEF IInv, DescriptorsOwned
  <2>3. DescriptorsOwned'
    BY <1>1, <2>1, <2>2 DEF IInv, DescriptorsOwned, faces
  <2>4. TypeOK'
    BY <1>1, <2>1 DEF IInv, TypeOK, faces
  <2> QED
    BY <1>1, <1>2, <2>3, <2>4 DEF IInv
<1>4. CASE CloseFile
  <2>1. PICK d \in files : open' = open \ {d} /\ files' = files \ {d}
    BY <1>4 DEF CloseFile
  <2>2. UNCHANGED <<gone, backlog>>
    BY <1>4 DEF CloseFile
  <2>3. DescriptorsOwned'
    BY <1>1, <2>1 DEF IInv, DescriptorsOwned, faces
  <2>4. TypeOK'
    BY <1>1, <2>1, <2>2 DEF IInv, TypeOK, faces
  <2> QED
    BY <1>1, <1>2, <2>3, <2>4 DEF IInv
<1>5. CASE PeerConnects \/ PeerLeaves
  <2>1. UNCHANGED <<open, files>>
    BY <1>5 DEF PeerConnects, PeerLeaves
  <2>2. DescriptorsOwned'
    BY <1>1, <2>1 DEF IInv, DescriptorsOwned, faces
  <2>3. backlog' \subseteq Server /\ gone' \subseteq Fd
    <3>1. CASE PeerConnects
      BY <3>1 DEF PeerConnects, IInv, TypeOK
    <3>2. CASE PeerLeaves
      <4>1. PICK f \in live \ Server : state[f] = "UP" /\ gone' = gone \cup {sock[f]}
        BY <3>2 DEF PeerLeaves
      <4>2. sock[f] \in Fd
        BY <4>1 DEF IInv, TypeOK, DescriptorsOwned
      <4> QED
        BY <3>2, <4>1, <4>2 DEF PeerLeaves, IInv, TypeOK
    <3> QED
      BY <1>5, <3>1, <3>2
  <2>4. TypeOK'
    BY <1>1, <2>1, <2>3 DEF IInv, TypeOK, faces
  <2> QED
    BY <1>1, <1>2, <2>2, <2>4 DEF IInv
<1> QED
  BY <1>3, <1>4, <1>5

\* accept() returns a connection.
LEMMA AcceptKeeps ==
  ASSUME IInv, NEW f \in Face, Accept(f)
  PROVE  IInv'
<1>1. /\ Front(queue) = f /\ f \in Server /\ FreeFd # {} /\ backlog' \subseteq Server
      /\ UNCHANGED <<files, gone>>
  BY DEF Accept, Running, IInv, TypeOK
<1>2. CASE \E s \in Slave \ live : AcceptSlave(f, s)
  BY <1>1, <1>2, AcceptSlaveKeeps
<1>3. CASE AcceptDrops(f)
  BY <1>1, <1>3, HandlerGoesOnKeeps DEF Running
<1> QED
  BY <1>2, <1>3 DEF Accept

\* Init establishes the invariant.
LEMMA InitInvariant == Init => IInv
<1> SUFFICES ASSUME Init PROVE IInv
  OBVIOUS
<1>1. WellFormed(queue) /\ \A f \in Face : Pending(queue, f) = {}
  BY EmptyQueueWellFormed, Senders DEF Init
<1>2. TypeOK
  <2>1. refused \in BOOLEAN
    BY Zenon DEF Init
  <2> QED
    BY <1>1, <2>1 DEF Init, TypeOK
<1>3. EventsOwned
  BY <1>1 DEF Init, EventsOwned
<1>4. DescriptorsOwned /\ TableMatches
  BY DEF Init, DescriptorsOwned, TableMatches
<1> QED
  BY <1>2, <1>3, <1>4 DEF IInv

\* Every step keeps the invariant.
LEMMA NextInvariant == IInv /\ [Next]_vars => IInv'
<1> SUFFICES ASSUME IInv, [Next]_vars PROVE IInv'
  OBVIOUS
<1>1. CASE UNCHANGED vars
  BY <1>1 DEF IInv, TypeOK, DescriptorsOwned, EventsOwned, TableMatches, vars, faces
<1>2. ASSUME NEW f \in Face, Construct(f)
      PROVE  IInv'
  BY <1>2, BringUpKeeps DEF Construct
<1>3. ASSUME NEW f \in Face, FaceUp(f)
      PROVE  IInv'
  <2>1. live' = live \cup {f} /\ registered' = registered \cup {f}
    BY <1>3 DEF FaceUp, IInv, TableMatches
  <2> QED
    BY <1>3, <2>1, BringUpKeeps DEF FaceUp
<1>4. ASSUME NEW f \in Face, FaceDown(f) \/ FaceDestroy(f)
      PROVE  IInv'
  BY <1>4, AppDownKeeps
<1>5. ASSUME NEW f \in Face,
             RecvGoesOn(f) \/ RecvEnds(f) \/ AcceptNothing(f) \/ AcceptFails(f) \/ Accept(f)
      PROVE  IInv'
  BY <1>5, HandlerGoesOnKeeps, HandlerDownKeeps, AcceptKeeps
<1>6. CASE DropCancelled \/ RunApp \/ AppPost
  BY <1>6, OtherDispatch, AppPostKeeps
<1>7. CASE OpenFile \/ CloseFile \/ PeerConnects \/ PeerLeaves
  BY <1>7, OthersKeep
<1> QED
  BY <1>1, <1>2, <1>3, <1>4, <1>5, <1>6, <1>7 DEF Next, Dispatch, Application

\* The invariant holds of every behaviour of the process.
THEOREM InvariantHolds == Spec => []IInv
<1> QED  BY InitInvariant, NextInvariant, PTL DEF Spec

\* Type correctness, with the queue well formed.
THEOREM TypeCorrect == Spec => []TypeOK
<1>1. IInv => TypeOK
  BY DEF IInv
<1> QED  BY <1>1, InvariantHolds, PTL

\* Every descriptor has one owner: none is leaked, shared or used after close.
THEOREM DescriptorsAreOwned == Spec => []DescriptorsOwned
<1>1. IInv => DescriptorsOwned
  BY DEF IInv
<1> QED  BY <1>1, InvariantHolds, PTL

\* process_event is the face's own message, and its only one.
THEOREM EventsAreOwned == Spec => []EventsOwned
<1>1. IInv => EventsOwned
  BY DEF IInv
<1> QED  BY <1>1, InvariantHolds, PTL

\* The face table holds the faces that exist.
THEOREM TableIsRight == Spec => []TableMatches
<1>1. IInv => TableMatches
  BY DEF IInv
<1> QED  BY <1>1, InvariantHolds, PTL

-----------------------------------------------------------------------------
(* The faces keep the contract of FaceContract. *)

statuses == [f \in Face |-> Status(f)]

\* While process_event owns the message, a face listens when it is not NULL.
LEMMA StatusCases ==
  ASSUME IInv, NEW f \in Face
  PROVE  /\ f \notin live => Status(f) = "none"
         /\ f \in live /\ state[f] = "DOWN" => Status(f) = "down"
         /\ f \in live /\ state[f] = "UP" /\ event[f] # NoSlot => Status(f) = "listening"
         /\ f \in live /\ state[f] = "UP" /\ event[f] = NoSlot => Status(f) = "deaf"
         /\ f \in live => state[f] \in {"UP", "DOWN"}
<1>1. Pending(queue, f) # {} <=> event[f] # NoSlot
  BY DEF IInv, EventsOwned
<1>2. f \in live => state[f] \in {"UP", "DOWN"}
  BY DEF IInv, TypeOK
<1> QED
  BY <1>1, <1>2, Zenon DEF Status

\* The same after a step.
LEMMA StatusCasesNext ==
  ASSUME IInv', NEW f \in Face
  PROVE  /\ f \notin live' => Status(f)' = "none"
         /\ f \in live' /\ state'[f] = "DOWN" => Status(f)' = "down"
         /\ f \in live' /\ state'[f] = "UP" /\ event'[f] # NoSlot => Status(f)' = "listening"
         /\ f \in live' /\ state'[f] = "UP" /\ event'[f] = NoSlot => Status(f)' = "deaf"
<1>1. Pending(queue', f) # {} <=> event'[f] # NoSlot
  BY DEF IInv, EventsOwned
<1> QED
  BY <1>1, Zenon DEF Status

\* A face whose marks stay keeps its status.
LEMMA StatusKept ==
  ASSUME IInv, IInv', NEW f \in Face, f \in live' <=> f \in live,
         state'[f] = state[f], event'[f] = event[f]
  PROVE  Status(f)' = Status(f)
BY StatusCases, StatusCasesNext

\* A step of one face alone is a step of the abstract statuses.
LEMMA BecomesStatus ==
  ASSUME NEW f \in Face, NEW s, Status(f)' = s,
         \A g \in Face \ {f} : Status(g)' = Status(g)
  PROVE  Contract!Becomes(f, s)
<1>1. \A g \in Face : Status(g)' = IF g = f THEN s ELSE Status(g)
  OBVIOUS
<1>2. statuses' = [statuses EXCEPT ![f] = s]
  BY <1>1 DEF statuses
<1> QED
  BY <1>2 DEF statuses, Contract!Becomes

\* A step in which no status changes, as the contract sees it.
LEMMA Stutters ==
  ASSUME \A f \in Face : Status(f)' = Status(f), refused => refused'
  PROVE  Contract!Next
<1>1. statuses' = statuses
  BY DEF statuses
<1> QED
  BY <1>1 DEF statuses, Contract!Next

\* A step of one face, as the contract sees it.
LEMMA OneFaceSteps ==
  ASSUME NEW f \in Face, refused => refused',
         \/ Contract!Construct(f) \/ Contract!Up(f) \/ Contract!Down(f)
         \/ Contract!Destroy(f) \/ Contract!Deafen(f)
  PROVE  Contract!Next
BY DEF Contract!Next

\* The face of a call of ndn_face_up comes to listen or stays down.
LEMMA BringUpStatus ==
  ASSUME IInv, NEW f \in Client \cup Server, Construct(f) \/ FaceUp(f)
  PROVE  /\ Status(f)' \in {"listening", "down"} /\ (refused => refused')
         /\ \A g \in Face \ {f} : Status(g)' = Status(g)
<1>0. f \in Face
  BY DEF Face
<1>1. /\ IInv' /\ (refused => refused')
      /\ state'[f] = "UP" => event'[f] # NoSlot
      /\ \A g \in Face \ {f} : event'[g] = event[g] /\ state'[g] = state[g]
      /\ live' = live \cup {f}
  <2>1. PICK ok \in BOOLEAN : BringUp(f, ok)
    BY DEF Construct, FaceUp
  <2>2. /\ f \notin live \/ state[f] = "DOWN"
        /\ live' = live \cup {f} /\ registered' = registered \cup {f}
        /\ UNCHANGED <<files, gone, backlog>>
    BY DEF Construct, FaceUp, IInv, TableMatches
  <2> QED
    BY <2>1, <2>2, BringUpKeeps
<1>2. state'[f] \in {"UP", "DOWN"}
  BY <1>0, <1>1 DEF IInv, TypeOK
<1> QED
  BY <1>0, <1>1, <1>2, StatusCasesNext, StatusKept

\* A handler that goes on leaves its face listening, or deaf with a post
\* refused.
LEMMA GoesOnStatus ==
  ASSUME IInv, NEW f \in Face, Front(queue) = f, IInv', UNCHANGED <<live, state>>,
         refused \/ event'[f] = NoSlot => refused',
         \A g \in Face \ {f} : event'[g] = event[g]
  PROVE  Contract!Next
<1>1. Status(f) = "listening" /\ f \in live /\ state[f] = "UP"
  BY DispatchQueue, Senders, StatusCases
<1>2. \A g \in Face \ {f} : Status(g)' = Status(g)
  BY StatusKept
<1>3. CASE event'[f] # NoSlot
  <2>1. Status(f)' = "listening"
    BY <1>1, <1>3, StatusCasesNext
  <2> QED
    BY <1>1, <1>2, <2>1, Stutters
<1>4. CASE event'[f] = NoSlot
  <2>1. Status(f)' = "deaf"
    BY <1>1, <1>4, StatusCasesNext
  <2>2. Contract!Deafen(f)
    BY <1>1, <1>2, <1>4, <2>1, BecomesStatus DEF Contract!Deafen
  <2> QED
    BY <2>2, OneFaceSteps
<1> QED
  BY <1>3, <1>4

\* A server accepts a connection.
LEMMA AcceptStatus ==
  ASSUME IInv, NEW f \in Face, Accept(f)
  PROVE  Contract!Next
<1>1. /\ Front(queue) = f /\ f \in Server /\ FreeFd # {} /\ backlog' \subseteq Server
      /\ UNCHANGED <<files, gone>> /\ f \notin Slave
  BY Kinds DEF Accept, Running, IInv, TypeOK
<1>2. CASE AcceptDrops(f)
  BY <1>1, <1>2, HandlerGoesOnKeeps, GoesOnStatus DEF Running
<1>3. ASSUME NEW s \in Slave \ live, AcceptSlave(f, s)
      PROVE  Contract!Next
  <2>1. /\ IInv'
        /\ \/ /\ live' = live \cup {s}
              /\ state' = [state EXCEPT ![s] = "UP"] /\ event'[s] # NoSlot
           \/ /\ live' = live
              /\ state' = [state EXCEPT ![s] = "DOWN"] /\ event'[s] = NoSlot
        /\ refused \/ event'[f] = NoSlot => refused'
        /\ \A g \in Face \ {f, s} : event'[g] = event[g]
    BY <1>1, <1>3, AcceptSlaveKeeps
  <2>2. s \in Face /\ s \in Slave /\ s # f /\ s \notin live
    BY <1>1, Kinds
  <2>3. f \in live /\ state[f] = "UP" /\ Status(f) = "listening" /\ Status(s) = "none"
    BY <1>1, <2>2, DispatchQueue, Senders, StatusCases
  <2>4. /\ \A g \in Face \ {s} : state'[g] = state[g]
        /\ \A g \in Face \ {s} : g \in live' <=> g \in live
    BY <2>1 DEF IInv, TypeOK
  <2>5. \A g \in Face \ {f, s} : Status(g)' = Status(g)
    BY <2>1, <2>4, StatusKept
  <2>6. Status(f)' = IF event'[f] = NoSlot THEN "deaf" ELSE "listening"
    BY <2>1, <2>2, <2>3, <2>4, StatusCasesNext
  <2>7. CASE live' = live \cup {s}
    <3>1. state'[s] = "UP" /\ event'[s] # NoSlot
      BY <2>1, <2>2, <2>7 DEF IInv, TypeOK
    <3>2. Status(s)' = "listening"
      BY <2>1, <2>2, <2>7, <3>1, StatusCasesNext
    <3>3. CASE event'[f] # NoSlot
      <4>1. Contract!Becomes(s, "listening")
        BY <2>2, <2>3, <2>5, <2>6, <3>2, <3>3, BecomesStatus
      <4>2. Contract!Accept(f, s)
        BY <2>2, <2>3, <4>1 DEF Contract!Accept
      <4> QED
        BY <1>1, <2>1, <2>2, <4>2 DEF Contract!Next
    <3>4. CASE event'[f] = NoSlot
      <4>1. \A g \in Face : Status(g)' =
              IF g = f THEN "deaf" ELSE IF g = s THEN "listening" ELSE Status(g)
        BY <2>2, <2>5, <2>6, <3>2, <3>4
      <4>2. statuses' = [statuses EXCEPT ![s] = "listening", ![f] = "deaf"]
        BY <2>2, <4>1 DEF statuses
      <4>3. Contract!Accept(f, s)
        BY <2>1, <2>2, <2>3, <3>4, <4>2 DEF Contract!Accept, statuses
      <4> QED
        BY <1>1, <2>1, <2>2, <4>3 DEF Contract!Next
    <3> QED
      BY <3>3, <3>4
  <2>8. CASE live' = live
    <3>1. Status(s)' = "none"
      BY <2>1, <2>2, <2>8, StatusCasesNext
    <3>2. \A g \in Face \ {f} : Status(g)' = Status(g)
      BY <2>3, <2>5, <3>1
    <3>3. CASE event'[f] # NoSlot
      BY <2>1, <2>3, <2>6, <3>2, <3>3, Stutters
    <3>4. CASE event'[f] = NoSlot
      <4>1. Contract!Deafen(f)
        BY <2>1, <2>3, <2>6, <3>2, <3>4, BecomesStatus DEF Contract!Deafen
      <4> QED
        BY <2>1, <4>1, OneFaceSteps
    <3> QED
      BY <3>3, <3>4
  <2> QED
    BY <2>1, <2>7, <2>8
<1> QED
  BY <1>2, <1>3 DEF Accept

\* Every step of the process is a step of the contract.
LEMMA NextRefines == IInv /\ IInv' /\ Next => Contract!Next
<1> SUFFICES ASSUME IInv, IInv', Next PROVE Contract!Next
  OBVIOUS
<1>1. ASSUME NEW f \in Face, Construct(f)
      PROVE  Contract!Next
  <2>1. f \in Client \cup Server /\ f \notin live /\ f \notin Slave
    BY <1>1, Kinds DEF Construct
  <2>2. /\ Status(f)' \in {"listening", "down"} /\ (refused => refused')
        /\ \A g \in Face \ {f} : Status(g)' = Status(g)
    BY <1>1, <2>1, BringUpStatus
  <2>3. Status(f) = "none"
    BY <2>1, StatusCases
  <2>4. Contract!Becomes(f, "listening") \/ Contract!Becomes(f, "down")
    BY <2>2, BecomesStatus
  <2> QED
    BY <2>1, <2>2, <2>3, <2>4, OneFaceSteps DEF Contract!Construct
<1>2. ASSUME NEW f \in Face, FaceUp(f)
      PROVE  Contract!Next
  <2>1. f \in Client \cup Server /\ f \in live /\ state[f] = "DOWN"
    BY <1>2 DEF FaceUp
  <2>2. /\ Status(f)' \in {"listening", "down"} /\ (refused => refused')
        /\ \A g \in Face \ {f} : Status(g)' = Status(g)
    BY <1>2, <2>1, BringUpStatus
  <2>3. Status(f) = "down"
    BY <2>1, StatusCases
  <2>4. CASE Status(f)' = "listening"
    BY <2>2, <2>3, <2>4, BecomesStatus, OneFaceSteps DEF Contract!Up
  <2>5. CASE Status(f)' = "down"
    BY <2>2, <2>3, <2>5, Stutters
  <2> QED
    BY <2>2, <2>4, <2>5
<1>3. ASSUME NEW f \in Face, state'[f] = "DOWN", f \in live, refused' = refused,
             \A g \in Face \ {f} : event'[g] = event[g] /\ state'[g] = state[g],
             \/ live' = live /\ f \notin Slave
             \/ live' = live \ {f}
      PROVE  Contract!Next
  <2>1. \A g \in Face \ {f} : Status(g)' = Status(g)
    BY <1>3, StatusKept
  <2>2. Status(f) \in {"down", "listening", "deaf"}
    BY <1>3, StatusCases
  <2>3. CASE live' = live \ {f}
    <3>1. Status(f)' = "none"
      BY <2>3, StatusCasesNext
    <3> QED
      BY <1>3, <2>1, <2>2, <3>1, BecomesStatus, OneFaceSteps DEF Contract!Destroy
  <2>4. CASE live' = live /\ f \notin Slave
    <3>1. Status(f)' = "down"
      BY <1>3, <2>4, StatusCasesNext
    <3>2. CASE Status(f) = "down"
      BY <1>3, <2>1, <3>1, <3>2, Stutters
    <3>3. CASE Status(f) \in {"listening", "deaf"}
      BY <1>3, <2>1, <2>4, <3>1, <3>3, BecomesStatus, OneFaceSteps DEF Contract!Down
    <3> QED
      BY <2>2, <3>2, <3>3
  <2> QED
    BY <1>3, <2>3, <2>4
<1>4. ASSUME NEW f \in Face, FaceDown(f) \/ FaceDestroy(f)
      PROVE  Contract!Next
  <2>1. /\ state'[f] = "DOWN"
        /\ \A g \in Face \ {f} : event'[g] = event[g] /\ state'[g] = state[g]
    BY <1>4, AppDownKeeps
  <2>2. /\ f \in live /\ refused' = refused /\ f \notin Slave
        /\ live' = live \/ live' = live \ {f}
    BY <1>4, Kinds DEF FaceDown, FaceDestroy
  <2> QED
    BY <1>3, <2>1, <2>2
<1>5. ASSUME NEW f \in Face, RecvEnds(f) \/ AcceptFails(f)
      PROVE  Contract!Next
  <2>1. /\ state'[f] = "DOWN"
        /\ \A g \in Face \ {f} : event'[g] = event[g] /\ state'[g] = state[g]
    BY <1>5, HandlerDownKeeps
  <2>2. f \in live /\ refused' = refused
    BY <1>5, DispatchQueue, Senders DEF RecvEnds, AcceptFails, Running
  <2>3. \/ live' = live /\ f \notin Slave
        \/ live' = live \ {f}
    BY <1>5, Kinds DEF RecvEnds, AcceptFails
  <2> QED
    BY <1>3, <2>1, <2>2, <2>3
<1>6. ASSUME NEW f \in Face, RecvGoesOn(f) \/ AcceptNothing(f)
      PROVE  Contract!Next
  <2>1. Front(queue) = f
    BY <1>6 DEF RecvGoesOn, AcceptNothing, Running
  <2> QED
    BY <1>6, <2>1, HandlerGoesOnKeeps, GoesOnStatus
<1>7. ASSUME NEW f \in Face, Accept(f)
      PROVE  Contract!Next
  BY <1>7, AcceptStatus
<1>8. CASE DropCancelled \/ RunApp \/ AppPost \/ OpenFile \/ CloseFile
           \/ PeerConnects \/ PeerLeaves
  <2>1. UNCHANGED faces /\ (refused => refused')
    BY <1>8, OtherDispatch, AppPostKeeps, OthersKeep
  <2> QED
    BY <2>1, StatusKept, Stutters DEF faces
<1> QED
  BY <1>1, <1>2, <1>4, <1>5, <1>6, <1>7, <1>8 DEF Next, Dispatch, Application

\* The Unix-socket faces implement the contract of FaceContract: a face that
\* is up is read or accepts until it goes down, but for a post that the queue
\* has refused; only an accept touches a second face.
THEOREM ContractKept == Spec => KeepsContract
<1>1. Init => Contract!Init
  BY DEF Init, Contract!Init, Status
<1>2. IInv /\ IInv' /\ [Next]_vars => [Contract!Next]_(Contract!contract)
  <2>1. ASSUME UNCHANGED vars PROVE UNCHANGED Contract!contract
    BY <2>1 DEF vars, faces, Contract!contract, Status, Pending
  <2> QED
    BY <2>1, NextRefines
<1> QED
  BY <1>1, <1>2, InvariantHolds, PTL DEF Spec, KeepsContract, Contract!Spec
=============================================================================
