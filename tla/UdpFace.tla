------------------------------ MODULE UdpFace ------------------------------
(***************************************************************************)
(* The UDP faces of one process (adaptation/udp/udp-face.c).  Where the    *)
(* Unix face takes one recv() per dispatch, ndn_udp_face_recv loops until  *)
(* the socket is dry, and datagrams keep arriving meanwhile: each turn of  *)
(* the loop is a step.  The handler also leaves process_event as it is, a  *)
(* pointer to the slot that has just been dispatched, until its repost.    *)
(***************************************************************************)
EXTENDS Integers, FiniteSets, MsgQueue

CONSTANTS
  Face,      \* the UDP faces of the process
  App,       \* the rest of the application, as a sender of messages
  TableCap,  \* faces the forwarder's table holds
  SockBuf,   \* datagrams a socket buffers; the kernel drops the others
  MaxApp     \* bound: messages of the application in the queue

ASSUME UdpAssumption ==
  /\ Sender = Face \cup {App} /\ App \notin Face
  /\ IsFiniteSet(Face)
  /\ TableCap \in Nat /\ SockBuf \in Nat \ {0} /\ MaxApp \in Nat

VARIABLES
  live,      \* faces constructed and not destroyed: those in the face table
  state,     \* intf.state
  bound,     \* faces whose socket is open (sock # -1)
  event,     \* ptr->process_event: a slot, or NoSlot for NULL
  queue,     \* the message queue
  running,   \* the face whose receive is running, in a set of at most one
  inbox,     \* datagrams in each socket
  fault,     \* faces whose next recvfrom fails
  refused    \* history: a post has been refused by a full queue

vars == <<live, state, bound, event, queue, running, inbox, fault, refused>>

Init ==
  /\ live = {} /\ bound = {} /\ running = {} /\ fault = {}
  /\ state = [f \in Face |-> "DOWN"]
  /\ event = [f \in Face |-> NoSlot]
  /\ inbox = [f \in Face |-> 0]
  /\ queue = EmptyQueue
  /\ refused = FALSE

-----------------------------------------------------------------------------
(* Calls of the application, between two dispatches. *)

\* ndn_udp_face_up on a face that is DOWN.  ok: socket, fcntl, bind and the
\* multicast membership succeed; a failure goes through ndn_face_down.
BringUp(f, ok) ==
  \E posted \in PostOutcomes(queue) :
    LET up == ok /\ posted
    IN  /\ state' = [state EXCEPT ![f] = IF up THEN "UP" ELSE "DOWN"]
        /\ bound' = IF up THEN bound \cup {f} ELSE bound \ {f}
        /\ event' = [event EXCEPT ![f] = PostedAt(queue, up)]
        /\ queue' = PostIf(queue, up, f)
        /\ refused' = (refused \/ (ok /\ ~posted))

\* ndn_udp_face_construct: register, then up, whose result is dropped.
Construct(f) ==
  /\ running = {}
  /\ f \notin live /\ Cardinality(live) < TableCap
  /\ live' = live \cup {f}
  /\ \E ok \in BOOLEAN : BringUp(f, ok)
  /\ UNCHANGED <<running, inbox, fault>>

FaceUp(f) ==
  /\ running = {}
  /\ f \in live /\ state[f] = "DOWN"
  /\ \E ok \in BOOLEAN : BringUp(f, ok)
  /\ UNCHANGED <<live, running, inbox, fault>>

\* Mutant: the pending event is not cancelled.
TakeDownKeepsEvent(f) ==
  /\ state' = [state EXCEPT ![f] = "DOWN"]
  /\ bound' = bound \ {f}
  /\ queue' = queue
  /\ event' = [event EXCEPT ![f] = NoSlot]
  /\ inbox' = [inbox EXCEPT ![f] = 0]
  /\ fault' = fault \ {f}

\* Mutant: another pending message is cancelled with the face's own.
TakeDownCancelsNext(f) ==
  /\ state' = [state EXCEPT ![f] = "DOWN"]
  /\ bound' = bound \ {f}
  /\ queue' = IF event[f] = NoSlot THEN queue
              ELSE Cancel(queue, (event[f] + 1) % QueueCap)
  /\ event' = [event EXCEPT ![f] = NoSlot]
  /\ inbox' = [inbox EXCEPT ![f] = 0]
  /\ fault' = fault \ {f}

\* ndn_udp_face_down: closes the socket and cancels process_event.
TakeDown(f) ==
  /\ state' = [state EXCEPT ![f] = "DOWN"]
  /\ bound' = bound \ {f}
  /\ queue' = Cancel(queue, event[f])
  /\ event' = [event EXCEPT ![f] = NoSlot]
  /\ inbox' = [inbox EXCEPT ![f] = 0]
  /\ fault' = fault \ {f}

FaceDown(f) ==
  /\ running = {}
  /\ f \in live
  /\ TakeDown(f)
  /\ UNCHANGED <<live, running, refused>>

FaceDestroy(f) ==
  /\ running = {}
  /\ f \in live
  /\ live' = live \ {f}
  /\ TakeDown(f)
  /\ UNCHANGED <<running, refused>>

-----------------------------------------------------------------------------
(* ndn_udp_face_recv. *)

\* The dispatch takes the message off the queue; process_event stays.
RecvStart(f) ==
  /\ running = {}
  /\ Front(queue) = f
  /\ queue' = Pop(queue)
  /\ running' = {f}
  /\ UNCHANGED <<live, state, bound, event, inbox, fault, refused>>

\* recvfrom() returns a datagram.  The application it reaches may post.
RecvDatagram(f) ==
  /\ running = {f} /\ inbox[f] > 0
  /\ inbox' = [inbox EXCEPT ![f] = @ - 1]
  /\ \/ UNCHANGED <<queue, refused>>
     \/ /\ Cardinality(Pending(queue, App)) < MaxApp
        /\ \E ok \in PostOutcomes(queue) :
             /\ queue' = PostIf(queue, ok, App)
             /\ refused' = (refused \/ ~ok)
  /\ UNCHANGED <<live, state, bound, event, running, fault>>

\* Mutant: the loop goes on when the socket is dry.
RecvDrySpins(f) ==
  /\ running = {f} /\ inbox[f] = 0 /\ f \notin fault
  /\ UNCHANGED vars

\* Mutant: the face is not posted again.
RecvDryReturns(f) ==
  /\ running = {f} /\ inbox[f] = 0 /\ f \notin fault
  /\ running' = {}
  /\ event' = [event EXCEPT ![f] = NoSlot]
  /\ UNCHANGED <<live, state, bound, queue, inbox, fault, refused>>

\* Mutant: the message is stored without a look at the room left.
RecvDryBlindly(f) ==
  /\ running = {f} /\ inbox[f] = 0 /\ f \notin fault
  /\ running' = {}
  /\ queue' = Post(queue, f)
  /\ event' = [event EXCEPT ![f] = NextSlot(queue)]
  /\ UNCHANGED <<live, state, bound, inbox, fault, refused>>

\* EWOULDBLOCK or EAGAIN: the loop ends and the face reposts.
RecvDry(f) ==
  /\ running = {f} /\ inbox[f] = 0 /\ f \notin fault
  /\ running' = {}
  /\ \E ok \in PostOutcomes(queue) :
       /\ queue' = PostIf(queue, ok, f)
       /\ event' = [event EXCEPT ![f] = PostedAt(queue, ok)]
       /\ refused' = (refused \/ ~ok)
  /\ UNCHANGED <<live, state, bound, inbox, fault>>

\* Any other error: the face goes down, with the event it was run for still
\* in process_event.
RecvError(f) ==
  /\ running = {f} /\ f \in fault
  /\ running' = {}
  /\ TakeDown(f)
  /\ UNCHANGED <<live, refused>>

-----------------------------------------------------------------------------
(* The rest of the process, and the network. *)

DropCancelled ==
  /\ running = {}
  /\ Front(queue) = Cancelled
  /\ queue' = Pop(queue)
  /\ UNCHANGED <<live, state, bound, event, running, inbox, fault, refused>>

RunApp ==
  /\ running = {}
  /\ Front(queue) = App
  /\ queue' = Pop(queue)
  /\ UNCHANGED <<live, state, bound, event, running, inbox, fault, refused>>

AppPost ==
  /\ running = {}
  /\ Cardinality(Pending(queue, App)) < MaxApp
  /\ \E ok \in PostOutcomes(queue) :
       /\ queue' = PostIf(queue, ok, App)
       /\ refused' = (refused \/ ~ok)
  /\ UNCHANGED <<live, state, bound, event, running, inbox, fault>>

Arrive(f) ==
  /\ f \in bound /\ inbox[f] < SockBuf
  /\ inbox' = [inbox EXCEPT ![f] = @ + 1]
  /\ UNCHANGED <<live, state, bound, event, queue, running, fault, refused>>

Fault(f) ==
  /\ f \in bound \ fault
  /\ fault' = fault \cup {f}
  /\ UNCHANGED <<live, state, bound, event, queue, running, inbox, refused>>

Loop ==
  \/ \E f \in Face : RecvStart(f) \/ RecvDatagram(f) \/ RecvDry(f) \/ RecvError(f)
  \/ DropCancelled \/ RunApp

Next ==
  \/ Loop
  \/ \E f \in Face : Construct(f) \/ FaceUp(f) \/ FaceDown(f) \/ FaceDestroy(f)
  \/ AppPost
  \/ \E f \in Face : Arrive(f) \/ Fault(f)

Spec == Init /\ [][Next]_vars

\* The main loop calls ndn_forwarder_process for ever.
FairSpec == Spec /\ WF_vars(Loop)

-----------------------------------------------------------------------------
TypeOK ==
  /\ live \subseteq Face /\ bound \subseteq Face /\ fault \subseteq Face
  /\ state \in [Face -> {"UP", "DOWN"}]
  /\ event \in [Face -> Slots \cup {NoSlot}]
  /\ WellFormed(queue)
  /\ running = {} \/ \E f \in Face : running = {f}
  /\ inbox \in [Face -> 0 .. SockBuf]
  /\ refused \in BOOLEAN

\* A face has a message pending exactly when process_event says so, outside
\* its own receive; it is then up, on an open socket, and in the table.  During
\* its receive process_event is the slot behind the head, which is empty or
\* has gone to the application by then, never to a second face.
EventsOwned ==
  \A f \in Face :
    /\ Pending(queue, f) =
         IF f \in running \/ event[f] = NoSlot THEN {} ELSE {event[f]}
    /\ event[f] # NoSlot => f \in live
    /\ f \in running => /\ f \in bound /\ event[f] # NoSlot
                        /\ (event[f] + 1) % QueueCap = queue.head
                        /\ queue.ring[event[f]] \in {Empty, App}
    /\ event[f] # NoSlot => state[f] = "UP"
    /\ f \in bound <=> state[f] = "UP"

\* What each face is to the programs over it: it listens while its receive
\* runs or the queue holds its message, whatever process_event says.
Status(f) ==
  CASE f \notin live -> "none"
    [] f \in live /\ state[f] = "DOWN" -> "down"
    [] OTHER -> IF f \in running \/ Pending(queue, f) # {}
                  THEN "listening" ELSE "deaf"

\* The faces keep the contract of FaceContract: a face that is UP is read
\* until it goes down, unless a full queue has refused a post (the repost at
\* line 225 ignores the NULL), and no call or error touches a second face.
Contract == INSTANCE FaceContract WITH status <- [f \in Face |-> Status(f)],
                                       Slave <- {}
KeepsContract == Contract!Spec

\* Taking a face down cancels no message but that face's own, as long as the
\* queue is not full.  (In a full queue the slot of the running receive has
\* been given to another message, and line 109 cancels that one.)
CancelsOwnMessage ==
  [][queue.len < QueueCap =>
       \A s \in Slots :
         queue.ring[s] \in Sender /\ queue'.ring[s] = Cancelled =>
           \E f \in Face : queue.ring[s] = f /\ state'[f] = "DOWN"]_vars

\* A receive that never ends: its socket has a datagram again at every turn of
\* the loop (line 210), for ever.  A receive that goes dry ever again does not
\* count, however many datagrams arrive.
NeverEnds(f) == <>[](running = {f}) /\ []<><<RecvDatagram(f)>>_vars

\* The datagrams in the socket of a face are read, or the face goes down, or is
\* deaf because a full queue has refused a post: unless a receive never ends,
\* which is then all the process does.  No traffic of another face, however
\* lasting, excuses a lost repost.
DatagramsRead ==
  \/ \A f \in Face :
       inbox[f] > 0 ~> inbox[f] = 0 \/ (refused /\ Status(f) = "deaf")
  \/ \E f \in Face : NeverEnds(f)

\* A message of the application leaves its slot, by its turn or because a face
\* that went down cancelled it (CancelsOwnMessage says when that cannot be):
\* traffic delays it, and only a receive that never ends keeps it for ever.
OthersServed ==
  \/ \A s \in Slots : queue.ring[s] = App ~> queue.ring[s] # App
  \/ \E f \in Face : NeverEnds(f)
=============================================================================
