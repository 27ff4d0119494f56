------------------------------ MODULE UnixFace ------------------------------
(***************************************************************************)
(* The life of the Unix-socket faces of one process: client faces and a    *)
(* server face made by ndn_unix_face_construct, and the slave faces that   *)
(* ndn_unix_face_accept makes for its connections                          *)
(* (adaptation/unix-socket/unix-face.c).  They share the process's         *)
(* descriptors, the forwarder's face table and the bounded message queue   *)
(* whose dispatch runs every receive and accept.  The process has one      *)
(* thread: a handler or a call by the application is one step.             *)
(***************************************************************************)
EXTENDS Integers, FiniteSets, MsgQueue

CONSTANTS
  Client, Server, Slave,   \* the face objects, by kind
  App,                     \* the rest of the application, as a sender
  MaxFd,                   \* descriptors the process may hold
  TableCap,                \* faces the forwarder's table holds
  MaxApp,                  \* bound: messages of the application in the queue
  MaxFiles                 \* bound: files the application has open

Face == Client \cup Server \cup Slave
Fd   == 1 .. MaxFd
NoFd == -1

ASSUME FaceAssumption ==
  /\ Sender = Face \cup {App} /\ App \notin Face
  /\ Client \cap Server = {} /\ Client \cap Slave = {} /\ Server \cap Slave = {}
  /\ IsFiniteSet(Face)
  /\ MaxFd \in Nat /\ TableCap \in Nat /\ MaxApp \in Nat /\ MaxFiles \in Nat

VARIABLES
  live,        \* faces that are allocated
  registered,  \* faces in the forwarder's table
  state,       \* intf.state of each face
  sock,        \* ptr->sock of each face
  event,       \* ptr->process_event of each face: a slot, or NoSlot for NULL
  queue,       \* the message queue
  open,        \* descriptors the process has open
  files,       \* those of them that other code opened
  gone,        \* connections whose peer has shut down and left no data
  backlog,     \* servers with a connection waiting to be accepted
  refused      \* history: a post has been refused by a full queue

faces == <<live, registered, state, sock, event>>
vars  == <<faces, queue, open, files, gone, backlog, refused>>

FreeFd == Fd \ open
\* socket(), accept() and open() return the lowest free descriptor.
Lowest == CHOOSE d \in FreeFd : \A e \in FreeFd : d <= e

Init ==
  /\ live = {} /\ registered = {}
  /\ state = [f \in Face |-> "DOWN"]
  /\ sock = [f \in Face |-> NoFd]
  /\ event = [f \in Face |-> NoSlot]
  /\ queue = EmptyQueue
  /\ open = {} /\ files = {} /\ gone = {} /\ backlog = {}
  /\ refused = FALSE

-----------------------------------------------------------------------------
(* Taking a face up and down. *)

\* Mutant: the failure paths return without ndn_face_down.
BringUpLeaks(f, ok) ==
  \E posted \in PostOutcomes(queue) :
    LET opens == FreeFd # {}
        up    == opens /\ ok /\ posted
    IN  /\ state' = [state EXCEPT ![f] = IF up THEN "UP" ELSE "DOWN"]
        /\ sock' = [sock EXCEPT ![f] = IF up THEN Lowest ELSE NoFd]
        /\ event' = [event EXCEPT ![f] = PostedAt(queue, up)]
        /\ queue' = PostIf(queue, up, f)
        /\ open' = IF opens THEN open \cup {Lowest} ELSE open
        /\ refused' = (refused \/ (opens /\ ok /\ ~posted))

\* ndn_unix_client_face_up and ndn_unix_server_face_up on a face that is DOWN:
\* socket, then fcntl and connect, or bind and listen, which succeed when ok,
\* then the post of the first event.  Every failure after socket() goes
\* through ndn_face_down.
BringUp(f, ok) ==
  \E posted \in PostOutcomes(queue) :
    LET opens == FreeFd # {}
        up    == opens /\ ok /\ posted
    IN  /\ state' = [state EXCEPT ![f] = IF up THEN "UP" ELSE "DOWN"]
        /\ sock' = [sock EXCEPT ![f] = IF up THEN Lowest ELSE NoFd]
        /\ event' = [event EXCEPT ![f] = PostedAt(queue, up)]
        /\ queue' = PostIf(queue, up, f)
        /\ open' = IF up THEN open \cup {Lowest} ELSE open
        /\ refused' = (refused \/ (opens /\ ok /\ ~posted))

\* ndn_unix_face_construct: the face is registered, then brought up; nobody
\* looks at the result of ndn_face_up, so the face returned may be DOWN.
Construct(f) ==
  /\ f \in Client \cup Server /\ f \notin live
  /\ Cardinality(registered) < TableCap
  /\ live' = live \cup {f}
  /\ registered' = registered \cup {f}
  /\ \E ok \in BOOLEAN : BringUp(f, ok)
  /\ UNCHANGED <<files, gone, backlog>>

\* ndn_face_up by the application; UP is an early return.
FaceUp(f) ==
  /\ f \in live \cap (Client \cup Server)
  /\ state[f] = "DOWN"
  /\ \E ok \in BOOLEAN : BringUp(f, ok)
  /\ UNCHANGED <<live, registered, files, gone, backlog>>

\* Mutant: the event of a face taken down stays in the queue.
TakeDownKeepsEvent(f, q, ev) ==
  /\ state' = [state EXCEPT ![f] = "DOWN"]
  /\ sock' = [sock EXCEPT ![f] = NoFd]
  /\ open' = open \ {sock[f]}
  /\ gone' = gone \ {sock[f]}
  /\ event' = [event EXCEPT ![f] = NoSlot]
  /\ queue' = q
  /\ backlog' = backlog \ {f}

\* ndn_unix_face_down, with q the queue and ev the event at that moment: the
\* socket is closed and the pending event cancelled.
TakeDown(f, q, ev) ==
  /\ state' = [state EXCEPT ![f] = "DOWN"]
  /\ sock' = [sock EXCEPT ![f] = NoFd]
  /\ open' = open \ {sock[f]}
  /\ gone' = gone \ {sock[f]}
  /\ event' = [event EXCEPT ![f] = NoSlot]
  /\ queue' = Cancel(q, ev)
  /\ backlog' = backlog \ {f}

\* ndn_face_down by the application, on a face it made.
FaceDown(f) ==
  /\ f \in live \cap (Client \cup Server)
  /\ TakeDown(f, queue, event[f])
  /\ UNCHANGED <<live, registered, files, refused>>

\* ndn_face_destroy: down, unregister, free.
FaceDestroy(f) ==
  /\ f \in live \cap (Client \cup Server)
  /\ live' = live \ {f}
  /\ registered' = registered \ {f}
  /\ TakeDown(f, queue, event[f])
  /\ UNCHANGED <<files, refused>>

-----------------------------------------------------------------------------
(* The handlers, each run by the dispatch of the message at the front. *)

Running(f) == f \in Face /\ Front(queue) = f

\* Mutant: the message is stored without a look at the room left.
RepostBlindly(f, q, ev, met) ==
  /\ queue' = Post(q, f)
  /\ event' = [ev EXCEPT ![f] = NextSlot(q)]
  /\ refused' = (refused \/ met)

\* The handler reposts itself on the queue q it leaves, after fullness `met'
\* earlier in the handler; a refused post leaves process_event NULL.
Repost(f, q, ev, met) ==
  \E ok \in PostOutcomes(q) :
    /\ queue' = PostIf(q, ok, f)
    /\ event' = [ev EXCEPT ![f] = PostedAt(q, ok)]
    /\ refused' = (refused \/ met \/ ~ok)

\* ndn_unix_face_recv with bytes or EWOULDBLOCK.  What it delivers may make
\* the application post a message before the repost.
RecvGoesOn(f) ==
  /\ Running(f) /\ f \notin Server /\ sock[f] \notin gone
  /\ \/ Repost(f, Pop(queue), event, FALSE)
     \/ /\ Cardinality(Pending(queue, App)) < MaxApp
        /\ \E ok \in PostOutcomes(Pop(queue)) :
             Repost(f, PostIf(Pop(queue), ok, App), event, ~ok)
  /\ UNCHANGED <<live, registered, state, sock, open, files, gone, backlog>>

\* Mutant: a slave is freed but stays in the face table.
RecvEndsKeepsTable(f) ==
  /\ Running(f) /\ f \notin Server /\ sock[f] \in gone
  /\ TakeDown(f, Pop(queue), NoSlot)
  /\ live' = live \ ({f} \cap Slave)
  /\ UNCHANGED <<registered, files, refused>>


\* ndn_unix_face_recv on a shutdown or an error: process_event is NULL by
\* then, the face goes down, and a slave is unregistered and freed with it.
RecvEnds(f) ==
  /\ Running(f) /\ f \notin Server /\ sock[f] \in gone
  /\ TakeDown(f, Pop(queue), NoSlot)
  /\ live' = live \ ({f} \cap Slave)
  /\ registered' = registered \ ({f} \cap Slave)
  /\ UNCHANGED <<files, refused>>

\* ndn_unix_face_accept with EWOULDBLOCK.
AcceptNothing(f) ==
  /\ Running(f) /\ f \in Server \ backlog /\ FreeFd # {}
  /\ Repost(f, Pop(queue), event, FALSE)
  /\ UNCHANGED <<live, registered, state, sock, open, files, gone, backlog>>

\* accept() fails, for want of a descriptor or with any error that is not
\* EWOULDBLOCK (a connection aborted, a signal): the server goes down.
AcceptFails(f) ==
  /\ Running(f) /\ f \in Server
  /\ TakeDown(f, Pop(queue), NoSlot)
  /\ UNCHANGED <<live, registered, files, refused>>

\* Mutant: the server does not post its next accept after a connection.
AcceptSlaveOnce(f, s) ==
  LET q == Pop(queue)
  IN  \E ok \in PostOutcomes(q) :
        /\ live' = IF ok THEN live \cup {s} ELSE live
        /\ registered' = IF ok THEN registered \cup {s} ELSE registered
        /\ state' = [state EXCEPT ![s] = IF ok THEN "UP" ELSE "DOWN"]
        /\ sock' = [sock EXCEPT ![s] = IF ok THEN Lowest ELSE NoFd]
        /\ open' = IF ok THEN open \cup {Lowest} ELSE open
        /\ queue' = PostIf(q, ok, s)
        /\ event' = [event EXCEPT ![f] = NoSlot, ![s] = PostedAt(q, ok)]
        /\ refused' = (refused \/ ~ok)

\* ndn_unix_slave_face_construct registers s and posts its first receive.  A
\* refused post frees it through ndn_face_down, which closes the socket, and
\* accept's own close then finds it closed.  The server reposts in any case.
AcceptSlave(f, s) ==
  LET q == Pop(queue)
  IN  \E ok \in PostOutcomes(q) :
        /\ live' = IF ok THEN live \cup {s} ELSE live
        /\ registered' = IF ok THEN registered \cup {s} ELSE registered
        /\ state' = [state EXCEPT ![s] = IF ok THEN "UP" ELSE "DOWN"]
        /\ sock' = [sock EXCEPT ![s] = IF ok THEN Lowest ELSE NoFd]
        /\ open' = IF ok THEN open \cup {Lowest} ELSE open
        /\ Repost(f, PostIf(q, ok, s), [event EXCEPT ![s] = PostedAt(q, ok)], ~ok)

\* No memory or no place in the face table: accept closes the connection.
AcceptDrops(f) ==
  /\ Repost(f, Pop(queue), event, FALSE)
  /\ UNCHANGED <<live, registered, state, sock, open>>

Accept(f) ==
  /\ Running(f) /\ f \in backlog /\ FreeFd # {}
  /\ IF Cardinality(registered) < TableCap /\ Slave \ live # {}
       THEN \E s \in Slave \ live : AcceptSlave(f, s)
       ELSE AcceptDrops(f)
  /\ backlog' = backlog \ {f}
  /\ UNCHANGED <<files, gone>>

\* The dispatch of a cancelled message does nothing.
DropCancelled ==
  /\ Front(queue) = Cancelled
  /\ queue' = Pop(queue)
  /\ UNCHANGED <<faces, open, files, gone, backlog, refused>>

\* A message of the application; it may post again.
RunApp ==
  /\ Front(queue) = App
  /\ \/ /\ queue' = Pop(queue)
        /\ UNCHANGED refused
     \/ \E ok \in PostOutcomes(Pop(queue)) :
          /\ queue' = PostIf(Pop(queue), ok, App)
          /\ refused' = (refused \/ ~ok)
  /\ UNCHANGED <<faces, open, files, gone, backlog>>

Dispatch ==
  \/ \E f \in Face : \/ RecvGoesOn(f) \/ RecvEnds(f)
                     \/ AcceptNothing(f) \/ AcceptFails(f) \/ Accept(f)
  \/ DropCancelled
  \/ RunApp

-----------------------------------------------------------------------------
(* The application and the peers. *)

AppPost ==
  /\ Cardinality(Pending(queue, App)) < MaxApp
  /\ \E ok \in PostOutcomes(queue) :
       /\ queue' = PostIf(queue, ok, App)
       /\ refused' = (refused \/ ~ok)
  /\ UNCHANGED <<faces, open, files, gone, backlog>>

\* fopen, or the open of /dev/urandom by the random generator.
OpenFile ==
  /\ FreeFd # {} /\ Cardinality(files) < MaxFiles
  /\ open' = open \cup {Lowest}
  /\ files' = files \cup {Lowest}
  /\ UNCHANGED <<faces, queue, gone, backlog, refused>>

CloseFile ==
  /\ \E d \in files : open' = open \ {d} /\ files' = files \ {d}
  /\ UNCHANGED <<faces, queue, gone, backlog, refused>>

\* A client connects: listen(sock, 0) holds one connection of a server.
PeerConnects ==
  /\ \E f \in Server \ backlog : state[f] = "UP" /\ backlog' = backlog \cup {f}
  /\ UNCHANGED <<faces, queue, open, files, gone, refused>>

PeerLeaves ==
  /\ \E f \in live \ Server :
       /\ state[f] = "UP" /\ sock[f] \notin gone
       /\ gone' = gone \cup {sock[f]}
  /\ UNCHANGED <<faces, queue, open, files, backlog, refused>>

Application ==
  \/ \E f \in Face : Construct(f) \/ FaceUp(f) \/ FaceDown(f) \/ FaceDestroy(f)
  \/ AppPost \/ OpenFile \/ CloseFile

Next == Dispatch \/ Application \/ PeerConnects \/ PeerLeaves

Spec == Init /\ [][Next]_vars

\* The main loop calls ndn_forwarder_process for ever.
FairSpec == Spec /\ WF_vars(Dispatch)

-----------------------------------------------------------------------------
TypeOK ==
  /\ live \subseteq Face /\ registered \subseteq Face
  /\ state \in [Face -> {"UP", "DOWN"}]
  /\ sock \in [Face -> Fd \cup {NoFd}]
  /\ event \in [Face -> Slots \cup {NoSlot}]
  /\ WellFormed(queue)
  /\ open \subseteq Fd /\ files \subseteq Fd /\ gone \subseteq Fd
  /\ backlog \subseteq Server /\ refused \in BOOLEAN

\* Every descriptor of the process has one owner: a live face that is UP, or
\* the other code.  None is leaked by a failed up or a dropped connection, and
\* no face holds one that is closed or that was opened for something else.
DescriptorsOwned ==
  /\ \A f \in Face : sock[f] # NoFd <=> f \in live /\ state[f] = "UP"
  /\ open = files \cup {sock[f] : f \in {g \in Face : sock[g] # NoFd}}
  /\ \A f \in Face : sock[f] # NoFd =>
       sock[f] \notin files /\ \A g \in Face : sock[g] = sock[f] => g = f

\* process_event points to the face's own message or is NULL, and the queue
\* holds no other message for it: a cancel never hits another's message, and
\* no message waits for a face that is down or freed.
EventsOwned ==
  \A f \in Face :
    /\ Pending(queue, f) = IF event[f] = NoSlot THEN {} ELSE {event[f]}
    /\ event[f] # NoSlot => f \in live /\ state[f] = "UP"

\* The face table holds the faces that exist, and a slave exists only while
\* its connection is up.
TableMatches ==
  registered = live /\ \A s \in live \cap Slave : state[s] = "UP"

\* What each face is to the programs over it: it listens when the queue holds
\* its message, whatever process_event says.
Status(f) ==
  CASE f \notin live -> "none"
    [] f \in live /\ state[f] = "DOWN" -> "down"
    [] OTHER -> IF Pending(queue, f) # {} THEN "listening" ELSE "deaf"

\* The faces keep the contract of FaceContract: a face that is UP is read or
\* accepts until it goes down, unless a full queue has refused a post (the
\* reposts at lines 318 and 341 ignore the NULL), no handler or call touches
\* a second face but for the accept, and a slave is never left DOWN.
Contract == INSTANCE FaceContract WITH status <- [f \in Face |-> Status(f)]
KeepsContract == Contract!Spec

=============================================================================
