---------------------------- MODULE RequestReply ----------------------------
(***************************************************************************)
(* The request programs: consumers, producers and the relay over UDP       *)
(* (examples/udp-basic-consumer.c, -producer.c, -forwarder.c), the         *)
(* multicast ones (udp-group-*.c) and those over the Unix socket of a      *)
(* local NDN daemon (nfd-basic-*.c, deamon-producer.c).  A UDP face sends  *)
(* to its configured remote port, whoever the packet it answers came from; *)
(* hosts are told apart by port numbers.  PIT, FIB and NFD are external:   *)
(* the entry of an expressed Interest ends with its first Data or timeout. *)
(***************************************************************************)
EXTENDS Integers, FiniteSets

CONSTANTS
  Consumer, Producer, Relay,    \* the UDP programs, by kind
  Group, GroupProducer,         \* the multicast ones
  NfdConsumer, NfdProducer,     \* the clients of a local daemon
  Daemon,                       \* deamon-producer, which is one
  Casts,                        \* the sets of programs started together
  Name,                         \* the names asked for and served
  Asked,                        \* the argument lists of UDP programs, per face
  PortMin, PortMax,             \* 1024 and 65536
  Word,                         \* 2^32
  MaxInFlight                   \* bound: datagrams on the way

Asker   == Consumer \cup Relay \cup NfdConsumer   \* those with callbacks
Server  == Producer \cup GroupProducer \cup NfdProducer \cup Daemon
Process == Asker \cup Group \cup Server

NoName == "none"

\* A program that asks is of one kind; NoName is no name.
ASSUME RequestAssumption ==
  /\ Asker \cap (Group \cup Server) = {}
  /\ Relay \cap (Consumer \cup NfdConsumer) = {} /\ Consumer \cap NfdConsumer = {}
  /\ \A c \in Casts : c \subseteq Process
  /\ NoName \notin Name
  /\ Asked \subseteq [local : Nat, name : Name, remote : Nat]
  /\ MaxInFlight \in Nat
  /\ {PortMin, PortMax, Word} \subseteq Nat /\ PortMax <= Word /\ Word > 0

\* The faces of the programs; only the relay makes its second.
Face == Process \X {1, 2}
FacesOf(p) == {p} \X (IF p \in Relay THEN {1, 2} ELSE {1})
Owner(f) == f[1]

VARIABLES
  stage,   \* "absent", "start", "loop" (running), "exited" or "crashed"
  name,    \* the name prefix routed to or served on each face
  port,    \* the local port of each face, once the arguments are parsed
  to,      \* its remote port
  up,      \* faces that are UP
  pit,     \* processes whose own Interest is in their PIT
  waiting, \* relays and clients that an Interest passed on is pending for
  called,  \* history: callbacks each process has had, in a set
  asked,   \* history: the names asked for, with the ports asked
  stray,   \* history: processes whose express_interest failed
  net,     \* datagrams on the way: what, its name, the port it goes to
  stream   \* packets on the Unix connection of each client, likewise

config == <<name, port, to>>
vars == <<stage, config, up, pit, waiting, called, asked, stray, net, stream>>

NoPort == -1
Kinds  == {"interest", "data", "damaged"}

Init ==
  /\ \E c \in Casts : stage = [p \in Process |-> IF p \in c THEN "start" ELSE "absent"]
  /\ name = [f \in Face |-> NoName]
  /\ port = [f \in Face |-> NoPort] /\ to = [f \in Face |-> NoPort]
  /\ called = [p \in Process |-> {}]
  /\ up = {} /\ pit = {} /\ waiting = {} /\ asked = {} /\ stray = {}
  /\ net = {} /\ stream = {}

-----------------------------------------------------------------------------
(* Starting. *)

\* ul_port = strtoul(...): an unsigned long put in a uint32_t.
Port(n) == n % Word

\* Mutant: the upper limit passes.
GoodPortLoose(n) == Port(n) >= PortMin /\ Port(n) <= PortMax

GoodPort(n) == Port(n) >= PortMin /\ Port(n) < PortMax

\* parseArgs fails on a port, a host or a name: the program ends at once.
StartRefused(p) ==
  /\ stage[p] = "start"
  /\ stage' = [stage EXCEPT ![p] = "exited"]
  /\ UNCHANGED <<config, up, pit, waiting, called, asked, stray, net, stream>>

\* parseArgs of a UDP program, once for each face it makes.  A multicast face
\* listens on the port of the group and sends to it.
Configure(p) ==
  LET F == FacesOf(p)
      Good == {a \in Asked : GoodPort(a.local) /\ GoodPort(a.remote)}
      Remote(a) == Port(IF p \in Group \cup GroupProducer THEN a.local ELSE a.remote)
  IN  /\ stage[p] = "start"
      /\ \E arg \in [F -> Good] :
           /\ name' = [f \in Face |-> IF f \in F THEN arg[f].name ELSE name[f]]
           /\ port' = [f \in Face |-> IF f \in F THEN Port(arg[f].local) ELSE port[f]]
           /\ to' = [f \in Face |-> IF f \in F THEN Remote(arg[f]) ELSE to[f]]

ConfigureUnix(p) ==
  /\ stage[p] = "start"
  /\ \E n \in Name : name' = [name EXCEPT ![<<p, 1>>] = n]
  /\ UNCHANGED <<port, to>>

\* The faces that come up: construct may leave any of them DOWN, and that of a
\* client is, unless its daemon (NFD when the cast has none) is running.
Opened(p) ==
  {U \in SUBSET FacesOf(p) :
     U # {} /\ p \in NfdConsumer \cup NfdProducer =>
       \A d \in Daemon : stage[d] \in {"absent", "loop"}}

\* main of a producer: the prefix is registered and the loop entered.
StartProducer(p) ==
  /\ \/ p \in Producer \cup GroupProducer /\ Configure(p)
     \/ p \in NfdProducer /\ ConfigureUnix(p)
  /\ up' \in {up \cup U : U \in Opened(p)}
  /\ stage' = [stage EXCEPT ![p] = "loop"]
  /\ UNCHANGED <<pit, waiting, called, asked, stray, net, stream>>

\* main of deamon-producer, a server, which leaves when its face is DOWN.
StartDaemon(d) ==
  /\ d \in Daemon
  /\ ConfigureUnix(d)
  /\ up' \in {up \cup U : U \in Opened(d)}
  /\ stage' = [stage EXCEPT ![d] = IF up' = up THEN "exited" ELSE "loop"]
  /\ UNCHANGED <<pit, waiting, called, asked, stray, net, stream>>

Room == Cardinality(net) < MaxInFlight

\* The first Interest goes out of face f, one of the faces U that are UP: a
\* face that is DOWN sends nothing, and a datagram may find no room.
Express(f, U) ==
  \/ /\ f \in U /\ Room
     /\ net' = net \cup {<<"interest", name'[f], to'[f]>>}
     /\ asked' = asked \cup {<<name'[f], to'[f]>>}
  \/ UNCHANGED <<net, asked>>

\* main of the consumer: the Interest is expressed and the loop entered,
\* whatever express_interest returns.
StartConsumer(c) ==
  /\ c \in Consumer
  /\ Configure(c)
  /\ stage' = [stage EXCEPT ![c] = "loop"]
  /\ \E U \in Opened(c) :
       /\ up' = up \cup U
       /\ \/ stray' = stray \cup {c} /\ UNCHANGED <<pit, asked, net>>
          \/ pit' = pit \cup {c} /\ Express(<<c, 1>>, U) /\ UNCHANGED stray
  /\ UNCHANGED <<waiting, called, stream>>

\* The same over the Unix socket.
StartNfdConsumer(c) ==
  /\ c \in NfdConsumer
  /\ ConfigureUnix(c)
  /\ stage' = [stage EXCEPT ![c] = "loop"]
  /\ \E U \in Opened(c) :
       /\ up' = up \cup U
       /\ \/ stray' = stray \cup {c} /\ UNCHANGED <<pit, stream>>
          \/ /\ pit' = pit \cup {c}
             /\ stream' = stream \cup {<<"interest", name'[f], c>> : f \in U}
             /\ UNCHANGED stray
  /\ UNCHANGED <<waiting, called, asked, net>>

\* main of the group consumer.  running is never set: the loop after the
\* Interest has no turn, neither callback can be called, and the face goes.
StartGroup(g) ==
  /\ g \in Group
  /\ Configure(g)
  /\ \E U \in Opened(g) : Express(<<g, 1>>, U)
  /\ stage' = [stage EXCEPT ![g] = "exited"]
  /\ UNCHANGED <<up, pit, waiting, called, stray, stream>>

\* The relay serves the name of its first face and asks for that of its
\* second.  With one name on both its own on_interest answers it.
Local(r) == name[<<r, 1>>] = name[<<r, 2>>]

\* The Interest is built through an uninitialised pointer (line 154): the
\* program may crash.  A local answer comes at once or at a later turn; at
\* once, on_data clears running before main sets it (line 158).
StartRelay(r) ==
  /\ r \in Relay
  /\ Configure(r)
  /\ \/ /\ stage' = [stage EXCEPT ![r] = "crashed"]
        /\ UNCHANGED <<up, pit, called, asked, stray, net>>
     \/ /\ stage' = [stage EXCEPT ![r] = "loop"]
        /\ \E U \in Opened(r) :
             /\ up' = up \cup U
             /\ \/ /\ stray' = stray \cup {r}
                   /\ UNCHANGED <<pit, called, asked, net>>
                \/ /\ Local(r)'
                   /\ called' = [called EXCEPT ![r] = {"data"}]
                   /\ UNCHANGED <<pit, asked, stray, net>>
                \/ /\ pit' = pit \cup {r}
                   /\ IF Local(r)' THEN UNCHANGED <<asked, net>>
                      ELSE Express(<<r, 2>>, U)
                   /\ UNCHANGED <<called, stray>>
  /\ UNCHANGED <<waiting, stream>>

-----------------------------------------------------------------------------
(* Running, over UDP. *)

Produced(p) == name[<<p, 1>>]

\* Mutant: the answer goes to whoever listens on the face's own port.
ReplyToSelf(f) == <<"data", Produced(Owner(f)), port[f]>>

\* The Data goes out of the face the Interest came in by: to its remote.
Reply(f) == <<"data", Produced(Owner(f)), to[f]>>

\* The datagram d is delivered and sends out the set R; the network may keep a
\* copy of d, to deliver it again.
Exchange(d, R) ==
  /\ d \in net
  /\ \E kept \in {{}, {d}} :
       /\ net' = (net \ {d}) \cup kept \cup R
       /\ Cardinality(net') <= MaxInFlight

\* on_interest of a producer or the relay; others drop what reaches them.
OnInterest(f) ==
  /\ f \in up /\ Owner(f) \in Producer \cup GroupProducer \cup Relay
  /\ Exchange(<<"interest", Produced(Owner(f)), port[f]>>, {Reply(f)})
  /\ UNCHANGED <<stage, config, up, pit, waiting, called, asked, stray, stream>>

\* Mutant: a Data that does not decode does not end the loop.
OnDataStrict(p, kind) ==
  /\ pit' = pit \ {p}
  /\ called' = [called EXCEPT ![p] = @ \cup {"data"}]
  /\ stage' = IF kind = "damaged" THEN stage ELSE [stage EXCEPT ![p] = "exited"]
  /\ up' = up \ FacesOf(p)

\* A Data that does not decode is printed too, out of a structure that nothing
\* has set (udp-basic-consumer.c:91): the program ends as usual, or dies of it.
Outcomes(kind) == IF kind = "damaged" THEN {"exited", "crashed"} ELSE {"exited"}

\* on_data: the Data is printed and the loop ended, even when it does not
\* decode.  The end of the loop destroys the faces.
OnData(p, kind) ==
  /\ pit' = pit \ {p}
  /\ called' = [called EXCEPT ![p] = @ \cup {"data"}]
  /\ \E s \in Outcomes(kind) : stage' = [stage EXCEPT ![p] = s]
  /\ up' = up \ FacesOf(p)

\* The name a process has asked for.
Wanted(p) == IF p \in Relay THEN name[<<p, 2>>] ELSE name[<<p, 1>>]

DataArrives(c) ==
  /\ c \in Consumer \cap pit /\ <<c, 1>> \in up
  /\ \E kind \in Kinds \ {"interest"} :
       Exchange(<<kind, Wanted(c), port[<<c, 1>>]>>, {}) /\ OnData(c, kind)
  /\ UNCHANGED <<config, waiting, asked, stray, stream>>

\* An Interest for the other name comes to the relay's first face: its
\* forwarder passes it on by the second, or lets it wait for its own.
RelayInterest(r) ==
  LET d == <<"interest", Wanted(r), port[<<r, 1>>]>>
  IN  /\ r \in Relay /\ <<r, 1>> \in up /\ ~Local(r)
      /\ waiting' = waiting \cup {r}
      /\ \/ /\ <<r, 2>> \in up
            /\ Exchange(d, {<<"interest", Wanted(r), to[<<r, 2>>]>>})
            /\ asked' = asked \cup {<<Wanted(r), to[<<r, 2>>]>>}
         \/ Exchange(d, {}) /\ UNCHANGED asked
  /\ UNCHANGED <<stage, config, up, pit, called, stray, stream>>

\* A Data for that name reaches the relay: it goes to whom the Interest was
\* passed on for, and to the relay's own on_data, which ends the program.
RelayData(f) ==
  LET r == Owner(f)
  IN  /\ r \in Relay /\ f \in up /\ ~Local(r) /\ r \in pit \cup waiting
      /\ \E kind \in Kinds \ {"interest"} :
           /\ Exchange(<<kind, Wanted(r), port[f]>>,
                {<<kind, Wanted(r), to[g]>> : g \in up \cap ({r} \cap waiting) \X {1}})
           /\ IF r \in pit THEN OnData(r, kind)
              ELSE UNCHANGED <<pit, called, stage, up>>
      /\ waiting' = waiting \ {r}
      /\ UNCHANGED <<config, asked, stray, stream>>

\* The relay's own on_interest has answered it at a later turn.
RelayAnswersItself(r) ==
  /\ r \in Relay \cap pit /\ Local(r)
  /\ OnData(r, "data")
  /\ UNCHANGED <<config, waiting, asked, stray, net, stream>>

\* on_timeout: the PIT entry has reached the end of its lifetime.
OnTimeout(c) ==
  /\ c \in pit
  /\ pit' = pit \ {c}
  /\ called' = [called EXCEPT ![c] = @ \cup {"timeout"}]
  /\ stage' = [stage EXCEPT ![c] = "exited"]
  /\ up' = up \ FacesOf(c)
  /\ stream' = {m \in stream : m[3] # c}
  /\ waiting' = waiting \ {c}
  /\ UNCHANGED <<config, asked, stray, net>>

-----------------------------------------------------------------------------
(* Running, over the Unix socket: m[3] is the client of the connection. *)

\* on_interest of deamon-producer and of nfd-basic-producer: the answer goes
\* back on the connection.
OnStreamInterest(p, x) ==
  LET m == <<"interest", Produced(p), x>>
  IN  /\ \/ p \in Daemon /\ <<p, 1>> \in up /\ x \in NfdConsumer
         \/ p \in NfdProducer /\ x = p
      /\ m \in stream
      /\ stream' = (stream \ {m}) \cup {<<"data", Produced(p), x>>}
      /\ UNCHANGED <<stage, config, up, pit, waiting, called, asked, stray, net>>

\* NFD passes an Interest to the producer its operator has set a route to.
NfdInterest(c, p) ==
  LET m == <<"interest", Wanted(c), c>>
  IN  /\ m \in stream /\ c \in NfdConsumer /\ p \in NfdProducer
      /\ \A d \in Daemon : stage[d] = "absent"
      /\ <<p, 1>> \in up /\ Produced(p) = Wanted(c)
      /\ stream' = (stream \ {m}) \cup {<<"interest", Wanted(c), p>>}
      /\ waiting' = waiting \cup {c}
      /\ UNCHANGED <<stage, config, up, pit, called, asked, stray, net>>

\* NFD returns the answer to every client that waits for it.
NfdData(p) ==
  LET m == <<"data", Produced(p), p>>
      C == {c \in waiting \cap NfdConsumer : Wanted(c) = Produced(p)}
  IN  /\ p \in NfdProducer /\ m \in stream
      /\ stream' = (stream \ {m}) \cup {<<"data", Produced(p), c>> : c \in C}
      /\ waiting' = waiting \ C
      /\ UNCHANGED <<stage, config, up, pit, called, asked, stray, net>>

NfdDataArrives(c) ==
  /\ c \in NfdConsumer \cap pit
  /\ <<"data", Wanted(c), c>> \in stream
  /\ OnData(c, "data")
  /\ stream' = {m \in stream : m[3] # c}
  /\ UNCHANGED <<config, waiting, asked, stray, net>>

-----------------------------------------------------------------------------
(* Faults. *)

\* A datagram or packet is lost, or reaches a process with no use for it.
Lose ==
  /\ \/ \E d \in net : net' = net \ {d} /\ UNCHANGED stream
     \/ \E m \in stream : stream' = stream \ {m} /\ UNCHANGED net
  /\ UNCHANGED <<stage, config, up, pit, waiting, called, asked, stray>>

Damage ==
  /\ \E d \in net :
       d[1] = "data" /\ net' = (net \ {d}) \cup {<<"damaged", d[2], d[3]>>}
  /\ UNCHANGED <<stage, config, up, pit, waiting, called, asked, stray, stream>>

\* A producer is killed.  The connections of a daemon go with it.
Crash(p) ==
  LET cut == IF p \in Daemon THEN NfdConsumer \cup NfdProducer ELSE {p}
  IN  /\ p \in Server /\ stage[p] = "loop"
      /\ stage' = [stage EXCEPT ![p] = "crashed"]
      /\ up' = up \ ((cut \cup {p}) \X {1})
      /\ stream' = {m \in stream : m[3] \notin cut}
      /\ UNCHANGED <<config, pit, waiting, called, asked, stray, net>>

Next ==
  \/ \E p \in Process : \/ StartRefused(p) \/ StartProducer(p) \/ StartDaemon(p)
                        \/ StartConsumer(p) \/ StartNfdConsumer(p)
                        \/ StartGroup(p) \/ StartRelay(p)
  \/ \E f \in Face : OnInterest(f) \/ RelayData(f)
  \/ \E p \in Process : \/ DataArrives(p) \/ RelayInterest(p) \/ OnTimeout(p)
                        \/ RelayAnswersItself(p) \/ NfdData(p) \/ NfdDataArrives(p)
  \/ \E p, x \in Process : OnStreamInterest(p, x) \/ NfdInterest(x, p)
  \/ Lose \/ Damage
  \/ \E p \in Process : Crash(p)

Spec == Init /\ [][Next]_vars

\* The loops run their forwarders: an entry left in a PIT times out.
FairSpec == Spec /\ \A c \in Asker : WF_vars(OnTimeout(c))

-----------------------------------------------------------------------------
TypeOK ==
  /\ stage \in [Process -> {"absent", "start", "loop", "exited", "crashed"}]
  /\ name \in [Face -> Name \cup {NoName}]
  /\ port \in [Face -> {NoPort} \cup PortMin .. PortMax - 1]
  /\ to \in [Face -> {NoPort} \cup PortMin .. PortMax - 1]
  /\ up \subseteq Face /\ pit \subseteq Asker /\ stray \subseteq Asker
  /\ waiting \subseteq Relay \cup NfdConsumer
  /\ called \in [Process -> SUBSET {"data", "timeout"}]
  /\ asked \subseteq Name \X (PortMin .. PortMax - 1)
  /\ net \subseteq Kinds \X Name \X (PortMin .. PortMax - 1)
  /\ stream \subseteq Kinds \X Name \X Process

\* Over UDP, the Data a program prints has come from a face that points back
\* at one of its ports, and whose program was itself asked for that name and
\* serves it or passes it on: the answer to another's Interest may end the
\* wait, an answer from elsewhere may not.  Over the Unix socket it has come
\* from a program that serves that name.
AnswerFromItsPeer ==
  \A c \in Asker : "data" \in called[c] =>
    \/ c \in Relay /\ Local(c)
    \/ c \in NfdConsumer /\ \E p \in NfdProducer \cup Daemon : Produced(p) = Wanted(c)
    \/ \E g \in Face, f \in FacesOf(c) :
         /\ to[g] = port[f] /\ <<Wanted(c), port[g]>> \in asked
         /\ \/ Produced(Owner(g)) = Wanted(c)
            \/ Owner(g) \in Relay /\ Wanted(Owner(g)) = Wanted(c)

\* A program has left its loop, or was killed in its on_data by a damaged Data.
Ended(p) == stage[p] \in {"exited", "crashed"}

\* A program gets one callback, and leaves its loop with it, never before: a
\* relay that serves what it asks for is the one that can be left behind, with
\* its answer had and running set again.
OneCallback ==
  \A c \in Asker :
    /\ Cardinality(called[c]) <= 1
    /\ called[c] # {} => Ended(c) \/ (c \in Relay /\ Local(c))
    /\ stage[c] = "exited" => called[c] # {} \/ name[<<c, 1>>] = NoName
    /\ stage[c] = "loop" =>
         c \in pit \cup stray \/ (c \in Relay /\ Local(c) /\ called[c] = {"data"})

\* A program that asks ends, whatever is lost, killed or wired wrongly, unless
\* its Interest was never accepted (nobody looks at what express_interest
\* returns, and then neither callback will come), or it is such a relay.
ConsumerEnds ==
  \A c \in Asker :
    stage[c] = "loop" ~>
      Ended(c) \/ c \in stray \/ (c \in Relay /\ Local(c))

\* udp-group-consumer.c:134, translated: "loop over NDN events".  The group
\* consumer too goes on until it has had a callback.
GroupWaits ==
  \A g \in Group : stage[g] = "exited" /\ name[<<g, 1>>] # NoName => called[g] # {}
=============================================================================
