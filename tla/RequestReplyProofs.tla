------------------------- MODULE RequestReplyProofs -------------------------
(***************************************************************************)
(* Proofs about the request programs, for any set of them started together *)
(* and any ports and names they are given.                                 *)
(***************************************************************************)
EXTENDS RequestReply, FiniteSetTheorems, TLAPS

Ports == PortMin .. PortMax - 1

\* A program that has not started has no callback, name or port.
Fresh(p) ==
  stage[p] = "start" =>
    /\ called[p] = {}
    /\ \A i \in {1, 2} : name[<<p, i>>] = NoName /\ port[<<p, i>>] = NoPort /\ to[<<p, i>>] = NoPort

\* The faces of a program get their names and ports together or not at all;
\* only a relay's second face has any.
Wired(p) ==
  /\ \/ \A f \in FacesOf(p) : name[f] \in Name /\ port[f] \in Ports /\ to[f] \in Ports
     \/ \A i \in {1, 2} : port[<<p, i>>] = NoPort /\ to[<<p, i>>] = NoPort
  /\ p \notin Relay => port[<<p, 2>>] = NoPort

\* A program with an Interest in its PIT runs and has had no callback.
Waits(c) == c \in pit => stage[c] = "loop" /\ called[c] = {}

\* OneCallback, for one program.
Ends(c) ==
  /\ called[c] \in {{}, {"data"}, {"timeout"}}
  /\ called[c] # {} => Ended(c) \/ (c \in Relay /\ Local(c))
  /\ stage[c] = "exited" => called[c] # {} \/ name[<<c, 1>>] = NoName
  /\ stage[c] = "loop" =>
       c \in pit \cup stray \/ (c \in Relay /\ Local(c) /\ called[c] = {"data"})

\* What holds of each program by itself.
Turn(p) == Fresh(p) /\ Wired(p) /\ (p \in Asker => Waits(p) /\ Ends(p))

\* Face g sends to port q, and its program was asked for n at g's own port and
\* serves n or passes it on.
Points(g, n, q) ==
  /\ to[g] = q /\ q \in Ports /\ <<n, port[g]>> \in asked
  /\ \/ Produced(Owner(g)) = n
     \/ Owner(g) \in Relay /\ Wanted(Owner(g)) = n

\* An Interest on the way has been asked, and an answer comes from a face that
\* points where it goes.
Sound(d) ==
  IF d[1] = "interest" THEN <<d[2], d[3]>> \in asked
  ELSE \E g \in Face : Points(g, d[2], d[3])

\* Somebody behind the Unix sockets serves n.
Served(n) == \E p \in NfdProducer \cup Daemon : Produced(p) = n

\* AnswerFromItsPeer, for one program.
From(c) ==
  "data" \in called[c] =>
    \/ c \in Relay /\ Local(c)
    \/ c \in NfdConsumer /\ Wanted(c) \in Name /\ Served(Wanted(c))
    \/ \E g \in Face, f \in FacesOf(c) : Points(g, Wanted(c), port[f])

\* The inductive invariant: the answer a program prints is traced back
\* through the datagrams and packets on the way, and the Interests the relays
\* have passed on, to the names asked for.
IInv ==
  /\ TypeOK
  /\ \A p \in Process : Turn(p)
  /\ \A c \in Asker : From(c)
  /\ \A d \in net : Sound(d)
  /\ \A r \in waiting \cap Relay : <<Wanted(r), port[<<r, 1>>]>> \in asked
  /\ \A m \in stream : m[1] = "interest" \/ Served(m[2])

\* A step leaves the names and ports of x alone.
Kept(x) ==
  \A i \in {1, 2} :
    name'[<<x, i>>] = name[<<x, i>>] /\ port'[<<x, i>>] = port[<<x, i>>] /\ to'[<<x, i>>] = to[<<x, i>>]

-----------------------------------------------------------------------------
(* What is asked and answered stays so. *)

\* The kinds, spelt out.
LEMMA OfOneKind ==
  /\ Asker \subseteq Process /\ Server \subseteq Process /\ Group \subseteq Process
  /\ Asker \cap Server = {} /\ Asker \cap Group = {}
  /\ Relay \cap Consumer = {} /\ Relay \cap NfdConsumer = {}
  /\ Relay \cap NfdProducer = {} /\ Relay \cap Daemon = {}
  /\ Relay \subseteq Asker /\ Consumer \subseteq Asker /\ NfdConsumer \subseteq Asker
BY RequestAssumption DEF Asker, Server, Process

\* A port is none of NoPort.
LEMMA PortIsNone ==
  NoPort \notin Ports /\ NoName \notin Name
BY RequestAssumption DEF NoPort, Ports

\* A face is its program's first or second.
LEMMA FaceOf ==
  /\ \A f \in Face : /\ Owner(f) \in Process
                     /\ \E i \in {1, 2} : f = <<Owner(f), i>>
  /\ \A p \in Process, i \in {1, 2} : <<p, i>> \in Face /\ Owner(<<p, i>>) = p
  /\ \A p \in Process : FacesOf(p) \subseteq Face /\ <<p, 1>> \in FacesOf(p)
  /\ \A p \in Relay : FacesOf(p) = {<<p, 1>>, <<p, 2>>}
  /\ \A p \in Process \ Relay : FacesOf(p) = {<<p, 1>>}
BY DEF Face, Owner, FacesOf

\* A step that changes no program but starting ones keeps the face that
\* points at a port, its program and what that serves.
LEMMA PointsKept ==
  ASSUME IInv, \A x \in Process : Kept(x) \/ stage[x] = "start",
         asked \subseteq asked',
         NEW g \in Face, NEW n, NEW q, Points(g, n, q)
  PROVE  Points(g, n, q)'
<1>1. PICK i \in {1, 2} : g = <<Owner(g), i>>
  BY FaceOf
<1>2. Owner(g) \in Process
  BY FaceOf
<1>3. to[g] \in Ports
  BY DEF Points
<1>4. stage[Owner(g)] # "start"
  BY <1>1, <1>2, <1>3, PortIsNone DEF IInv, Turn, Fresh
<1>5. Kept(Owner(g))
  BY <1>2, <1>4
<1>6. to'[g] = to[g] /\ port'[g] = port[g]
  BY <1>1, <1>5 DEF Kept
<1>7. Produced(Owner(g))' = Produced(Owner(g)) /\ Wanted(Owner(g))' = Wanted(Owner(g))
  BY <1>5 DEF Kept, Produced, Wanted, Owner
<1> QED
  BY <1>6, <1>7 DEF Points, Owner

\* A datagram stays sound.
LEMMA SoundKept ==
  ASSUME IInv, \A x \in Process : Kept(x) \/ stage[x] = "start",
         asked \subseteq asked', NEW d \in net
  PROVE  Sound(d)'
<1>1. Sound(d) /\ d[3] \in Ports
  BY DEF IInv, TypeOK, Ports
<1>2. CASE d[1] = "interest"
  BY <1>1, <1>2 DEF Sound
<1>3. CASE d[1] # "interest"
  <2>1. PICK g \in Face : Points(g, d[2], d[3])
    BY <1>1, <1>3 DEF Sound
  <2>2. Points(g, d[2], d[3])'
    BY <1>1, <2>1, PointsKept
  <2> QED
    BY <1>3, <2>2 DEF Sound, Face
<1> QED
  BY <1>2, <1>3

\* A name served behind the Unix sockets stays served.
LEMMA ServedKept ==
  ASSUME IInv, \A x \in Process : Kept(x) \/ stage[x] = "start",
         NEW n \in Name, Served(n)
  PROVE  Served(n)'
<1>1. PICK p \in NfdProducer \cup Daemon : Produced(p) = n
  BY DEF Served
<1>2. p \in Process
  BY <1>1 DEF Process, Server
<1>3. stage[p] # "start"
  BY <1>1, <1>2, PortIsNone DEF IInv, Turn, Fresh, Produced
<1>4. Produced(p)' = n
  BY <1>1, <1>2, <1>3 DEF Kept, Produced
<1> QED
  BY <1>1, <1>4 DEF Served

\* What a program was called with stays explained.
LEMMA FromKept ==
  ASSUME IInv, \A x \in Process : Kept(x) \/ stage[x] = "start",
         asked \subseteq asked',
         NEW c \in Asker, called'[c] = called[c]
  PROVE  From(c)'
<1> SUFFICES ASSUME "data" \in called[c]
             PROVE  From(c)'
  BY DEF From
<1>1. c \in Process /\ stage[c] # "start"
  BY OfOneKind DEF IInv, Turn, Fresh
<1>2. Kept(c)
  BY <1>1
<1>3. Wanted(c)' = Wanted(c) /\ Local(c)' = Local(c)
  BY <1>2 DEF Kept, Wanted, Local
<1>4. \/ c \in Relay /\ Local(c)
      \/ c \in NfdConsumer /\ Wanted(c) \in Name /\ Served(Wanted(c))
      \/ \E g \in Face, f \in FacesOf(c) : Points(g, Wanted(c), port[f])
  BY DEF IInv, From
<1>5. CASE c \in Relay /\ Local(c)
  BY <1>3, <1>5 DEF From
<1>6. CASE c \in NfdConsumer /\ Wanted(c) \in Name /\ Served(Wanted(c))
  <2>1. PICK n \in Name : n = Wanted(c)
    BY <1>6
  <2>2. Served(n)'
    BY <1>6, <2>1, ServedKept
  <2> QED
    BY <1>3, <1>6, <2>1, <2>2 DEF From
<1>7. ASSUME NEW g \in Face, NEW f \in FacesOf(c), Points(g, Wanted(c), port[f])
      PROVE  From(c)'
  <2>1. f \in Face /\ port'[f] = port[f]
    BY <1>1, <1>2, FaceOf, OfOneKind DEF Kept, FacesOf
  <2>3. PICK n, q : n = Wanted(c) /\ q = port[f]
    OBVIOUS
  <2>4. Points(g, n, q)'
    BY <1>7, <2>3, PointsKept
  <2> QED
    BY <1>3, <2>1, <2>3, <2>4 DEF From
<1> QED
  BY <1>4, <1>5, <1>6, <1>7

\* What a program is by itself stays when nothing of its own changes.
LEMMA TurnKept ==
  ASSUME IInv, NEW p \in Process, Kept(p),
         stage'[p] = stage[p], called'[p] = called[p],
         p \in pit' <=> p \in pit, p \in stray => p \in stray'
  PROVE  Turn(p)'
<1>1. Turn(p)
  BY DEF IInv
<1>2. Fresh(p)'
  BY <1>1 DEF Turn, Fresh, Kept
<1>3. Wired(p)'
  <2>1. \A f \in FacesOf(p) : name'[f] = name[f] /\ port'[f] = port[f] /\ to'[f] = to[f]
    BY FaceOf DEF Kept, FacesOf
  <2> QED
    BY <1>1, <2>1 DEF Turn, Wired, Kept, FacesOf
<1>4. ASSUME p \in Asker PROVE Waits(p)' /\ Ends(p)'
  <2>1. Waits(p) /\ Ends(p)
    BY <1>1, <1>4 DEF Turn
  <2>2. Local(p)' <=> Local(p)
    BY DEF Local, Kept
  <2> QED
    BY <2>1, <2>2 DEF Waits, Ends, Ended, Kept
<1> QED
  BY <1>2, <1>3, <1>4 DEF Turn

\* A step of the programs M, in which only a starting one gets names and
\* ports, keeps the invariant when it leaves them in turn and what it sends
\* sound.
LEMMA StepKeeps ==
  ASSUME IInv, TypeOK', NEW M \in SUBSET Process,
         \A x \in Process \ M :
           /\ Kept(x) /\ stage'[x] = stage[x] /\ called'[x] = called[x]
           /\ x \in pit' <=> x \in pit
           /\ x \in stray => x \in stray',
         \A x \in M : (Kept(x) \/ stage[x] = "start") /\ Turn(x)' /\ (x \in Asker => From(x)'),
         asked \subseteq asked',
         \A d \in net' \ net : Sound(d)',
         \A r \in (waiting' \ waiting) \cap Relay : <<Wanted(r), port[<<r, 1>>]>>' \in asked',
         \A m \in stream' \ stream : m[1] = "interest" \/ Served(m[2])'
  PROVE  IInv'
<1>1. \A x \in Process : Kept(x) \/ stage[x] = "start"
  OBVIOUS
<1>2. \A p \in Process : Turn(p)'
  BY TurnKept
<1>3. \A c \in Asker : From(c)'
  BY <1>1, FromKept, OfOneKind
<1>4. \A d \in net' : Sound(d)'
  BY <1>1, SoundKept
<1>5. ASSUME NEW r \in waiting \cap Relay
      PROVE  <<Wanted(r), port[<<r, 1>>]>>' \in asked'
  <2>1. <<Wanted(r), port[<<r, 1>>]>> \in asked
    BY DEF IInv
  <2>2. port[<<r, 1>>] \in Ports
    BY <2>1 DEF IInv, TypeOK, Ports
  <2>3. r \in Process /\ stage[r] # "start"
    BY <2>2, PortIsNone, OfOneKind DEF IInv, Turn, Fresh
  <2>4. Wanted(r)' = Wanted(r) /\ port'[<<r, 1>>] = port[<<r, 1>>]
    BY <1>1, <2>3 DEF Kept, Wanted
  <2> QED
    BY <2>1, <2>4
<1>6. \A r \in waiting' \cap Relay : <<Wanted(r), port[<<r, 1>>]>>' \in asked'
  BY <1>5
<1>7. ASSUME NEW m \in stream PROVE m[1] = "interest" \/ Served(m[2])'
  <2>1. m[2] \in Name
    BY DEF IInv, TypeOK
  <2>2. m[1] = "interest" \/ Served(m[2])
    BY DEF IInv
  <2> QED
    BY <1>1, <2>1, <2>2, ServedKept
<1>8. \A m \in stream' : m[1] = "interest" \/ Served(m[2])'
  BY <1>7
<1> QED
  BY <1>2, <1>3, <1>4, <1>6, <1>8 DEF IInv

\* The same for a step that leaves all names and ports alone.
LEMMA RunKeeps ==
  ASSUME IInv, TypeOK', UNCHANGED config, NEW M \in SUBSET Process,
         \A x \in Process \ M :
           /\ stage'[x] = stage[x] /\ called'[x] = called[x]
           /\ x \in pit' <=> x \in pit
           /\ x \in stray => x \in stray',
         \A x \in M : Turn(x)' /\ (x \in Asker => From(x)'),
         asked \subseteq asked',
         \A d \in net' \ net : Sound(d)',
         \A r \in (waiting' \ waiting) \cap Relay : <<Wanted(r), port[<<r, 1>>]>>' \in asked',
         \A m \in stream' \ stream : m[1] = "interest" \/ Served(m[2])'
  PROVE  IInv'
<1>1. \A x \in Process : Kept(x)
  BY DEF config, Kept
<1> QED
  BY <1>1, StepKeeps

-----------------------------------------------------------------------------
(* Starting. *)

\* A good port is one.
LEMMA GoodPortIsPort ==
  ASSUME NEW n \in Nat, GoodPort(n)
  PROVE  Port(n) \in Ports
<1>1. Port(n) \in Nat
  BY RequestAssumption DEF Port
<1> QED
  BY <1>1, RequestAssumption DEF GoodPort, Ports

\* parseArgs gives every face of the program a name and ports, and no other.
LEMMA ConfigureSets ==
  ASSUME IInv, NEW p \in Process, Configure(p)
  PROVE  /\ name' \in [Face -> Name \cup {NoName}]
         /\ port' \in [Face -> {NoPort} \cup Ports] /\ to' \in [Face -> {NoPort} \cup Ports]
         /\ \A f \in FacesOf(p) : name'[f] \in Name /\ port'[f] \in Ports /\ to'[f] \in Ports
         /\ \A f \in Face \ FacesOf(p) :
              name'[f] = name[f] /\ port'[f] = port[f] /\ to'[f] = to[f]
<1> DEFINE F == FacesOf(p)
           Good == {a \in Asked : GoodPort(a.local) /\ GoodPort(a.remote)}
           Remote(a) == Port(IF p \in Group \cup GroupProducer THEN a.local ELSE a.remote)
<1>1. PICK arg \in [F -> Good] :
           /\ name' = [f \in Face |-> IF f \in F THEN arg[f].name ELSE name[f]]
           /\ port' = [f \in Face |-> IF f \in F THEN Port(arg[f].local) ELSE port[f]]
           /\ to' = [f \in Face |-> IF f \in F THEN Remote(arg[f]) ELSE to[f]]
  BY DEF Configure
<1>2. ASSUME NEW a \in Good
      PROVE  a.name \in Name /\ Port(a.local) \in Ports /\ Remote(a) \in Ports
  <2>1. a \in [local : Nat, name : Name, remote : Nat] /\ GoodPort(a.local) /\ GoodPort(a.remote)
    BY RequestAssumption
  <2>2. Port(a.local) \in Ports /\ Port(a.remote) \in Ports
    BY <2>1, GoodPortIsPort
  <2> QED
    BY <2>1, <2>2
<1>3. F \subseteq Face
  BY FaceOf
<1>4. \A f \in F : arg[f] \in Good
  OBVIOUS
<1>5. /\ name \in [Face -> Name \cup {NoName}]
      /\ port \in [Face -> {NoPort} \cup Ports] /\ to \in [Face -> {NoPort} \cup Ports]
  BY DEF IInv, TypeOK, Ports
<1> HIDE DEF F, Good, Remote
<1>6. \A f \in F : name'[f] \in Name /\ port'[f] \in Ports /\ to'[f] \in Ports
  BY <1>1, <1>2, <1>3, <1>4
<1>7. \A f \in Face \ F : name'[f] = name[f] /\ port'[f] = port[f] /\ to'[f] = to[f]
  BY <1>1
<1>8. /\ name' \in [Face -> Name \cup {NoName}]
      /\ port' \in [Face -> {NoPort} \cup Ports] /\ to' \in [Face -> {NoPort} \cup Ports]
  BY <1>1, <1>2, <1>4, <1>5
<1> QED
  BY <1>6, <1>7, <1>8 DEF F

\* What a starting UDP program leaves of the names and ports: its own are
\* good, the others' as they were.
LEMMA ConfigureWires ==
  ASSUME IInv, NEW p \in Process, Configure(p)
  PROVE  /\ stage[p] = "start" /\ called[p] = {} /\ (p \in Asker => p \notin pit)
         /\ Wired(p)'
         /\ \A x \in Process \ {p} : Kept(x)
<1>1. stage[p] = "start" /\ Turn(p)
  BY DEF Configure, IInv
<1>2. called[p] = {} /\ (p \in Asker => p \notin pit)
  BY <1>1 DEF Turn, Fresh, Waits
<1>3. Wired(p)'
  <2>1. \A f \in FacesOf(p) : name'[f] \in Name /\ port'[f] \in Ports /\ to'[f] \in Ports
    BY ConfigureSets
  <2>2. ASSUME p \notin Relay PROVE port'[<<p, 2>>] = NoPort
    <3>1. <<p, 2>> \in Face
      BY FaceOf
    <3>2. <<p, 2>> \notin FacesOf(p)
      BY <2>2 DEF FacesOf
    <3> QED
      BY <1>1, <2>2, <3>1, <3>2, ConfigureSets DEF Turn, Wired
  <2> QED
    BY <2>1, <2>2 DEF Wired, FacesOf, Ports
<1>4. ASSUME NEW x \in Process \ {p} PROVE Kept(x)
  <2>1. \A i \in {1, 2} : <<x, i>> \in Face
    BY <1>4, FaceOf
  <2>2. \A i \in {1, 2} : <<x, i>> \notin FacesOf(p)
    BY <1>4 DEF FacesOf
  <2> QED
    BY <2>1, <2>2, ConfigureSets DEF Kept
<1> QED
  BY <1>1, <1>2, <1>3, <1>4

\* The same for a program that starts on a Unix socket.
LEMMA ConfigureUnixNames ==
  ASSUME IInv, NEW p \in Process, ConfigureUnix(p)
  PROVE  /\ stage[p] = "start" /\ called[p] = {} /\ (p \in Asker => p \notin pit)
         /\ Wired(p)'
         /\ \A x \in Process \ {p} : Kept(x)
         /\ name' \in [Face -> Name \cup {NoName}] /\ name'[<<p, 1>>] \in Name
         /\ port' = port /\ to' = to
<1>1. stage[p] = "start" /\ Turn(p) /\ port' = port /\ to' = to
  BY DEF ConfigureUnix, IInv
<1>2. called[p] = {} /\ (p \in Asker => p \notin pit)
  BY <1>1 DEF Turn, Fresh, Waits
<1>3. PICK n \in Name : name' = [name EXCEPT ![<<p, 1>>] = n]
  BY DEF ConfigureUnix
<1>4. name \in [Face -> Name \cup {NoName}] /\ <<p, 1>> \in Face
  BY FaceOf DEF IInv, TypeOK
<1>5. name' \in [Face -> Name \cup {NoName}] /\ name'[<<p, 1>>] \in Name
  BY <1>3, <1>4
<1>6. \A i \in {1, 2} : port'[<<p, i>>] = NoPort /\ to'[<<p, i>>] = NoPort
  BY <1>1 DEF Turn, Fresh
<1>7. Wired(p)'
  BY <1>1, <1>6 DEF Turn, Wired
<1>8. ASSUME NEW x \in Process \ {p} PROVE Kept(x)
  <2>1. \A i \in {1, 2} : <<x, i>> \in Face /\ <<x, i>> # <<p, 1>>
    BY <1>8, FaceOf
  <2> QED
    BY <1>1, <1>3, <1>4, <2>1 DEF Kept
<1> QED
  BY <1>1, <1>2, <1>5, <1>7, <1>8

\* The Interest that a starting program expresses is asked.
LEMMA ExpressAsks ==
  ASSUME IInv, NEW p \in Process, Configure(p),
         NEW f \in FacesOf(p), NEW U, Express(f, U)
  PROVE  /\ net' \subseteq Kinds \X Name \X Ports
         /\ asked \subseteq asked' /\ asked' \subseteq Name \X Ports
         /\ \A d \in net' \ net : Sound(d)'
<1>1. name'[f] \in Name /\ to'[f] \in Ports
  BY ConfigureSets
<1>2. net \subseteq Kinds \X Name \X Ports /\ asked \subseteq Name \X Ports
  BY DEF IInv, TypeOK, Ports
<1>3. CASE UNCHANGED <<net, asked>>
  BY <1>2, <1>3
<1>4. CASE /\ net' = net \cup {<<"interest", name'[f], to'[f]>>}
           /\ asked' = asked \cup {<<name'[f], to'[f]>>}
  <2>1. net' \subseteq Kinds \X Name \X Ports
    BY <1>1, <1>2, <1>4 DEF Kinds
  <2>2. asked \subseteq asked' /\ asked' \subseteq Name \X Ports
    BY <1>1, <1>2, <1>4
  <2>3. ASSUME NEW d \in net' \ net PROVE Sound(d)'
    <3>1. d = <<"interest", name'[f], to'[f]>>
      BY <1>4
    <3>2. d[1] = "interest" /\ <<d[2], d[3]>> \in asked'
      BY <1>4, <3>1
    <3> QED
      BY <3>2 DEF Sound
  <2> QED
    BY <2>1, <2>2, <2>3
<1> QED
  BY <1>3, <1>4 DEF Express

\* Only faces of the program come up.
LEMMA OpenedAreFaces ==
  ASSUME IInv, NEW p \in Process, NEW U \in Opened(p)
  PROVE  up \cup U \subseteq Face
BY FaceOf DEF Opened, IInv, TypeOK

\* A program whose arguments are refused has asked nothing.
LEMMA RefusedStep ==
  ASSUME IInv, NEW p \in Process, StartRefused(p)
  PROVE  IInv'
<1>1. /\ stage[p] = "start" /\ stage' = [stage EXCEPT ![p] = "exited"]
      /\ UNCHANGED <<config, up, pit, waiting, called, asked, stray, net, stream>>
  BY DEF StartRefused
<1>2. UNCHANGED <<name, port, to>> /\ Kept(p)
  BY <1>1 DEF config, Kept
<1>3. TypeOK'
  BY <1>1, <1>2 DEF IInv, TypeOK
<1>4. stage'[p] = "exited" /\ \A x \in Process \ {p} : stage'[x] = stage[x]
  BY <1>1 DEF IInv, TypeOK
<1>5. Turn(p)'
  <2>1. Turn(p) /\ name'[<<p, 1>>] = NoName /\ called'[p] = {}
    BY <1>1, <1>2 DEF IInv, Turn, Fresh
  <2>2. Wired(p)'
    BY <1>2, <2>1 DEF Turn, Wired, FacesOf
  <2>3. p \in Asker => Waits(p)' /\ Ends(p)'
    BY <1>1, <1>4, <2>1 DEF Turn, Waits, Ends
  <2> QED
    BY <1>4, <2>2, <2>3 DEF Turn, Fresh
<1>6. p \in Asker => From(p)'
  BY <1>1, <1>2, FromKept DEF Kept
<1>7. {p} \in SUBSET Process
  OBVIOUS
<1> QED
  BY <1>1, <1>3, <1>4, <1>5, <1>6, <1>7, RunKeeps

\* A producer or daemon that starts asks nothing.
LEMMA StartServerStep ==
  ASSUME IInv, NEW p \in Server, StartProducer(p) \/ StartDaemon(p)
  PROVE  IInv'
<1>1. p \in Process /\ p \notin Asker
  BY OfOneKind
<1>2. /\ UNCHANGED <<pit, waiting, called, asked, stray, net, stream>>
      /\ Configure(p) \/ ConfigureUnix(p)
      /\ up' \in {up \cup U : U \in Opened(p)}
  BY DEF StartProducer, StartDaemon
<1>3. \/ stage' = [stage EXCEPT ![p] = "loop"]
      \/ stage' = [stage EXCEPT ![p] = "exited"]
  BY DEF StartProducer, StartDaemon
<1>4. /\ stage[p] = "start" /\ Wired(p)' /\ \A x \in Process \ {p} : Kept(x)
      /\ name' \in [Face -> Name \cup {NoName}]
      /\ port' \in [Face -> {NoPort} \cup Ports] /\ to' \in [Face -> {NoPort} \cup Ports]
  BY <1>1, <1>2, ConfigureSets, ConfigureWires, ConfigureUnixNames DEF IInv, TypeOK, Ports
<1>5. /\ stage'[p] # "start" /\ \A x \in Process \ {p} : stage'[x] = stage[x]
      /\ stage' \in [Process -> {"absent", "start", "loop", "exited", "crashed"}]
  BY <1>1, <1>3 DEF IInv, TypeOK
<1>6. up' \subseteq Face
  BY <1>1, <1>2, OpenedAreFaces
<1>7. TypeOK'
  BY <1>2, <1>4, <1>5, <1>6 DEF IInv, TypeOK, Ports
<1>8. Turn(p)'
  BY <1>1, <1>4, <1>5 DEF Turn, Fresh
<1>9. {p} \in SUBSET Process
  BY <1>1
<1> QED
  BY <1>1, <1>2, <1>4, <1>5, <1>7, <1>8, <1>9, StepKeeps

\* What is left to show of a program that starts and may ask: it then waits,
\* is stray, or has its own answer.
LEMMA StartAskerKeeps ==
  ASSUME IInv, NEW p \in Asker, Configure(p) \/ ConfigureUnix(p),
         \/ stage' = [stage EXCEPT ![p] = "loop"]
         \/ stage' = [stage EXCEPT ![p] = "crashed"] /\ called' = called /\ pit' = pit,
         waiting' = waiting, NEW U \in Opened(p), up' = up \cup U \/ up' = up,
         pit' = pit \/ pit' = pit \cup {p}, stray' = stray \/ stray' = stray \cup {p},
         \/ called' = called /\ (stage'[p] = "loop" => p \in pit' \cup stray')
         \/ /\ called' = [called EXCEPT ![p] = {"data"}] /\ pit' = pit
            /\ p \in Relay /\ Local(p)',
         asked \subseteq asked' /\ asked' \subseteq Name \X Ports,
         net' \subseteq Kinds \X Name \X Ports, \A d \in net' \ net : Sound(d)',
         stream' \subseteq Kinds \X Name \X Process,
         \A m \in stream' \ stream : m[1] = "interest"
  PROVE  IInv'
<1>1. p \in Process /\ p \in Asker
  BY OfOneKind
<1>2. /\ stage[p] = "start" /\ called[p] = {} /\ p \notin pit /\ Wired(p)'
      /\ \A x \in Process \ {p} : Kept(x)
      /\ name' \in [Face -> Name \cup {NoName}]
      /\ port' \in [Face -> {NoPort} \cup Ports] /\ to' \in [Face -> {NoPort} \cup Ports]
  BY <1>1, ConfigureSets, ConfigureWires, ConfigureUnixNames DEF IInv, TypeOK, Ports
<1>3. /\ stage'[p] \in {"loop", "crashed"} /\ \A x \in Process \ {p} : stage'[x] = stage[x]
      /\ stage' \in [Process -> {"absent", "start", "loop", "exited", "crashed"}]
      /\ stage'[p] = "crashed" => called' = called /\ pit' = pit
  BY <1>1 DEF IInv, TypeOK
<1>4. /\ called' \in [Process -> SUBSET {"data", "timeout"}]
      /\ \A x \in Process \ {p} : called'[x] = called[x]
      /\ called' # called => called'[p] = {"data"}
  BY <1>1 DEF IInv, TypeOK
<1>5. up' \subseteq Face /\ pit' \subseteq Asker /\ stray' \subseteq Asker
  BY <1>1, OpenedAreFaces DEF IInv, TypeOK
<1>6. TypeOK'
  BY <1>2, <1>3, <1>4, <1>5 DEF IInv, TypeOK, Ports
<1>7. Turn(p)'
  <2>1. Fresh(p)'
    BY <1>3 DEF Fresh
  <2>2. Waits(p)'
    BY <1>2, <1>3 DEF Waits
  <2>3. Ends(p)'
    BY <1>1, <1>2, <1>3, <1>4 DEF Ends, IInv, TypeOK
  <2> QED
    BY <1>2, <2>1, <2>2, <2>3 DEF Turn
<1>8. From(p)'
  <2>1. CASE called' = called
    BY <1>2, <2>1 DEF From
  <2>2. CASE p \in Relay /\ Local(p)'
    BY <2>2 DEF From
  <2> QED
    BY <2>1, <2>2
<1>9. {p} \in SUBSET Process
  BY <1>1
<1>10. \A x \in Process \ {p} :
         /\ Kept(x) /\ stage'[x] = stage[x] /\ called'[x] = called[x]
         /\ x \in pit' <=> x \in pit
         /\ x \in stray => x \in stray'
  BY <1>2, <1>3, <1>4
<1>11. \A x \in {p} : (Kept(x) \/ stage[x] = "start") /\ Turn(x)' /\ (x \in Asker => From(x)')
  BY <1>2, <1>7, <1>8
<1>12. (waiting' \ waiting) \cap Relay = {}
  OBVIOUS
<1> QED
  BY <1>6, <1>9, <1>10, <1>11, <1>12, StepKeeps

\* The consumer waits for the answer to what it asks, or is stray.
LEMMA StartConsumerStep ==
  ASSUME IInv, NEW c \in Process, StartConsumer(c)
  PROVE  IInv'
<1>1. /\ c \in Asker /\ Configure(c) /\ stage' = [stage EXCEPT ![c] = "loop"]
      /\ UNCHANGED <<waiting, called, stream>>
  BY OfOneKind DEF StartConsumer
<1>2. PICK U \in Opened(c) :
        /\ up' = up \cup U
        /\ \/ stray' = stray \cup {c} /\ UNCHANGED <<pit, asked, net>>
           \/ pit' = pit \cup {c} /\ Express(<<c, 1>>, U) /\ UNCHANGED stray
  BY DEF StartConsumer
<1>3. /\ asked \subseteq asked' /\ asked' \subseteq Name \X Ports
      /\ net' \subseteq Kinds \X Name \X Ports /\ \A d \in net' \ net : Sound(d)'
  <2>1. CASE UNCHANGED <<asked, net>>
    BY <2>1 DEF IInv, TypeOK, Ports
  <2>2. CASE Express(<<c, 1>>, U)
    BY <1>1, <2>2, FaceOf, ExpressAsks
  <2> QED
    BY <1>2, <2>1, <2>2
<1>4. stream' \subseteq Kinds \X Name \X Process /\ stream' \ stream = {}
  BY <1>1 DEF IInv, TypeOK
<1>5. c \in pit' \cup stray' /\ (pit' = pit \/ pit' = pit \cup {c})
      /\ (stray' = stray \/ stray' = stray \cup {c})
  BY <1>2
<1> QED
  BY <1>1, <1>2, <1>3, <1>4, <1>5, StartAskerKeeps

\* The same over the Unix socket.
LEMMA StartNfdConsumerStep ==
  ASSUME IInv, NEW c \in Process, StartNfdConsumer(c)
  PROVE  IInv'
<1>1. /\ c \in Asker /\ ConfigureUnix(c) /\ stage' = [stage EXCEPT ![c] = "loop"]
      /\ UNCHANGED <<waiting, called, asked, net>> /\ c \in NfdConsumer
  BY OfOneKind DEF StartNfdConsumer
<1>2. PICK U \in Opened(c) :
        /\ up' = up \cup U
        /\ \/ stray' = stray \cup {c} /\ UNCHANGED <<pit, stream>>
           \/ /\ pit' = pit \cup {c}
              /\ stream' = stream \cup {<<"interest", name'[f], c>> : f \in U}
              /\ UNCHANGED stray
  BY DEF StartNfdConsumer
<1>3. /\ asked \subseteq asked' /\ asked' \subseteq Name \X Ports
      /\ net' \subseteq Kinds \X Name \X Ports /\ net' \ net = {}
  BY <1>1 DEF IInv, TypeOK, Ports
<1>4. /\ stream' \subseteq Kinds \X Name \X Process
      /\ \A m \in stream' \ stream : m[1] = "interest"
  <2>1. stream \subseteq Kinds \X Name \X Process
    BY DEF IInv, TypeOK
  <2>2. U \subseteq {<<c, 1>>}
    BY <1>1, OfOneKind, FaceOf DEF Opened
  <2>3. name'[<<c, 1>>] \in Name
    BY <1>1, ConfigureUnixNames
  <2>4. ASSUME NEW f \in U
        PROVE  <<"interest", name'[f], c>> \in Kinds \X Name \X Process
    BY <2>2, <2>3 DEF Kinds
  <2> QED
    BY <1>2, <2>1, <2>4
<1>5. c \in pit' \cup stray' /\ (pit' = pit \/ pit' = pit \cup {c})
      /\ (stray' = stray \/ stray' = stray \cup {c})
  BY <1>2
<1> QED
  BY <1>1, <1>2, <1>3, <1>4, <1>5, StartAskerKeeps

\* The group consumer ends without a callback: it is not one that waits.
LEMMA StartGroupStep ==
  ASSUME IInv, NEW g \in Process, StartGroup(g)
  PROVE  IInv'
<1>1. /\ g \in Group /\ Configure(g) /\ stage' = [stage EXCEPT ![g] = "exited"]
      /\ \E U : Express(<<g, 1>>, U)
      /\ UNCHANGED <<up, pit, waiting, called, stray, stream>>
  BY DEF StartGroup
<1>2. g \notin Asker
  BY <1>1, OfOneKind
<1>3. /\ stage[g] = "start" /\ Wired(g)' /\ \A x \in Process \ {g} : Kept(x)
      /\ name' \in [Face -> Name \cup {NoName}]
      /\ port' \in [Face -> {NoPort} \cup Ports] /\ to' \in [Face -> {NoPort} \cup Ports]
  BY <1>1, ConfigureSets, ConfigureWires
<1>4. /\ stage'[g] = "exited" /\ \A x \in Process \ {g} : stage'[x] = stage[x]
      /\ stage' \in [Process -> {"absent", "start", "loop", "exited", "crashed"}]
  BY <1>1 DEF IInv, TypeOK
<1>5. /\ asked \subseteq asked' /\ asked' \subseteq Name \X Ports
      /\ net' \subseteq Kinds \X Name \X Ports /\ \A d \in net' \ net : Sound(d)'
  BY <1>1, FaceOf, ExpressAsks
<1>6. TypeOK'
  BY <1>1, <1>3, <1>4, <1>5 DEF IInv, TypeOK, Ports
<1>7. Turn(g)'
  BY <1>2, <1>3, <1>4 DEF Turn, Fresh
<1>8. {g} \in SUBSET Process
  OBVIOUS
<1> QED
  BY <1>1, <1>2, <1>3, <1>4, <1>5, <1>6, <1>7, <1>8, StepKeeps

\* The relay waits, is stray, has answered itself, or has crashed.
LEMMA StartRelayStep ==
  ASSUME IInv, NEW r \in Process, StartRelay(r)
  PROVE  IInv'
<1>1. r \in Relay /\ r \in Asker /\ Configure(r) /\ UNCHANGED <<waiting, stream>>
  BY OfOneKind DEF StartRelay
<1>2. stream' \subseteq Kinds \X Name \X Process /\ stream' \ stream = {}
  BY <1>1 DEF IInv, TypeOK
<1>3. UNCHANGED <<asked, net>> =>
        /\ asked \subseteq asked' /\ asked' \subseteq Name \X Ports
        /\ net' \subseteq Kinds \X Name \X Ports /\ net' \ net = {}
  BY DEF IInv, TypeOK, Ports
<1>4. CASE /\ stage' = [stage EXCEPT ![r] = "crashed"]
           /\ UNCHANGED <<up, pit, called, asked, stray, net>>
  <2>1. {} \in Opened(r)
    BY DEF Opened
  <2>2. stage'[r] # "loop"
    BY <1>1, <1>4, OfOneKind DEF IInv, TypeOK
  <2> QED
    BY <1>1, <1>2, <1>3, <1>4, <2>1, <2>2, StartAskerKeeps
<1>5. ASSUME NEW U \in Opened(r), stage' = [stage EXCEPT ![r] = "loop"], up' = up \cup U,
             stray' = stray \cup {r}, UNCHANGED <<pit, called, asked, net>>
      PROVE  IInv'
  BY <1>1, <1>2, <1>3, <1>5, StartAskerKeeps
<1>6. ASSUME NEW U \in Opened(r), stage' = [stage EXCEPT ![r] = "loop"], up' = up \cup U,
             Local(r)', called' = [called EXCEPT ![r] = {"data"}],
             UNCHANGED <<pit, asked, stray, net>>
      PROVE  IInv'
  BY <1>1, <1>2, <1>3, <1>6, StartAskerKeeps
<1>7. ASSUME NEW U \in Opened(r), stage' = [stage EXCEPT ![r] = "loop"], up' = up \cup U,
             pit' = pit \cup {r}, UNCHANGED <<called, stray>>,
             UNCHANGED <<asked, net>> \/ Express(<<r, 2>>, U)
      PROVE  IInv'
  <2>1. /\ asked \subseteq asked' /\ asked' \subseteq Name \X Ports
        /\ net' \subseteq Kinds \X Name \X Ports /\ \A d \in net' \ net : Sound(d)'
    <3>1. <<r, 2>> \in FacesOf(r)
      BY <1>1, FaceOf
    <3> QED
      BY <1>1, <1>3, <1>7, <3>1, ExpressAsks
  <2> QED
    BY <1>1, <1>2, <1>7, <2>1, StartAskerKeeps
<1> QED
  BY <1>1, <1>4, <1>5, <1>6, <1>7 DEF StartRelay

-----------------------------------------------------------------------------
(* Running. *)

\* An exchange takes a datagram on the way and adds the answers.
LEMMA Exchanged ==
  ASSUME NEW d, NEW R, Exchange(d, R)
  PROVE  d \in net /\ net' \subseteq net \cup R
BY DEF Exchange

\* A step of the forwarders, which calls no program back.
LEMMA QuietKeeps ==
  ASSUME IInv, UNCHANGED <<stage, config, pit, called, stray>>,
         up' \subseteq up, waiting' \subseteq Relay \cup NfdConsumer,
         asked \subseteq asked' /\ asked' \subseteq Name \X Ports,
         \A d \in net' \ net : d \in Kinds \X Name \X Ports /\ Sound(d)',
         \A r \in (waiting' \ waiting) \cap Relay : <<Wanted(r), port[<<r, 1>>]>> \in asked',
         \A m \in stream' \ stream :
           m \in Kinds \X Name \X Process /\ (m[1] = "interest" \/ Served(m[2]))
  PROVE  IInv'
<1>1. UNCHANGED <<name, port, to>>
  BY DEF config
<1>2. net' \subseteq Kinds \X Name \X Ports /\ stream' \subseteq Kinds \X Name \X Process
  BY DEF IInv, TypeOK, Ports
<1>3. TypeOK'
  BY <1>1, <1>2 DEF IInv, TypeOK, Ports
<1>4. \A n : Served(n) => Served(n)'
  BY <1>1 DEF Served, Produced
<1>5. \A r : Wanted(r)' = Wanted(r)
  BY <1>1 DEF Wanted
<1>6. {} \in SUBSET Process
  OBVIOUS
<1>7. \A m \in stream' \ stream : m[1] = "interest" \/ Served(m[2])'
  BY <1>4
<1>8. \A r \in (waiting' \ waiting) \cap Relay : <<Wanted(r), port[<<r, 1>>]>>' \in asked'
  BY <1>1, <1>5
<1>9. \A x \in Process \ {} :
        /\ stage'[x] = stage[x] /\ called'[x] = called[x]
        /\ x \in pit' <=> x \in pit
        /\ x \in stray => x \in stray'
  OBVIOUS
<1> QED
  BY <1>3, <1>6, <1>7, <1>8, <1>9, RunKeeps

\* A program gets its one callback and leaves the loop.
LEMMA LeaveKeeps ==
  ASSUME IInv, NEW c \in pit, UNCHANGED config, NEW x \in {"data", "timeout"},
         pit' = pit \ {c}, called' = [called EXCEPT ![c] = @ \cup {x}],
         NEW s \in {"exited", "crashed"}, stage' = [stage EXCEPT ![c] = s],
         up' = up \ FacesOf(c), UNCHANGED <<stray, asked>>,
         waiting' \subseteq waiting, stream' \subseteq stream,
         \A d \in net' \ net : d \in Kinds \X Name \X Ports /\ Sound(d)',
         x = "data" =>
           \/ c \in Relay /\ Local(c)
           \/ c \in NfdConsumer /\ Wanted(c) \in Name /\ Served(Wanted(c))
           \/ \E g \in Face, f \in FacesOf(c) : Points(g, Wanted(c), port[f])
  PROVE  IInv'
<1>1. UNCHANGED <<name, port, to>> /\ \A y : Kept(y)
  BY DEF config, Kept
<1>2. c \in Asker /\ c \in Process /\ Turn(c) /\ called[c] = {} /\ stage[c] = "loop"
  BY OfOneKind DEF IInv, TypeOK, Turn, Waits
<1>3. /\ stage'[c] = s /\ \A y \in Process \ {c} : stage'[y] = stage[y]
      /\ stage' \in [Process -> {"absent", "start", "loop", "exited", "crashed"}]
  BY <1>2 DEF IInv, TypeOK
<1>4. /\ called'[c] = {x} /\ \A y \in Process \ {c} : called'[y] = called[y]
      /\ called' \in [Process -> SUBSET {"data", "timeout"}]
  BY <1>2 DEF IInv, TypeOK
<1>5. net' \subseteq Kinds \X Name \X Ports
  BY DEF IInv, TypeOK, Ports
<1>6. TypeOK'
  BY <1>1, <1>3, <1>4, <1>5 DEF IInv, TypeOK, Ports
<1>7. Turn(c)'
  <2>1. Wired(c)'
    BY <1>1, <1>2 DEF Turn, Wired, FacesOf
  <2>2. Fresh(c)' /\ Waits(c)' /\ Ends(c)'
    BY <1>2, <1>3, <1>4 DEF Fresh, Waits, Ends, Ended
  <2> QED
    BY <2>1, <2>2 DEF Turn
<1>8. From(c)'
  <2>1. CASE x = "timeout"
    BY <1>4, <2>1 DEF From
  <2>2. CASE x = "data"
    <3>1. Wanted(c)' = Wanted(c) /\ (Local(c)' <=> Local(c))
      BY <1>1 DEF Wanted, Local
    <3>2. Served(Wanted(c))' <=> Served(Wanted(c))
      BY <1>1, <3>1 DEF Served, Produced
    <3>3. \A g, f : Points(g, Wanted(c), port[f]) => Points(g, Wanted(c), port[f])'
      BY <1>1, <3>1 DEF Points, Produced, Wanted
    <3> QED
      BY <2>2, <3>1, <3>2, <3>3 DEF From
  <2> QED
    BY <2>1, <2>2
<1>9. {c} \in SUBSET Process
  BY <1>2
<1>10. \A y \in Process \ {c} :
         /\ stage'[y] = stage[y] /\ called'[y] = called[y]
         /\ y \in pit' <=> y \in pit
         /\ y \in stray => y \in stray'
  BY <1>3, <1>4
<1>11. \A m \in stream' \ stream : m[1] = "interest" \/ Served(m[2])'
  OBVIOUS
<1>12. (waiting' \ waiting) \cap Relay = {}
  OBVIOUS
<1> QED
  BY <1>6, <1>7, <1>8, <1>9, <1>10, <1>11, <1>12, RunKeeps

\* A face with a port belongs to a program whose faces all have a name and
\* ports.
LEMMA PortMeansWired ==
  ASSUME IInv, NEW f \in Face, port[f] \in Ports
  PROVE  /\ f \in FacesOf(Owner(f)) /\ Owner(f) \in Process
         /\ \A g \in FacesOf(Owner(f)) : name[g] \in Name /\ port[g] \in Ports /\ to[g] \in Ports
<1>1. PICK i \in {1, 2} : f = <<Owner(f), i>>
  BY FaceOf
<1>2. Owner(f) \in Process /\ Wired(Owner(f))
  BY FaceOf DEF IInv, Turn
<1>3. \A g \in FacesOf(Owner(f)) : name[g] \in Name /\ port[g] \in Ports /\ to[g] \in Ports
  BY <1>1, <1>2, PortIsNone DEF Wired
<1>4. f \in FacesOf(Owner(f))
  BY <1>1, <1>2, PortIsNone, FaceOf DEF Wired
<1> QED
  BY <1>2, <1>3, <1>4

\* An Interest on the way has been asked, and an answer comes from a face
\* that points back at where it goes.
LEMMA OnTheWay ==
  ASSUME IInv, NEW k, NEW n, NEW q, <<k, n, q>> \in net
  PROVE  /\ k \in Kinds /\ n \in Name /\ q \in Ports
         /\ k = "interest" => <<n, q>> \in asked
         /\ k # "interest" => \E g \in Face : Points(g, n, q)
<1>1. <<k, n, q>> \in Kinds \X Name \X Ports /\ Sound(<<k, n, q>>)
  BY DEF IInv, TypeOK, Ports
<1> QED
  BY <1>1 DEF Sound

\* The answer of a producer goes where its face points, and was asked for.
LEMMA OnInterestStep ==
  ASSUME IInv, NEW f \in Face, OnInterest(f)
  PROVE  IInv'
<1>1. /\ Exchange(<<"interest", Produced(Owner(f)), port[f]>>, {Reply(f)})
      /\ UNCHANGED <<stage, config, up, pit, waiting, called, asked, stray, stream>>
  BY DEF OnInterest
<1>2. <<"interest", Produced(Owner(f)), port[f]>> \in net /\ net' \subseteq net \cup {Reply(f)}
  BY <1>1, Exchanged
<1>3. /\ Produced(Owner(f)) \in Name /\ port[f] \in Ports
      /\ <<Produced(Owner(f)), port[f]>> \in asked
  BY <1>2, OnTheWay
<1>4. to[f] \in Ports
  BY <1>3, PortMeansWired
<1>5. Points(f, Produced(Owner(f)), to[f])'
  BY <1>1, <1>3, <1>4 DEF Points, config, Produced
<1>6. Reply(f) \in Kinds \X Name \X Ports /\ Sound(Reply(f))'
  <2>1. Reply(f)' = <<"data", Produced(Owner(f)), to[f]>>' /\ Reply(f)' = Reply(f)
    BY <1>1 DEF Reply, config, Produced
  <2>2. Reply(f) = <<"data", Produced(Owner(f)), to[f]>>
    BY DEF Reply
  <2> QED
    BY <1>3, <1>4, <1>5, <2>1, <2>2 DEF Sound, Kinds
<1>7. \A d \in net' \ net : d \in Kinds \X Name \X Ports /\ Sound(d)'
  BY <1>1, <1>2, <1>6 DEF Reply, config, Produced, Sound
<1> QED
  BY <1>1, <1>7, QuietKeeps DEF IInv, TypeOK, Ports

\* The consumer prints an answer that came from a face that points at it.
LEMMA DataArrivesStep ==
  ASSUME IInv, NEW c \in Process, DataArrives(c)
  PROVE  IInv'
<1>1. PICK kind \in Kinds \ {"interest"} :
        Exchange(<<kind, Wanted(c), port[<<c, 1>>]>>, {}) /\ OnData(c, kind)
  BY DEF DataArrives
<1>2. c \in pit /\ UNCHANGED <<config, waiting, asked, stray, stream>>
  BY DEF DataArrives
<1>3. <<kind, Wanted(c), port[<<c, 1>>]>> \in net /\ net' \ net = {}
  BY <1>1, Exchanged
<1>4. Wanted(c) \in Name /\ \E g \in Face : Points(g, Wanted(c), port[<<c, 1>>])
  BY <1>1, <1>3, OnTheWay
<1>5. <<c, 1>> \in FacesOf(c)
  BY FaceOf
<1> QED
  BY <1>1, <1>2, <1>3, <1>4, <1>5, LeaveKeeps DEF OnData, Outcomes

\* The relay passes on what it was asked for, and so asks for it.
LEMMA RelayInterestStep ==
  ASSUME IInv, NEW r \in Process, RelayInterest(r)
  PROVE  IInv'
<1> DEFINE d == <<"interest", Wanted(r), port[<<r, 1>>]>>
           e == <<"interest", Wanted(r), to[<<r, 2>>]>>
<1>1. /\ r \in Relay /\ waiting' = waiting \cup {r}
      /\ UNCHANGED <<stage, config, up, pit, called, stray, stream>>
      /\ \/ Exchange(d, {e}) /\ asked' = asked \cup {<<Wanted(r), to[<<r, 2>>]>>}
         \/ Exchange(d, {}) /\ UNCHANGED asked
  BY DEF RelayInterest
<1>2. d \in net /\ net' \subseteq net \cup {e}
      /\ (net' \subseteq net \/ asked' = asked \cup {<<Wanted(r), to[<<r, 2>>]>>})
  BY <1>1, Exchanged
<1>3. /\ Wanted(r) \in Name /\ port[<<r, 1>>] \in Ports
      /\ <<Wanted(r), port[<<r, 1>>]>> \in asked
  BY <1>2, OnTheWay
<1>4. to[<<r, 2>>] \in Ports
  <2>1. <<r, 1>> \in Face /\ Owner(<<r, 1>>) = r /\ <<r, 2>> \in FacesOf(r)
    BY <1>1, FaceOf
  <2> QED
    BY <1>3, <2>1, PortMeansWired
<1>5. asked \subseteq asked' /\ asked' \subseteq Name \X Ports
  BY <1>1, <1>3, <1>4 DEF IInv, TypeOK, Ports
<1>6. ASSUME NEW m \in net' \ net PROVE m \in Kinds \X Name \X Ports /\ Sound(m)'
  <2>1. m = e /\ <<Wanted(r), to[<<r, 2>>]>> \in asked'
    BY <1>2, <1>6
  <2>2. m[1] = "interest" /\ <<m[2], m[3]>> \in asked'
    BY <2>1
  <2> QED
    BY <1>3, <1>4, <2>1, <2>2 DEF Sound, Kinds
<1>7. \A x \in (waiting' \ waiting) \cap Relay : <<Wanted(x), port[<<x, 1>>]>> \in asked'
  BY <1>1, <1>3, <1>5
<1>8. waiting' \subseteq Relay \cup NfdConsumer
  BY <1>1 DEF IInv, TypeOK
<1> QED
  BY <1>1, <1>5, <1>6, <1>7, <1>8, QuietKeeps

\* The relay sends the answer on to where it was asked, and prints it when it
\* has asked itself.
LEMMA RelayDataStep ==
  ASSUME IInv, NEW f \in Face, RelayData(f)
  PROVE  IInv'
<1> DEFINE r == Owner(f)
           back(k) == {<<k, Wanted(r), to[g]>> : g \in up \cap ({r} \cap waiting) \X {1}}
<1>1. PICK kind \in Kinds \ {"interest"} :
        /\ Exchange(<<kind, Wanted(r), port[f]>>, back(kind))
        /\ IF r \in pit THEN OnData(r, kind) ELSE UNCHANGED <<pit, called, stage, up>>
  BY DEF RelayData
<1>2. /\ r \in Relay /\ waiting' = waiting \ {r}
      /\ UNCHANGED <<config, asked, stray, stream>>
  BY DEF RelayData
<1>3. <<kind, Wanted(r), port[f]>> \in net /\ net' \subseteq net \cup back(kind)
  BY <1>1, Exchanged
<1>4. /\ Wanted(r) \in Name /\ port[f] \in Ports
      /\ \E g \in Face : Points(g, Wanted(r), port[f])
  BY <1>1, <1>3, OnTheWay
<1>5. /\ r \in Process /\ f \in FacesOf(r) /\ <<r, 1>> \in FacesOf(r) /\ <<r, 1>> \in Face
      /\ to[<<r, 1>>] \in Ports /\ Owner(<<r, 1>>) = r
  BY <1>4, PortMeansWired, FaceOf
<1>6. ASSUME NEW m \in net' \ net PROVE m \in Kinds \X Name \X Ports /\ Sound(m)'
  <2>1. r \in waiting /\ m = <<kind, Wanted(r), to[<<r, 1>>]>>
    BY <1>3, <1>6
  <2>2. <<Wanted(r), port[<<r, 1>>]>> \in asked
    BY <1>2, <2>1 DEF IInv
  <2>3. m[1] # "interest" /\ m[2] = Wanted(r) /\ m[3] = to[<<r, 1>>]
    BY <2>1
  <2>4. Points(<<r, 1>>, m[2], m[3])'
    BY <1>2, <1>5, <2>2, <2>3 DEF Points, config, Produced, Wanted
  <2> QED
    BY <1>4, <1>5, <2>1, <2>3, <2>4 DEF Sound
<1>7. waiting' \subseteq waiting /\ waiting' \subseteq Relay \cup NfdConsumer
  BY <1>2 DEF IInv, TypeOK
<1>8. CASE r \in pit
  BY <1>1, <1>2, <1>4, <1>5, <1>6, <1>7, <1>8, LeaveKeeps DEF OnData, Outcomes
<1>9. CASE r \notin pit
  BY <1>1, <1>2, <1>6, <1>7, <1>9, QuietKeeps DEF IInv, TypeOK, Ports
<1> QED
  BY <1>8, <1>9

\* The relay that serves what it asks for prints its own answer.
LEMMA RelayAnswersItselfStep ==
  ASSUME IInv, NEW r \in Process, RelayAnswersItself(r)
  PROVE  IInv'
<1>1. /\ r \in Relay /\ r \in pit /\ Local(r) /\ OnData(r, "data")
      /\ UNCHANGED <<config, waiting, asked, stray, net, stream>>
  BY DEF RelayAnswersItself
<1> QED
  BY <1>1, LeaveKeeps DEF OnData, Outcomes

\* The Interest of a client ends without an answer.
LEMMA OnTimeoutStep ==
  ASSUME IInv, NEW c \in Process, OnTimeout(c)
  PROVE  IInv'
<1>1. /\ c \in pit /\ pit' = pit \ {c}
      /\ called' = [called EXCEPT ![c] = @ \cup {"timeout"}]
      /\ stage' = [stage EXCEPT ![c] = "exited"] /\ up' = up \ FacesOf(c)
      /\ stream' \subseteq stream /\ waiting' \subseteq waiting
      /\ UNCHANGED <<config, asked, stray, net>>
  BY DEF OnTimeout
<1> QED
  BY <1>1, LeaveKeeps

\* A program behind a Unix socket answers with the name it serves.
LEMMA OnStreamInterestStep ==
  ASSUME IInv, NEW p \in Process, NEW x \in Process, OnStreamInterest(p, x)
  PROVE  IInv'
<1>1. /\ p \in Daemon \cup NfdProducer
      /\ <<"interest", Produced(p), x>> \in stream
      /\ stream' \subseteq stream \cup {<<"data", Produced(p), x>>}
      /\ UNCHANGED <<stage, config, up, pit, waiting, called, asked, stray, net>>
  BY DEF OnStreamInterest
<1>2. Produced(p) \in Name /\ Served(Produced(p))
  BY <1>1 DEF IInv, TypeOK, Served
<1>3. ASSUME NEW m \in stream' \ stream
      PROVE  m \in Kinds \X Name \X Process /\ Served(m[2])
  <2>1. m = <<"data", Produced(p), x>>
    BY <1>1, <1>3
  <2> QED
    BY <1>2, <2>1 DEF Kinds
<1> QED
  BY <1>1, <1>3, QuietKeeps DEF IInv, TypeOK, Ports

\* NFD passes an Interest on.
LEMMA NfdInterestStep ==
  ASSUME IInv, NEW p \in Process, NEW c \in Process, NfdInterest(c, p)
  PROVE  IInv'
<1>1. /\ c \in NfdConsumer /\ <<"interest", Wanted(c), c>> \in stream
      /\ stream' \subseteq stream \cup {<<"interest", Wanted(c), p>>}
      /\ waiting' = waiting \cup {c}
      /\ UNCHANGED <<stage, config, up, pit, called, asked, stray, net>>
  BY DEF NfdInterest
<1>2. Wanted(c) \in Name
  BY <1>1 DEF IInv, TypeOK
<1>3. ASSUME NEW m \in stream' \ stream
      PROVE  m \in Kinds \X Name \X Process /\ m[1] = "interest"
  <2>1. m = <<"interest", Wanted(c), p>>
    BY <1>1, <1>3
  <2> QED
    BY <1>2, <2>1 DEF Kinds
<1>4. c \notin Relay
  BY <1>1, OfOneKind
<1> QED
  BY <1>1, <1>3, <1>4, QuietKeeps DEF IInv, TypeOK, Ports

\* NFD hands the answer of a producer to the clients that wait for it.
LEMMA NfdDataStep ==
  ASSUME IInv, NEW p \in Process, NfdData(p)
  PROVE  IInv'
<1> DEFINE C == {c \in waiting \cap NfdConsumer : Wanted(c) = Produced(p)}
<1>1. /\ p \in NfdProducer /\ <<"data", Produced(p), p>> \in stream
      /\ stream' \subseteq stream \cup {<<"data", Produced(p), c>> : c \in C}
      /\ waiting' \subseteq waiting
      /\ UNCHANGED <<stage, config, up, pit, called, asked, stray, net>>
  BY DEF NfdData
<1>2. Produced(p) \in Name /\ Served(Produced(p)) /\ C \subseteq Process
  BY <1>1, OfOneKind DEF IInv, TypeOK, Served
<1>3. ASSUME NEW m \in stream' \ stream
      PROVE  m \in Kinds \X Name \X Process /\ Served(m[2])
  <2>1. PICK c \in C : m = <<"data", Produced(p), c>>
    BY <1>1, <1>3
  <2> QED
    BY <1>2, <2>1 DEF Kinds
<1> QED
  BY <1>1, <1>3, QuietKeeps DEF IInv, TypeOK, Ports

\* A client of a daemon prints an answer that a program there serves.
LEMMA NfdDataArrivesStep ==
  ASSUME IInv, NEW c \in Process, NfdDataArrives(c)
  PROVE  IInv'
<1>1. /\ c \in NfdConsumer /\ c \in pit /\ <<"data", Wanted(c), c>> \in stream
      /\ OnData(c, "data") /\ stream' \subseteq stream
      /\ UNCHANGED <<config, waiting, asked, stray, net>>
  BY DEF NfdDataArrives
<1>2. Wanted(c) \in Name /\ Served(Wanted(c))
  BY <1>1 DEF IInv, TypeOK
<1> QED
  BY <1>1, <1>2, LeaveKeeps DEF OnData, Outcomes

\* What is lost asks and answers nothing.
LEMMA LoseStep ==
  ASSUME IInv, Lose
  PROVE  IInv'
<1>1. /\ net' \subseteq net /\ stream' \subseteq stream
      /\ UNCHANGED <<stage, config, up, pit, waiting, called, asked, stray>>
  BY DEF Lose
<1> QED
  BY <1>1, QuietKeeps DEF IInv, TypeOK, Ports

\* A damaged answer is still one from where it came.
LEMMA DamageStep ==
  ASSUME IInv, Damage
  PROVE  IInv'
<1>1. PICK d \in net : d[1] = "data" /\ net' = (net \ {d}) \cup {<<"damaged", d[2], d[3]>>}
  BY DEF Damage
<1>2. UNCHANGED <<stage, config, up, pit, waiting, called, asked, stray, stream>>
  BY DEF Damage
<1>3. d \in Kinds \X Name \X Ports /\ \E g \in Face : Points(g, d[2], d[3])
  BY <1>1 DEF IInv, TypeOK, Ports, Sound
<1>4. \E g \in Face : Points(g, d[2], d[3])'
  BY <1>2, <1>3 DEF Points, config, Produced, Wanted
<1>5. ASSUME NEW m \in net' \ net PROVE m \in Kinds \X Name \X Ports /\ Sound(m)'
  <2>1. m = <<"damaged", d[2], d[3]>>
    BY <1>1, <1>5
  <2> QED
    BY <1>3, <1>4, <2>1 DEF Kinds, Sound
<1> QED
  BY <1>2, <1>5, QuietKeeps DEF IInv, TypeOK, Ports

\* A producer that is killed asked nothing.
LEMMA CrashStep ==
  ASSUME IInv, NEW p \in Process, Crash(p)
  PROVE  IInv'
<1>1. /\ p \in Server /\ stage[p] = "loop" /\ stage' = [stage EXCEPT ![p] = "crashed"]
      /\ up' \subseteq up /\ stream' \subseteq stream
      /\ UNCHANGED <<config, pit, waiting, called, asked, stray, net>>
  BY DEF Crash
<1>2. p \notin Asker /\ UNCHANGED <<name, port, to>>
  BY <1>1, OfOneKind DEF config
<1>3. /\ stage'[p] = "crashed" /\ \A x \in Process \ {p} : stage'[x] = stage[x]
      /\ stage' \in [Process -> {"absent", "start", "loop", "exited", "crashed"}]
  BY <1>1 DEF IInv, TypeOK
<1>4. TypeOK'
  BY <1>1, <1>2, <1>3 DEF IInv, TypeOK
<1>5. Turn(p)'
  BY <1>2, <1>3 DEF IInv, Turn, Fresh, Wired, FacesOf
<1>6. {p} \in SUBSET Process
  OBVIOUS
<1> QED
  BY <1>1, <1>2, <1>3, <1>4, <1>5, <1>6, RunKeeps

-----------------------------------------------------------------------------
(* The theorems. *)

\* No program has started, and nothing is on the way.
LEMMA InitIInv == Init => IInv
<1> SUFFICES ASSUME Init PROVE IInv
  OBVIOUS
<1>1. PICK cast \in Casts :
        stage = [p \in Process |-> IF p \in cast THEN "start" ELSE "absent"]
  BY DEF Init
<1>2. /\ name = [f \in Face |-> NoName] /\ port = [f \in Face |-> NoPort]
      /\ to = [f \in Face |-> NoPort] /\ called = [p \in Process |-> {}]
      /\ up = {} /\ pit = {} /\ waiting = {} /\ asked = {} /\ stray = {}
      /\ net = {} /\ stream = {}
  BY DEF Init
<1>3. TypeOK
  BY <1>1, <1>2 DEF TypeOK
<1>4. ASSUME NEW p \in Process PROVE Turn(p)
  <2>1. called[p] = {} /\ stage[p] \in {"start", "absent"}
        /\ \A i \in {1, 2} : /\ name[<<p, i>>] = NoName
                             /\ port[<<p, i>>] = NoPort /\ to[<<p, i>>] = NoPort
    BY <1>1, <1>2, FaceOf
  <2> QED
    BY <1>2, <2>1 DEF Turn, Fresh, Wired, Waits, Ends
<1>5. ASSUME NEW c \in Asker PROVE From(c)
  BY <1>2, OfOneKind DEF From
<1> QED
  BY <1>2, <1>3, <1>4, <1>5 DEF IInv

\* Every step keeps the invariant, and so does a stuttering step.
LEMMA NextIInv == IInv /\ [Next]_vars => IInv'
<1> SUFFICES ASSUME IInv, [Next]_vars PROVE IInv'
  OBVIOUS
<1>1. CASE UNCHANGED vars
  BY <1>1, QuietKeeps DEF vars, IInv, TypeOK, Ports
<1>2. ASSUME NEW p \in Process,
             \/ StartRefused(p) \/ StartProducer(p) \/ StartDaemon(p) \/ StartConsumer(p)
             \/ StartNfdConsumer(p) \/ StartGroup(p) \/ StartRelay(p)
      PROVE  IInv'
  <2>1. StartProducer(p) \/ StartDaemon(p) => p \in Server
    BY DEF StartProducer, StartDaemon, Server
  <2> QED
    BY <1>2, <2>1, RefusedStep, StartServerStep, StartConsumerStep, StartNfdConsumerStep,
       StartGroupStep, StartRelayStep
<1>3. ASSUME NEW f \in Face, OnInterest(f) \/ RelayData(f) PROVE IInv'
  BY <1>3, OnInterestStep, RelayDataStep
<1>4. ASSUME NEW p \in Process,
             \/ DataArrives(p) \/ RelayInterest(p) \/ OnTimeout(p) \/ RelayAnswersItself(p)
             \/ NfdData(p) \/ NfdDataArrives(p) \/ Crash(p)
      PROVE  IInv'
  BY <1>4, DataArrivesStep, RelayInterestStep, OnTimeoutStep, RelayAnswersItselfStep,
     NfdDataStep, NfdDataArrivesStep, CrashStep
<1>5. ASSUME NEW p \in Process, NEW x \in Process,
             OnStreamInterest(p, x) \/ NfdInterest(x, p)
      PROVE  IInv'
  BY <1>5, OnStreamInterestStep, NfdInterestStep
<1>6. CASE Lose \/ Damage
  BY <1>6, LoseStep, DamageStep
<1> QED
  BY <1>1, <1>2, <1>3, <1>4, <1>5, <1>6 DEF Next

\* Every reachable state satisfies the invariant.
THEOREM InvariantHolds == Spec => []IInv
BY InitIInv, NextIInv, PTL DEF Spec

\* Names and ports stay in their ranges: no datagram goes to a port that was
\* never configured.
THEOREM TypeCorrect == Spec => []TypeOK
<1>1. IInv => TypeOK
  BY DEF IInv
<1> QED
  BY <1>1, InvariantHolds, PTL

\* The Data a program prints comes from a face that points back at it, and
\* whose program was asked for that name and serves it or passes it on.
THEOREM AnswersAreItsPeers == Spec => []AnswerFromItsPeer
<1>1. IInv => AnswerFromItsPeer
  <2> SUFFICES ASSUME IInv, NEW c \in Asker, "data" \in called[c]
               PROVE  \/ c \in Relay /\ Local(c)
                      \/ /\ c \in NfdConsumer
                         /\ \E p \in NfdProducer \cup Daemon : Produced(p) = Wanted(c)
                      \/ \E g \in Face, f \in FacesOf(c) :
                           /\ to[g] = port[f] /\ <<Wanted(c), port[g]>> \in asked
                           /\ \/ Produced(Owner(g)) = Wanted(c)
                              \/ Owner(g) \in Relay /\ Wanted(Owner(g)) = Wanted(c)
    BY DEF AnswerFromItsPeer
  <2> QED
    BY DEF IInv, From, Served, Points
<1> QED
  BY <1>1, InvariantHolds, PTL

\* A program that asks gets at most one callback, and its loop ends with it.
THEOREM CalledOnce == Spec => []OneCallback
<1>1. IInv => OneCallback
  <2> SUFFICES ASSUME IInv, NEW c \in Asker
               PROVE  Cardinality(called[c]) <= 1 /\ Ends(c)
    BY DEF OneCallback, Ends, Ended
  <2>1. Ends(c)
    BY OfOneKind DEF IInv, Turn
  <2>2. /\ Cardinality({}) = 0
        /\ Cardinality({"data"}) = 1 /\ Cardinality({"timeout"}) = 1
    BY FS_EmptySet, FS_Singleton
  <2> QED
    BY <2>1, <2>2 DEF Ends
<1> QED
  BY <1>1, InvariantHolds, PTL
=============================================================================
