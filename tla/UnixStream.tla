----------------------------- MODULE UnixStream -----------------------------
(***************************************************************************)
(* The byte stream of one Unix-socket face: the peer's ndn_unix_face_send  *)
(* puts packets on a SOCK_STREAM connection, ndn_unix_face_recv cuts the   *)
(* stream back into packets with a buffer of BufSize bytes and hands each  *)
(* to ndn_forwarder_receive (adaptation/unix-socket/unix-face.c).          *)
(*                                                                         *)
(* Bytes are positions on the stream of the current connection, counted    *)
(* from 0.  The buffer holds positions base .. got - 1; the kernel holds   *)
(* got .. wr - 1; the parse pointer `buf' of the loop is at pos.  What the *)
(* bytes say is where the packet headers are: sent.                        *)
(***************************************************************************)
EXTENDS Integers, Sequences

CONSTANTS
  BufSize,        \* NDN_UNIX_BUFFER_SIZE
  MaxSend,        \* longest packet the peer sends
  MaxSize,        \* longest packet a header can announce
  WireCap,        \* bytes the kernel queues on the connection
  MaxBytes,       \* bound on the bytes put on one connection
  CopyForward,    \* memcpy to a lower, overlapping address copies correctly
  QueueMayFill    \* ndn_msgqueue_post may return NULL

ASSUME StreamAssumption ==
  /\ BufSize \in Nat \ {0} /\ MaxSize \in Nat \ {0} /\ MaxSend \in 1 .. MaxSize
  /\ WireCap \in Nat /\ MaxBytes \in Nat
  /\ CopyForward \in BOOLEAN /\ QueueMayFill \in BOOLEAN

VARIABLES
  state,      \* intf.state of the face
  posted,     \* a recv event of the face is in the message queue
  parsing,    \* control is in the for loop of ndn_unix_face_recv
  base,       \* stream position of ptr->buf[0]
  pos,        \* stream position of the loop's buf (base outside the loop)
  got,        \* bytes recv() has returned on this connection
  wr,         \* bytes the kernel has accepted from the peer
  peer,       \* the peer's end: "open", "closed" (EOF) or "reset" (error)
  sent,       \* history: intact packets on the stream, where they start
  delivered,  \* history: slices handed to ndn_forwarder_receive
  torn        \* history: the framing of what follows `sent' is damaged

face   == <<state, posted, parsing>>
cursor == <<base, pos, got>>
vars   == <<face, cursor, wr, peer, sent, delivered, torn>>

\* A slice of the stream: what a packet occupies.
Slice == [at : 0 .. MaxBytes, size : 1 .. MaxSize]

\* ptr->offset, between two receives.
Offset == got - base

\* The lengths that the TLV header found at position p can announce.
SizesAt(p) ==
  LET here == {i \in 1 .. Len(sent) : sent[i].at = p}
  IN  IF here = {} THEN 1 .. MaxSize ELSE {sent[i].size : i \in here}

\* Where the first n intact packets end.
EndOf(n) == IF n = 0 THEN 0 ELSE sent[n].at + sent[n].size

Init ==
  /\ state = "UP" /\ posted = TRUE /\ parsing = FALSE
  /\ base = 0 /\ pos = 0 /\ got = 0 /\ wr = 0
  /\ peer = "open"
  /\ sent = << >> /\ delivered = << >> /\ torn = FALSE

-----------------------------------------------------------------------------
(* The peer. *)

\* send() takes the whole packet: NDN_SUCCESS.
PeerSend(s) ==
  /\ peer = "open" /\ state = "UP"
  /\ wr + s <= MaxBytes
  /\ wr - got + s <= WireCap
  /\ wr' = wr + s
  /\ sent' = IF torn THEN sent ELSE Append(sent, [at |-> wr, size |-> s])
  /\ UNCHANGED <<face, cursor, peer, delivered, torn>>

\* The non-blocking send() takes the first k bytes only.  The caller gets
\* NDN_UNIX_FACE_SOCKET_ERROR and the k bytes stay on the stream.
PeerShortSend(s, k) ==
  /\ peer = "open" /\ state = "UP"
  /\ wr + k <= MaxBytes
  /\ k < s /\ wr - got + k = WireCap
  /\ wr' = wr + k
  /\ torn' = TRUE
  /\ UNCHANGED <<face, cursor, peer, sent, delivered>>

PeerLeaves ==
  /\ peer = "open" /\ state = "UP"
  /\ peer' \in {"closed", "reset"}
  /\ UNCHANGED <<face, cursor, wr, sent, delivered, torn>>

-----------------------------------------------------------------------------
(* ndn_unix_face_recv, dispatched by the message queue. *)

Dispatched == state = "UP" /\ posted /\ ~parsing

\* ptr->process_event = ndn_msgqueue_post(...)
Repost == posted' \in IF QueueMayFill THEN BOOLEAN ELSE {TRUE}

\* recv() returned n > 0 bytes: the loop starts at the front of the buffer.
RecvBytes(n) ==
  /\ Dispatched
  /\ n \in 1 .. wr - got /\ n <= BufSize - Offset
  /\ got' = got + n
  /\ posted' = FALSE
  /\ parsing' = TRUE
  /\ UNCHANGED <<state, base, pos, wr, peer, sent, delivered, torn>>

\* Mutant: the loop does not ask whether the packet is complete.
DeliverPacketCut ==
  /\ parsing /\ pos < got
  /\ \E s \in SizesAt(pos) :
       /\ delivered' = Append(delivered, [at |-> pos, size |-> s])
       /\ pos' = pos + s
  /\ UNCHANGED <<face, base, got, wr, peer, sent, torn>>

\* Mutant: buf does not advance past the packet delivered.
DeliverPacketAgain ==
  /\ parsing
  /\ \E s \in SizesAt(pos) :
       /\ pos + s <= got
       /\ Len(delivered) < MaxBytes
       /\ delivered' = Append(delivered, [at |-> pos, size |-> s])
  /\ UNCHANGED <<face, cursor, wr, peer, sent, torn>>

\* One turn of the loop: a complete packet is at buf.
DeliverPacket ==
  /\ parsing
  /\ \E s \in SizesAt(pos) :
       /\ pos + s <= got
       /\ delivered' = Append(delivered, [at |-> pos, size |-> s])
       /\ pos' = pos + s
  /\ UNCHANGED <<face, base, got, wr, peer, sent, torn>>

\* Mutant: one packet at most is taken out of what a receive returned.
LoopEndsEarly == parsing

\* The loop is over: no byte left, or the packet at buf is incomplete.
LoopEnds == pos = got \/ \E s \in SizesAt(pos) : pos + s > got

\* memcpy(ptr->buf, buf, rest) between overlapping, different places.
OverlappingCopy == base < pos /\ pos - base < got - pos

\* Mutant: offset is reset with an incomplete packet in the buffer.
KeepRestDropped ==
  /\ parsing /\ LoopEnds
  /\ base' = got /\ pos' = got
  /\ parsing' = FALSE
  /\ Repost
  /\ UNCHANGED <<state, got, wr, peer, sent, delivered, torn>>

\* The leftover goes to the front of the buffer, and the face reposts.
KeepRest ==
  /\ parsing /\ LoopEnds
  /\ base' = pos
  /\ parsing' = FALSE
  /\ Repost
  /\ \/ UNCHANGED <<sent, torn>>
     \/ /\ OverlappingCopy /\ ~CopyForward
        /\ torn' = TRUE
        /\ sent' = IF Len(delivered) < Len(sent)
                     THEN SubSeq(sent, 1, Len(delivered)) ELSE sent
  /\ UNCHANGED <<state, pos, got, wr, peer, delivered>>

\* recv() says EWOULDBLOCK.
RecvNothing ==
  /\ Dispatched
  /\ peer = "open" /\ wr = got
  /\ Repost
  /\ UNCHANGED <<state, parsing, cursor, wr, peer, sent, delivered, torn>>

\* recv() returns 0 for the peer's shutdown, or -1 for its reset.  It also
\* returns 0 when bytes are queued and the buffer has no room for one.
RecvEnds ==
  /\ Dispatched
  /\ \/ peer = "closed" /\ wr = got
     \/ peer = "reset"
     \/ Offset = BufSize /\ wr > got
  /\ state' = "DOWN"
  /\ posted' = FALSE
  /\ UNCHANGED <<parsing, cursor, wr, peer, sent, delivered, torn>>

Recv ==
  \/ \E n \in 1 .. BufSize : RecvBytes(n)
  \/ RecvNothing
  \/ RecvEnds

-----------------------------------------------------------------------------
(* The owner of the face. *)

\* ndn_face_down: the socket is closed and the event cancelled, the bytes
\* in the buffer stay.
FaceDown ==
  /\ state = "UP" /\ ~parsing
  /\ state' = "DOWN"
  /\ posted' = FALSE
  /\ UNCHANGED <<parsing, cursor, wr, peer, sent, delivered, torn>>

\* ndn_face_up on a client face that is DOWN: a new connection.  offset is
\* not reset, so bytes of the earlier connection may precede the new ones.
FaceUp ==
  /\ state = "DOWN"
  /\ state' = "UP" /\ posted' = TRUE /\ peer' = "open"
  /\ base' = 0 /\ pos' = 0 /\ got' = Offset /\ wr' = Offset
  /\ sent' = << >> /\ delivered' = << >>
  /\ torn' = (Offset > 0)
  /\ UNCHANGED parsing

-----------------------------------------------------------------------------
Peer ==
  \/ \E s \in 1 .. MaxSend :
       PeerSend(s) \/ \E k \in 1 .. MaxSend : PeerShortSend(s, k)
  \/ PeerLeaves

Next == Peer \/ Recv \/ DeliverPacket \/ KeepRest \/ FaceDown \/ FaceUp

Spec == Init /\ [][Next]_vars

\* The main loop calls ndn_forwarder_process for ever: a posted event is
\* dispatched, and a handler that has started runs to its end.  No queue is
\* asked to refuse a post: a receive that finds nothing and is reposted is a
\* stutter.
Fairness ==
  /\ WF_vars(Recv /\ (posted' \/ parsing' \/ state' = "DOWN"))
  /\ WF_vars(DeliverPacket) /\ WF_vars(KeepRest)

FairSpec == Spec /\ Fairness

-----------------------------------------------------------------------------
TypeOK ==
  /\ state \in {"UP", "DOWN"} /\ posted \in BOOLEAN /\ parsing \in BOOLEAN
  /\ base \in Nat /\ pos \in Nat /\ got \in Nat /\ wr \in Nat
  /\ peer \in {"open", "closed", "reset"}
  /\ sent \in Seq(Slice) /\ delivered \in Seq(Slice)
  /\ torn \in BOOLEAN

\* The receive never reads or keeps bytes outside the buffer, and the loop
\* never passes the bytes received (the bounds of recv() at line 284, of the
\* loop and of the copy at line 305).
BufferBounds ==
  /\ base <= pos /\ pos <= got /\ got <= wr
  /\ Offset <= BufSize

\* Framing: however the stream was segmented, the slices handed to the
\* forwarder are the packets the peer sent, whole, in order, none skipped or
\* repeated; past them there is something only after damage.
ExactDelivery ==
  /\ \A i \in 1 .. Len(sent) : i <= Len(delivered) => delivered[i] = sent[i]
  /\ torn \/ Len(delivered) <= Len(sent)

\* When every packet sent fits the buffer, an undamaged stream never fills it: the
\* next receive has room, so its 0 means a shutdown (line 313).
RoomToReceive ==
  MaxSend <= BufSize => (~torn /\ ~parsing => Offset < BufSize)

\* The receive waits for more only while the packet at the front of the
\* buffer is incomplete: no complete packet is left behind in the buffer.
NothingLeftBehind ==
  ~parsing /\ Len(delivered) < Len(sent) => EndOf(Len(delivered) + 1) > got

\* A packet that fits the buffer is delivered once it is sent, unless the
\* connection is damaged or goes down, or a full queue has refused the repost
\* at line 318 (nobody looks at its NULL, and the face is deaf).
Lost ==
  \/ torn \/ state = "DOWN"
  \/ QueueMayFill /\ ~posted /\ ~parsing
EveryPacketArrives ==
  \A n \in 1 .. MaxBytes :
    Len(sent) >= n ~> Len(delivered) >= n \/ Lost

\* The comment at line 304: a packet too large for the buffer blocks the
\* receive (the face of a live peer does not go down because of it).
TooLargeBlocks ==
  [][Recv /\ peer = "open" => state' = "UP"]_vars

\* The inductive invariant of the framing, in named parts.
\* Where control is: a running receive has no event posted.
Control ==
  /\ parsing => state = "UP" /\ ~posted
  /\ ~parsing => base = pos
  /\ state = "DOWN" => ~posted

\* The intact packets tile the stream from position 0; without damage they
\* are all that was written.
Tiling ==
  /\ \A i \in 1 .. Len(sent) : sent[i].at = EndOf(i - 1)
  /\ \A i, j \in 1 .. Len(sent) :
       i < j => sent[i].at + sent[i].size <= sent[j].at
  /\ EndOf(Len(sent)) <= wr
  /\ ~torn => EndOf(Len(sent)) = wr

\* The parse pointer is on the boundary after the last packet delivered.
Aligned ==
  IF Len(delivered) <= Len(sent)
    THEN pos = EndOf(Len(delivered))
    ELSE torn /\ pos >= EndOf(Len(sent))

Framing ==
  /\ TypeOK
  /\ BufferBounds /\ wr <= MaxBytes
  /\ Control /\ Tiling /\ Aligned
  /\ ExactDelivery
  /\ NothingLeftBehind

\* The face implements the packet channel.
Channel == INSTANCE PacketChannel WITH Packet <- Slice
ChannelSpec == Channel!Spec
=============================================================================
