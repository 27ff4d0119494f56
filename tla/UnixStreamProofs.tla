-------------------------- MODULE UnixStreamProofs --------------------------
(***************************************************************************)
(* Proofs about the framing of a Unix-socket face, for every buffer size,  *)
(* packet size and kernel queue, and for every segmentation of the stream. *)
(***************************************************************************)
EXTENDS UnixStream, SequenceTheorems, TLAPS

-----------------------------------------------------------------------------
(* What a header at a position of the stream announces. *)

\* What the type invariant says of the packets sent.
LEMMA SentTyped ==
  ASSUME TypeOK
  PROVE  /\ Len(sent) \in Nat /\ Len(delivered) \in Nat
         /\ \A i \in 1 .. Len(sent) :
              /\ sent[i] \in Slice
              /\ sent[i].at \in Nat
              /\ sent[i].size \in Nat /\ sent[i].size > 0
              /\ sent[i].size \in 1 .. MaxSize
<1>1. Len(sent) \in Nat /\ Len(delivered) \in Nat
  BY LenProperties DEF TypeOK
<1>2. \A i \in 1 .. Len(sent) : sent[i] \in Slice
  BY ElementOfSeq DEF TypeOK
<1>3. \A i \in 1 .. Len(sent) :
        sent[i].at \in 0 .. MaxBytes /\ sent[i].size \in 1 .. MaxSize
  BY <1>2 DEF Slice
<1>4. MaxBytes \in Int /\ MaxSize \in Int
  BY StreamAssumption DEF StreamAssumption
<1> QED  BY <1>1, <1>2, <1>3, <1>4

\* Every length read from a header is a possible packet length.
LEMMA SizesTyped ==
  ASSUME StreamAssumption, TypeOK, NEW p, NEW s \in SizesAt(p)
  PROVE  s \in 1 .. MaxSize
BY SentTyped DEF SizesAt

\* While an intact packet is due, the header at the parse pointer is its own.
LEMMA DueHeader ==
  ASSUME Framing, Len(delivered) < Len(sent)
  PROVE  /\ sent[Len(delivered) + 1] = [at |-> pos, size |-> sent[Len(delivered) + 1].size]
         /\ sent[Len(delivered) + 1].size \in 1 .. MaxSize
         /\ SizesAt(pos) = {sent[Len(delivered) + 1].size}
         /\ EndOf(Len(delivered) + 1) = pos + sent[Len(delivered) + 1].size
<1> DEFINE d == Len(delivered)
<1>0. d \in Nat /\ Len(sent) \in Nat /\ d + 1 \in 1 .. Len(sent)
  BY LenProperties DEF Framing, TypeOK
<1>1. TypeOK
  BY DEF Framing
<1>2. \A i \in 1 .. Len(sent) :
        sent[i] = [at |-> sent[i].at, size |-> sent[i].size]
  BY <1>1, SentTyped DEF Slice
<1>3. sent[d + 1].at = pos
  <2>1. sent[d + 1].at = EndOf((d + 1) - 1)
    BY <1>0 DEF Framing, Tiling
  <2>2. (d + 1) - 1 = d
    BY <1>0
  <2> QED  BY <2>1, <2>2, <1>0 DEF Framing, Aligned
<1>4. \A i \in 1 .. Len(sent) : sent[i].at = pos => i = d + 1
  <2> SUFFICES ASSUME NEW i \in 1 .. Len(sent), sent[i].at = pos, i # d + 1
               PROVE  FALSE
    OBVIOUS
  <2>1. i < d + 1 \/ d + 1 < i
    BY <1>0
  <2>2. \A a, b \in 1 .. Len(sent) :
          a < b => sent[a].at + sent[a].size <= sent[b].at
    BY DEF Framing, Tiling
  <2>3. /\ sent[i].at \in Nat /\ sent[i].size \in Nat /\ sent[i].size > 0
        /\ sent[d + 1].size \in Nat /\ sent[d + 1].size > 0
    BY <1>0, <1>1, SentTyped
  <2>4. CASE i < d + 1
    <3>1. sent[i].at + sent[i].size <= sent[d + 1].at
      BY <2>2, <2>4, <1>0
    <3> QED  BY <3>1, <2>3, <1>3
  <2>5. CASE d + 1 < i
    <3>1. sent[d + 1].at + sent[d + 1].size <= sent[i].at
      BY <2>2, <2>5, <1>0
    <3> QED  BY <3>1, <2>3, <1>3
  <2> QED  BY <2>1, <2>4, <2>5, <1>0
<1>5. {i \in 1 .. Len(sent) : sent[i].at = pos} = {d + 1}
  BY <1>0, <1>3, <1>4
<1>6. SizesAt(pos) = {sent[d + 1].size}
  BY <1>5 DEF SizesAt
<1>7. EndOf(d + 1) = pos + sent[d + 1].size
  BY <1>0, <1>3 DEF EndOf
<1> QED  BY <1>0, <1>1, <1>2, <1>3, <1>6, <1>7, SentTyped

-----------------------------------------------------------------------------
(* Framing is inductive: one lemma per action that touches it. *)

\* An empty stream and an empty buffer are framed.
LEMMA InitFraming ==
  ASSUME StreamAssumption, Init  PROVE Framing
<1>1. sent = << >> /\ delivered = << >> /\ << >> \in Seq(Slice) /\ Len(<< >>) = 0
  BY DEF Init
<1>2. TypeOK
  BY <1>1 DEF Init, TypeOK
<1>3. BufferBounds /\ wr <= MaxBytes /\ Control
  BY DEF StreamAssumption, Init, BufferBounds, Control, Offset
<1>4. Tiling /\ Aligned /\ ExactDelivery /\ NothingLeftBehind
  BY <1>1 DEF Init, Tiling, Aligned, ExactDelivery, NothingLeftBehind, EndOf
<1> QED  BY <1>2, <1>3, <1>4 DEF Framing

\* What a step that changes neither the history nor the parse pointer keeps.
LEMMA HistoryKept ==
  ASSUME Framing, UNCHANGED <<pos, sent, delivered>>, wr' \in Nat,
         wr <= wr', torn => torn', torn' \/ wr' = wr
  PROVE  Tiling' /\ Aligned' /\ ExactDelivery'
<1>1. \A n : EndOf(n)' = EndOf(n)
  BY Zenon DEF EndOf
<1>2. Tiling'
  <2>1. EndOf(Len(sent)) \in Nat
    BY SentTyped DEF Framing, EndOf
  <2>2. EndOf(Len(sent)) <= wr'
    BY <2>1 DEF Framing, Tiling, TypeOK
  <2> QED  BY <1>1, <2>2 DEF Framing, Tiling
<1>3. Aligned'
  BY <1>1 DEF Framing, Aligned
<1>4. ExactDelivery'
  BY DEF Framing, ExactDelivery
<1> QED  BY <1>2, <1>3, <1>4

\* A whole packet extends the tiling of the stream, unless it is damaged.
LEMMA SendFraming ==
  ASSUME StreamAssumption, Framing, NEW s \in 1 .. MaxSend, PeerSend(s)
  PROVE  Framing'
<1> USE DEF PeerSend, face, cursor
<1>0. wr \in Nat /\ got \in Nat /\ s \in Nat /\ s > 0
  BY DEF Framing, TypeOK, StreamAssumption
<1>1. BufferBounds' /\ wr' <= MaxBytes /\ Control'
  BY <1>0 DEF Framing, TypeOK, BufferBounds, Control, Offset
<1>2. CASE torn
  <2>1. TypeOK'
    BY <1>0, <1>2 DEF Framing, TypeOK
  <2>2. Tiling' /\ Aligned' /\ ExactDelivery'
    BY <1>0, <1>2, HistoryKept
  <2>3. NothingLeftBehind'
    BY <1>2 DEF Framing, NothingLeftBehind, EndOf
  <2> QED  BY <1>1, <2>1, <2>2, <2>3 DEF Framing
<1>3. CASE ~torn
  <2> DEFINE p == [at |-> wr, size |-> s]
  <2>00. PICK n \in Nat : n = Len(sent)
    BY SentTyped DEF Framing
  <2>0. n = Len(sent) /\ Len(delivered) \in Nat /\ Len(delivered) <= n
    BY <1>3, <2>00, SentTyped DEF Framing, ExactDelivery
  <2>1. p \in Slice
    BY <1>0 DEF Slice, Framing, StreamAssumption
  <2>2. /\ sent' \in Seq(Slice) /\ Len(sent') = n + 1
        /\ \A i \in 1 .. n : sent'[i] = sent[i]
        /\ sent'[n + 1] = p
    BY <2>0, <2>1, <1>3, AppendProperties DEF Framing, TypeOK
  <2> HIDE DEF PeerSend
  <2>3. \A i \in 1 .. n : sent[i] \in Slice
    BY <2>0, ElementOfSeq DEF Framing, TypeOK
  <2>4. \A i \in 0 .. n : EndOf(i)' = EndOf(i)
    BY <2>0, <2>2 DEF EndOf
  <2>5. EndOf(n) = wr /\ EndOf(n + 1)' = wr + s
    <3>1. EndOf(n) = wr
      BY <1>3, <2>0 DEF Framing, Tiling
    <3>2. EndOf(n + 1)' = sent'[n + 1].at + sent'[n + 1].size
      BY <2>0 DEF EndOf
    <3> QED  BY <3>1, <3>2, <2>2
  <2>6. wr' = wr + s /\ delivered' = delivered /\ torn' = torn /\ pos' = pos
        /\ got' = got /\ parsing' = parsing
    BY DEF PeerSend, cursor, face
  <2>7. TypeOK'
    BY <1>0, <1>3, <2>2 DEF PeerSend, Framing, TypeOK
  <2>8. Tiling'
    <3>1. \A i \in 1 .. Len(sent') : sent'[i].at = EndOf(i - 1)'
      <4> TAKE i \in 1 .. Len(sent')
      <4>1. CASE i = n + 1
        BY <4>1, <2>0, <2>2, <2>4, <2>5
      <4>2. CASE i \in 1 .. n
        <5>1. sent[i].at = EndOf(i - 1)
          BY <2>0, <4>2 DEF Framing, Tiling
        <5>2. i - 1 \in 0 .. n
          BY <4>2, <2>0
        <5> QED  BY <4>2, <5>1, <5>2, <2>2, <2>4
      <4> QED  BY <4>1, <4>2, <2>0, <2>2
    <3>2. \A i \in 1 .. n : sent[i].at + sent[i].size <= wr
      <4> TAKE i \in 1 .. n
      <4>1. EndOf(n) = sent[n].at + sent[n].size
        BY <2>0 DEF EndOf
      <4>2. CASE i = n
        BY <4>1, <4>2, <2>5, <1>0
      <4>3. CASE i < n
        <5>1. sent[i].at + sent[i].size <= sent[n].at
          BY <4>3, <2>0 DEF Framing, Tiling
        <5>2. sent[i] \in Slice /\ sent[n] \in Slice
          BY <4>3, <2>0, <2>3
        <5>3. /\ sent[i].at \in Int /\ sent[i].size \in Int
              /\ sent[n].at \in Int /\ sent[n].size \in Nat
          BY <5>2 DEF Slice
        <5>4. sent[n].at + sent[n].size = wr
          BY <4>1, <2>5
        <5> QED  BY <5>1, <5>3, <5>4
      <4> QED  BY <4>2, <4>3, <2>0
    <3>3. \A i, j \in 1 .. Len(sent') :
            i < j => sent'[i].at + sent'[i].size <= sent'[j].at
      <4> TAKE i, j \in 1 .. Len(sent')
      <4> HAVE i < j
      <4>1. i \in 1 .. n
        BY <2>0, <2>2
      <4>2. CASE j = n + 1
        BY <4>1, <4>2, <3>2, <2>2
      <4>3. CASE j \in 1 .. n
        BY <2>0, <4>1, <4>3, <2>2 DEF Framing, Tiling
      <4> QED  BY <4>2, <4>3, <2>0, <2>2
    <3>4. EndOf(Len(sent))' = wr'
      BY <2>2, <2>5, <2>6 DEF EndOf
    <3> QED  BY <3>1, <3>3, <3>4, <2>7 DEF Tiling, TypeOK
  <2>9. Aligned'
    <3>1. Len(delivered)' <= Len(sent)'
      BY <2>0, <2>2, <2>6
    <3>2. pos = EndOf(Len(delivered))
      BY <2>0 DEF Framing, Aligned
    <3>3. EndOf(Len(delivered))' = EndOf(Len(delivered))
      BY <2>0, <2>4, <2>6 DEF EndOf
    <3> QED  BY <3>1, <3>2, <3>3, <2>6 DEF Aligned
  <2>10. ExactDelivery'
    <3>1. \A i \in 1 .. n : i <= Len(delivered) => delivered[i] = sent[i]
      BY <2>0 DEF Framing, ExactDelivery
    <3> QED  BY <3>1, <2>0, <2>2, <2>6 DEF ExactDelivery
  <2>11. NothingLeftBehind'
    <3> SUFFICES ASSUME ~parsing, Len(delivered) < n + 1
                 PROVE  EndOf(Len(delivered) + 1)' > got
      BY <2>2, <2>6 DEF NothingLeftBehind, EndOf
    <3>1. CASE Len(delivered) < n
      <4>1. EndOf(Len(delivered) + 1) > got
        BY <2>0, <3>1 DEF Framing, NothingLeftBehind
      <4>2. EndOf(Len(delivered) + 1)' = EndOf(Len(delivered) + 1)
        <5>1. Len(delivered) + 1 \in 1 .. n
          BY <3>1, <2>0
        <5> QED  BY <5>1, <2>2, <2>6 DEF EndOf
      <4> QED  BY <4>1, <4>2
    <3>2. CASE Len(delivered) = n
      BY <3>2, <2>5, <2>6, <1>0 DEF EndOf, Framing, BufferBounds
    <3> QED  BY <3>1, <3>2, <2>0
  <2> QED  BY <1>1, <2>7, <2>8, <2>9, <2>10, <2>11 DEF Framing
<1> QED  BY <1>2, <1>3

\* A short send damages the framing after the last whole packet only.
LEMMA ShortSendFraming ==
  ASSUME StreamAssumption, Framing, NEW s \in 1 .. MaxSend,
         NEW k \in 1 .. MaxSend, PeerShortSend(s, k)
  PROVE  Framing'
<1> USE DEF PeerShortSend, face, cursor
<1>1. wr \in Nat /\ got \in Nat /\ k \in Nat /\ k > 0
  BY DEF Framing, TypeOK, StreamAssumption
<1>2. TypeOK'
  BY <1>1 DEF Framing, TypeOK
<1>3. BufferBounds' /\ wr' <= MaxBytes /\ Control'
  BY <1>1 DEF Framing, TypeOK, BufferBounds, Control, Offset
<1>4. Tiling' /\ Aligned' /\ ExactDelivery'
  BY <1>1, HistoryKept
<1>5. NothingLeftBehind'
  BY DEF Framing, NothingLeftBehind, EndOf
<1> QED  BY <1>2, <1>3, <1>4, <1>5 DEF Framing

\* recv() moves bytes from the kernel to the buffer, within its size.
LEMMA RecvBytesFraming ==
  ASSUME StreamAssumption, Framing, NEW n \in 1 .. BufSize, RecvBytes(n)
  PROVE  Framing'
<1> USE DEF RecvBytes, Dispatched
<1>1. wr \in Nat /\ got \in Nat /\ base \in Nat /\ n \in Nat /\ BufSize \in Nat
  BY DEF Framing, TypeOK, StreamAssumption
<1>2. TypeOK'
  <2>1. got' \in Nat
    BY <1>1
  <2> QED  BY <2>1, Zenon DEF Framing, TypeOK
<1>3. BufferBounds' /\ wr' <= MaxBytes /\ Control'
  BY <1>1 DEF Framing, TypeOK, BufferBounds, Control, Offset
<1>4. Tiling' /\ Aligned' /\ ExactDelivery'
  BY <1>1, HistoryKept
<1>5. NothingLeftBehind'
  BY DEF NothingLeftBehind
<1> QED  BY <1>2, <1>3, <1>4, <1>5 DEF Framing

\* The steps that move no byte: an empty receive, the end of the connection,
\* the peer leaving, the face taken down.
LEMMA QuietFraming ==
  ASSUME StreamAssumption, Framing,
         RecvNothing \/ RecvEnds \/ PeerLeaves \/ FaceDown
  PROVE  Framing'
<1> USE DEF RecvNothing, RecvEnds, PeerLeaves, FaceDown, Dispatched, Repost,
            face, cursor
<1>1. UNCHANGED <<base, pos, got, wr, parsing, sent, delivered, torn>>
  OBVIOUS
<1>2. TypeOK'
  BY DEF Framing, TypeOK
<1>3. BufferBounds' /\ wr' <= MaxBytes /\ Control'
  <2>1. BufferBounds' /\ wr' <= MaxBytes
    BY <1>1 DEF Framing, BufferBounds, Offset
  <2>2. CASE RecvNothing
    <3>1. ~parsing' /\ state' = "UP"
      BY <2>2
    <3> QED  BY <2>1, <3>1, <1>1 DEF Framing, Control
  <2>3. CASE RecvEnds \/ FaceDown
    <3>1. ~parsing /\ ~parsing' /\ ~posted'
      BY <2>3
    <3> QED  BY <2>1, <3>1, <1>1 DEF Framing, Control
  <2>4. CASE PeerLeaves
    <3>1. UNCHANGED <<state, posted, parsing>>
      BY <2>4
    <3> QED  BY <2>1, <3>1, <1>1 DEF Framing, Control
  <2> QED  BY <2>1, <2>2, <2>3, <2>4
<1>4. Tiling' /\ Aligned' /\ ExactDelivery'
  BY <1>1, HistoryKept DEF Framing, TypeOK
<1>5. NothingLeftBehind'
  BY <1>1 DEF Framing, NothingLeftBehind, EndOf
<1> QED  BY <1>2, <1>3, <1>4, <1>5 DEF Framing

\* A new connection is framed afresh: what the old one left in the buffer
\* counts as damage.
LEMMA FaceUpFraming ==
  ASSUME StreamAssumption, Framing, FaceUp  PROVE Framing'
<1> USE DEF FaceUp
<1>1. Offset \in Nat /\ Offset <= BufSize /\ Offset <= MaxBytes
  BY DEF Framing, TypeOK, BufferBounds, Offset, StreamAssumption
<1>2. /\ sent' = << >> /\ delivered' = << >> /\ << >> \in Seq(Slice)
      /\ Len(sent') = 0 /\ Len(delivered') = 0
  OBVIOUS
<1>3. ~parsing /\ ~parsing'
  BY DEF Framing, Control
<1>4. TypeOK'
  BY <1>1, <1>2 DEF Framing, TypeOK
<1>5. BufferBounds' /\ wr' <= MaxBytes /\ Control'
  <2>1. BufferBounds' /\ wr' <= MaxBytes
    BY <1>1, StreamAssumption DEF BufferBounds, Offset, StreamAssumption
  <2>2. Control'
    BY <1>3 DEF Control
  <2> QED  BY <2>1, <2>2
<1>6. Tiling' /\ Aligned'
  <2>1. EndOf(Len(sent))' = 0 /\ EndOf(Len(delivered))' = 0
    BY <1>2 DEF EndOf
  <2>2. Aligned'
    BY <1>1, <1>2, <2>1 DEF Aligned
  <2>3. 1 .. Len(sent)' = {}
    BY <1>2
  <2>4. ~torn' => Offset = 0
    <3>1. CASE Offset = 0
      BY <3>1
    <3>2. CASE Offset > 0
      BY <3>2
    <3> QED  BY <3>1, <3>2, <1>1
  <2>5. EndOf(Len(sent))' <= wr' /\ (~torn' => EndOf(Len(sent))' = wr')
    BY <1>1, <2>1, <2>4
  <2>6. Tiling'
    BY <2>3, <2>5 DEF Tiling
  <2> QED  BY <2>2, <2>6
<1>7. ExactDelivery' /\ NothingLeftBehind'
  BY <1>2 DEF ExactDelivery, NothingLeftBehind
<1> QED  BY <1>4, <1>5, <1>6, <1>7 DEF Framing

\* A turn of the loop delivers the packet that is due, or, when none is due,
\* reads damaged bytes: an undamaged stream has none left.
LEMMA DeliverFraming ==
  ASSUME StreamAssumption, Framing, DeliverPacket
  PROVE  Framing'
<1>0. /\ pos \in Nat /\ got \in Nat /\ wr \in Nat /\ base \in Nat
      /\ base <= pos /\ pos <= got /\ got <= wr /\ wr <= MaxBytes
      /\ MaxBytes \in Nat /\ MaxSize \in Nat /\ TypeOK /\ parsing
  BY DEF Framing, TypeOK, BufferBounds, StreamAssumption, DeliverPacket
<1>1. PICK s \in SizesAt(pos) :
        /\ pos + s <= got
        /\ delivered' = Append(delivered, [at |-> pos, size |-> s])
        /\ pos' = pos + s
  BY DEF DeliverPacket
<1>2. PICK d \in Nat : d = Len(delivered)
  BY <1>0, SentTyped
<1>3. PICK m \in Nat : m = Len(sent)
  BY <1>0, SentTyped
<1>4. s \in 1 .. MaxSize /\ s \in Nat /\ s > 0
  BY <1>0, SizesTyped
<1>5. UNCHANGED <<state, posted, parsing, base, got, wr, peer, sent, torn>>
  BY DEF DeliverPacket, face
<1>6. [at |-> pos, size |-> s] \in Slice
  BY <1>0, <1>1, <1>4 DEF Slice
<1>7. /\ delivered' \in Seq(Slice) /\ Len(delivered') = d + 1
      /\ \A i \in 1 .. d : delivered'[i] = delivered[i]
      /\ delivered'[d + 1] = [at |-> pos, size |-> s]
  BY <1>0, <1>1, <1>2, <1>6, AppendProperties DEF TypeOK
<1>8. TypeOK'
  BY <1>0, <1>1, <1>4, <1>5, <1>7 DEF TypeOK
<1>9. BufferBounds' /\ wr' <= MaxBytes /\ Control'
  <2>1. BufferBounds' /\ wr' <= MaxBytes
    BY <1>0, <1>1, <1>4, <1>5 DEF Framing, BufferBounds, Offset
  <2>2. Control'
    BY <1>0, <1>5 DEF Framing, Control
  <2> QED  BY <2>1, <2>2
<1>10. \A n : EndOf(n)' = EndOf(n)
  BY <1>5, Zenon DEF EndOf
<1>11. Tiling'
  BY <1>5, <1>10 DEF Framing, Tiling
<1>12. NothingLeftBehind'
  BY <1>0, <1>5 DEF NothingLeftBehind
<1>13. CASE d < m
  <2>1. /\ s = sent[d + 1].size /\ sent[d + 1] = [at |-> pos, size |-> s]
        /\ EndOf(d + 1) = pos + s
    BY <1>13, <1>2, <1>3, DueHeader
  <2>2. Aligned'
    BY <2>1, <1>1, <1>3, <1>5, <1>7, <1>10, <1>13 DEF Aligned
  <2>3. ExactDelivery'
    <3>1. \A i \in 1 .. m : i <= d => delivered[i] = sent[i]
      BY <1>2, <1>3 DEF Framing, ExactDelivery
    <3>2. \A i \in 1 .. m : i <= d + 1 => delivered'[i] = sent[i]
      <4> TAKE i \in 1 .. m
      <4> HAVE i <= d + 1
      <4>1. CASE i = d + 1
        BY <4>1, <2>1, <1>7
      <4>2. CASE i # d + 1
        <5>1. i \in 1 .. d
          BY <4>2
        <5> QED  BY <5>1, <3>1, <1>7
      <4> QED  BY <4>1, <4>2
    <3> QED  BY <3>2, <1>3, <1>5, <1>7, <1>13 DEF ExactDelivery
  <2> QED  BY <2>2, <2>3, <1>8, <1>9, <1>11, <1>12 DEF Framing
<1>14. CASE d >= m
  <2>1. pos >= EndOf(m) /\ EndOf(m) \in Nat
    <3>1. EndOf(m) \in Nat
      BY <1>0, <1>3, SentTyped DEF EndOf
    <3> QED  BY <3>1, <1>0, <1>2, <1>3, <1>14 DEF Framing, Aligned
  <2>2. torn
    <3> SUFFICES ASSUME ~torn  PROVE FALSE
      OBVIOUS
    <3>1. EndOf(m) = wr
      BY <1>3 DEF Framing, Tiling
    <3> QED  BY <3>1, <2>1, <1>0, <1>1, <1>4
  <2>3. Aligned'
    BY <2>1, <2>2, <1>0, <1>1, <1>3, <1>4, <1>5, <1>7, <1>10, <1>14 DEF Aligned
  <2>4. ExactDelivery'
    <3>1. \A i \in 1 .. m : i <= d => delivered[i] = sent[i]
      BY <1>2, <1>3 DEF Framing, ExactDelivery
    <3>2. \A i \in 1 .. m : delivered'[i] = sent[i]
      BY <3>1, <1>7, <1>14
    <3> QED  BY <3>2, <2>2, <1>3, <1>5 DEF ExactDelivery
  <2> QED  BY <2>3, <2>4, <1>8, <1>9, <1>11, <1>12 DEF Framing
<1> QED  BY <1>13, <1>14, <1>2, <1>3

\* The loop ends on an incomplete packet, and a copy that spoils the leftover
\* disowns only packets that are not delivered.
LEMMA KeepRestFraming ==
  ASSUME StreamAssumption, Framing, KeepRest
  PROVE  Framing'
<1>0. /\ pos \in Nat /\ got \in Nat /\ wr \in Nat /\ base \in Nat
      /\ base <= pos /\ pos <= got /\ got <= wr /\ wr <= MaxBytes
      /\ got - base <= BufSize /\ BufSize \in Nat
      /\ TypeOK /\ parsing /\ state = "UP"
  BY DEF Framing, TypeOK, BufferBounds, Offset, StreamAssumption, KeepRest, Control
<1>1. /\ base' = pos /\ parsing' = FALSE /\ posted' \in BOOLEAN
      /\ UNCHANGED <<state, pos, got, wr, peer, delivered>>
  BY DEF KeepRest, Repost
<1>2. BufferBounds' /\ wr' <= MaxBytes
  BY <1>0, <1>1 DEF BufferBounds, Offset
<1>3. Control'
  BY <1>0, <1>1 DEF Control
<1>4. sent' \in Seq(Slice) /\ torn' \in BOOLEAN => TypeOK'
  BY <1>0, <1>1, Zenon DEF TypeOK
<1>5. PICK d \in Nat : d = Len(delivered)
  BY <1>0, SentTyped
<1>6. PICK m \in Nat : m = Len(sent)
  BY <1>0, SentTyped
<1>7. CASE sent' = sent /\ (torn' = torn \/ (torn' = TRUE /\ ~(d < m)))
  <2>1. torn' \in BOOLEAN /\ (torn => torn')
    BY <1>0, <1>7 DEF TypeOK
  <2>2. TypeOK'
    BY <1>0, <1>4, <1>7, <2>1 DEF TypeOK
  <2>3. Tiling' /\ Aligned' /\ ExactDelivery'
    BY <1>0, <1>1, <1>7, <2>1, HistoryKept
  <2>4. NothingLeftBehind'
    <3> SUFFICES ASSUME d < m  PROVE EndOf(d + 1) > got
      BY <1>1, <1>5, <1>6, <1>7 DEF NothingLeftBehind, EndOf
    <3>1. /\ SizesAt(pos) = {sent[d + 1].size}
          /\ EndOf(d + 1) = pos + sent[d + 1].size
          /\ sent[d + 1].size \in 1 .. MaxSize
      BY <1>5, <1>6, DueHeader
    <3>2. sent[d + 1].size \in Nat /\ sent[d + 1].size > 0
      BY <3>1, StreamAssumption DEF StreamAssumption
    <3>3. LoopEnds
      BY DEF KeepRest
    <3> QED  BY <3>1, <3>2, <3>3, <1>0 DEF LoopEnds
  <2> QED  BY <1>2, <1>3, <2>2, <2>3, <2>4 DEF Framing
<1>8. CASE sent' = SubSeq(sent, 1, d) /\ torn' = TRUE /\ d < m
  <2>1. \A i \in 1 .. d : sent[i] \in Slice
    BY <1>0, <1>6, <1>8, SentTyped
  <2>2. /\ sent' \in Seq(Slice) /\ Len(sent') = d
        /\ \A i \in 1 .. d : sent'[i] = sent[i]
    <3>1. /\ SubSeq(sent, 1, d) \in Seq(Slice)
          /\ Len(SubSeq(sent, 1, d)) = IF 1 <= d THEN d - 1 + 1 ELSE 0
          /\ \A i \in 1 .. d - 1 + 1 : SubSeq(sent, 1, d)[i] = sent[1 + i - 1]
      BY <2>1, <1>5, SubSeqProperties
    <3> QED  BY <3>1, <1>5, <1>8
  <2>3. \A i \in 0 .. d : EndOf(i)' = EndOf(i)
    BY <2>2, <1>5 DEF EndOf
  <2>4. EndOf(d) = pos
    BY <1>5, <1>6, <1>8 DEF Framing, Aligned
  <2>5. EndOf(Len(sent))' = pos
    BY <2>2, <2>3, <2>4, <1>5
  <2>6. TypeOK'
    BY <1>4, <1>8, <2>2
  <2>7. \A i \in 1 .. Len(sent)' : sent'[i].at = EndOf(i - 1)'
    <3> TAKE i \in 1 .. Len(sent)'
    <3>1. i \in 1 .. d /\ i - 1 \in 0 .. d /\ i \in 1 .. m
      BY <2>2, <1>5, <1>6, <1>8
    <3>2. sent[i].at = EndOf(i - 1)
      BY <3>1, <1>6 DEF Framing, Tiling
    <3> QED  BY <3>1, <3>2, <2>2, <2>3
  <2>8. \A i, j \in 1 .. Len(sent)' :
          i < j => sent'[i].at + sent'[i].size <= sent'[j].at
    BY <2>2, <1>5, <1>6, <1>8 DEF Framing, Tiling
  <2>9. Tiling'
    BY <2>5, <2>7, <2>8, <1>0, <1>1, <1>8 DEF Tiling
  <2>10. Aligned'
    BY <2>2, <2>3, <2>4, <1>1, <1>5 DEF Aligned
  <2>11. ExactDelivery'
    <3>1. \A i \in 1 .. m : i <= d => delivered[i] = sent[i]
      BY <1>5, <1>6 DEF Framing, ExactDelivery
    <3> QED  BY <3>1, <2>2, <1>1, <1>5, <1>6, <1>8 DEF ExactDelivery
  <2>12. NothingLeftBehind'
    BY <2>2, <1>1, <1>5 DEF NothingLeftBehind
  <2> QED  BY <1>2, <1>3, <2>6, <2>9, <2>10, <2>11, <2>12 DEF Framing
<1>9. \/ sent' = sent /\ (torn' = torn \/ (torn' = TRUE /\ ~(d < m)))
      \/ sent' = SubSeq(sent, 1, d) /\ torn' = TRUE /\ d < m
  BY <1>5, <1>6 DEF KeepRest
<1> QED  BY <1>7, <1>8, <1>9

\* Every step of the specification keeps the framing.
LEMMA NextFraming ==
  ASSUME StreamAssumption, Framing, [Next]_vars  PROVE Framing'
<1>1. CASE Peer
  <2>1. ASSUME NEW s \in 1 .. MaxSend, PeerSend(s)  PROVE Framing'
    BY <2>1, SendFraming
  <2>2. ASSUME NEW s \in 1 .. MaxSend, NEW k \in 1 .. MaxSend, PeerShortSend(s, k)
        PROVE  Framing'
    BY <2>2, ShortSendFraming
  <2>3. CASE PeerLeaves
    BY <2>3, QuietFraming
  <2> QED  BY <1>1, <2>1, <2>2, <2>3 DEF Peer
<1>2. CASE Recv
  <2>1. ASSUME NEW n \in 1 .. BufSize, RecvBytes(n)  PROVE Framing'
    BY <2>1, RecvBytesFraming
  <2>2. CASE RecvNothing \/ RecvEnds
    BY <2>2, QuietFraming
  <2> QED  BY <1>2, <2>1, <2>2 DEF Recv
<1>3. CASE DeliverPacket
  BY <1>3, DeliverFraming
<1>4. CASE KeepRest
  BY <1>4, KeepRestFraming
<1>5. CASE FaceDown
  BY <1>5, QuietFraming
<1>6. CASE FaceUp
  BY <1>6, FaceUpFraming
<1>7. CASE UNCHANGED vars
  <2>1. UNCHANGED <<state, posted, parsing, base, pos, got, wr, peer, sent,
                    delivered, torn>>
    BY <1>7 DEF vars, face, cursor
  <2> QED
    BY <2>1 DEF Framing, TypeOK, BufferBounds, Control, Tiling, Aligned,
                ExactDelivery, NothingLeftBehind, EndOf, Offset
<1> QED  BY <1>1, <1>2, <1>3, <1>4, <1>5, <1>6, <1>7 DEF Next

-----------------------------------------------------------------------------
\* The framing invariant holds of every behaviour of the face: in particular
\* ndn_unix_face_recv delivers the packets sent, whole, in order and once.
THEOREM FramingHolds == Spec => []Framing
<1>1. Init => Framing
  BY InitFraming, StreamAssumption
<1>2. Framing /\ [Next]_vars => Framing'
  BY NextFraming, StreamAssumption
<1> QED  BY <1>1, <1>2, PTL DEF Spec

\* Type correctness.
THEOREM TypeCorrect == Spec => []TypeOK
<1>1. Framing => TypeOK
  BY DEF Framing
<1> QED  BY <1>1, FramingHolds, PTL

\* recv() and the copy stay inside ptr->buf.
THEOREM StaysInBuffer == Spec => []BufferBounds
<1>1. Framing => BufferBounds
  BY DEF Framing
<1> QED  BY <1>1, FramingHolds, PTL

\* What the forwarder receives is what the peer sent, up to the damage.
THEOREM DeliversExactly == Spec => []ExactDelivery
<1>1. Framing => ExactDelivery
  BY DEF Framing
<1> QED  BY <1>1, FramingHolds, PTL

\* No complete packet waits in the buffer for bytes that need not come.
THEOREM LeavesNothingBehind == Spec => []NothingLeftBehind
<1>1. Framing => NothingLeftBehind
  BY DEF Framing
<1> QED  BY <1>1, FramingHolds, PTL

\* The packets that are intact on the stream are packets the peer has sent.
SentFits == \A i \in 1 .. Len(sent) : sent[i].size <= MaxSend

\* No step puts a longer packet among the intact ones.
LEMMA NextSentFits ==
  ASSUME StreamAssumption, Framing, SentFits, [Next]_vars  PROVE SentFits'
<1>0. sent \in Seq(Slice) /\ Len(sent) \in Nat /\ Len(delivered) \in Nat
  BY SentTyped DEF Framing, TypeOK
<1>1. ASSUME NEW s \in 1 .. MaxSend, PeerSend(s)  PROVE SentFits'
  <2>0. s \in Nat /\ s <= MaxSend /\ s > 0
    BY DEF StreamAssumption
  <2>1. CASE torn
    BY <1>1, <2>1 DEF PeerSend, SentFits
  <2>2. CASE ~torn
    <3> DEFINE p == [at |-> wr, size |-> s]
    <3>0. p \in Slice
      BY <1>1, <2>0 DEF PeerSend, Slice, Framing, TypeOK, StreamAssumption
    <3>1. /\ Len(sent') = Len(sent) + 1
          /\ \A i \in 1 .. Len(sent) : sent'[i] = sent[i]
          /\ sent'[Len(sent) + 1] = p
      BY <1>0, <1>1, <2>2, <3>0, AppendProperties DEF PeerSend
    <3>2. p.size <= MaxSend
      BY <2>0
    <3> QED  BY <1>0, <3>1, <3>2 DEF SentFits
  <2> QED  BY <2>1, <2>2
<1>2. CASE KeepRest
  <2>1. CASE sent' = sent
    BY <2>1 DEF SentFits
  <2>2. CASE sent' = SubSeq(sent, 1, Len(delivered)) /\ Len(delivered) < Len(sent)
    <3>1. /\ Len(sent') = Len(delivered)
          /\ \A i \in 1 .. Len(delivered) : sent'[i] = sent[i]
      BY <1>0, <2>2, SubSeqProperties
    <3> QED  BY <1>0, <2>2, <3>1 DEF SentFits
  <2> QED  BY <1>2, <2>1, <2>2 DEF KeepRest
<1>3. CASE FaceUp
  BY <1>3 DEF FaceUp, SentFits
<1>4. CASE UNCHANGED sent
  BY <1>4 DEF SentFits
<1>5. \/ \E s \in 1 .. MaxSend : PeerSend(s)
      \/ KeepRest \/ FaceUp \/ UNCHANGED sent
  BY DEF Next, Peer, PeerShortSend, PeerLeaves, Recv, RecvBytes, RecvNothing,
         RecvEnds, DeliverPacket, FaceDown, vars
<1> QED  BY <1>1, <1>2, <1>3, <1>4, <1>5

\* With packets no longer than the buffer, an undamaged stream always leaves
\* room for the next receive: its 0 means a shutdown and nothing else.
THEOREM RoomRemains == Spec => []RoomToReceive
<1>1. Framing /\ SentFits => RoomToReceive
  <2> SUFFICES ASSUME Framing, SentFits, MaxSend <= BufSize, ~torn, ~parsing
               PROVE  Offset < BufSize
    BY DEF RoomToReceive
  <2>1. /\ pos \in Nat /\ got \in Nat /\ wr \in Nat /\ base = pos /\ got <= wr
        /\ BufSize \in Nat \ {0} /\ MaxSize \in Nat /\ MaxSend \in Nat
        /\ Len(delivered) \in Nat /\ Len(sent) \in Nat
    BY StreamAssumption, SentTyped
       DEF Framing, TypeOK, BufferBounds, Control, StreamAssumption
  <2>2. CASE Len(delivered) < Len(sent)
    <3>1. /\ EndOf(Len(delivered) + 1) = pos + sent[Len(delivered) + 1].size
          /\ sent[Len(delivered) + 1].size \in 1 .. MaxSend
      BY <2>1, <2>2, DueHeader DEF SentFits
    <3>2. EndOf(Len(delivered) + 1) > got
      BY <2>2 DEF Framing, NothingLeftBehind
    <3> QED  BY <2>1, <3>1, <3>2 DEF Offset
  <2>3. CASE Len(delivered) = Len(sent)
    <3>1. pos = wr
      BY <2>3 DEF Framing, Aligned, Tiling
    <3> QED  BY <2>1, <3>1 DEF Offset
  <2>4. Len(delivered) <= Len(sent)
    BY DEF Framing, ExactDelivery
  <2> QED  BY <2>1, <2>2, <2>3, <2>4
<1>2. Init => SentFits
  BY DEF Init, SentFits
<1>3. Framing /\ SentFits /\ [Next]_vars => SentFits'
  BY NextSentFits, StreamAssumption
<1> QED  BY <1>1, <1>2, <1>3, FramingHolds, PTL DEF Spec

-----------------------------------------------------------------------------
(* The face implements the packet channel: each step is a step of the       *)
(* channel or leaves what the channel sees unchanged.                        *)

\* A send of the peer is a Send of the channel, or hidden by the damage.
LEMMA SendRefines ==
  ASSUME StreamAssumption, Framing, NEW s \in 1 .. MaxSend, PeerSend(s)
  PROVE  Channel!Send \/ UNCHANGED <<sent, delivered, torn>>
<1>1. CASE torn
  BY <1>1 DEF PeerSend
<1>2. CASE ~torn
  <2>1. [at |-> wr, size |-> s] \in Slice
    <3>1. wr \in Nat /\ s \in Nat /\ s > 0 /\ wr + s <= MaxBytes /\ MaxBytes \in Nat
      BY DEF PeerSend, Framing, TypeOK, StreamAssumption
    <3> QED  BY <3>1 DEF Slice
  <2> QED  BY <2>1, <1>2 DEF PeerSend, Channel!Send
<1> QED  BY <1>1, <1>2

\* A turn of the loop is a Deliver, or a DeliverGarbage after the damage.
LEMMA DeliverRefines ==
  ASSUME StreamAssumption, Framing, DeliverPacket
  PROVE  Channel!Deliver \/ Channel!DeliverGarbage
<1>0. Len(sent) \in Nat /\ Len(delivered) \in Nat
  BY SentTyped DEF Framing
<1>1. UNCHANGED <<sent, torn>>
  BY DEF DeliverPacket
<1>2. PICK s \in SizesAt(pos) :
        /\ pos + s <= got
        /\ delivered' = Append(delivered, [at |-> pos, size |-> s])
  BY DEF DeliverPacket
<1>3. CASE Len(delivered) < Len(sent)
  <2>1. [at |-> pos, size |-> s] = sent[Len(delivered) + 1]
    BY <1>2, <1>3, DueHeader
  <2> QED  BY <2>1, <1>1, <1>2, <1>3 DEF Channel!Deliver
<1>4. CASE Len(delivered) >= Len(sent)
  <2>1. Framing'
    BY DeliverFraming
  <2>2. Len(delivered') = Len(delivered) + 1 /\ delivered' \in Seq(Slice)
    <3>1. delivered' \in Seq(Slice)
      BY <2>1 DEF Framing, TypeOK
    <3>2. delivered \in Seq(Slice)
      BY DEF Framing, TypeOK
    <3>3. Len(delivered') = Len(delivered) + 1
      BY <1>2, <3>2
    <3> QED  BY <3>1, <3>3
  <2>3. torn
    BY <2>1, <2>2, <1>0, <1>1, <1>4 DEF Framing, ExactDelivery
  <2>4. [at |-> pos, size |-> s] \in Slice
    <3>1. delivered'[Len(delivered) + 1] = [at |-> pos, size |-> s]
      BY <1>2 DEF Framing, TypeOK
    <3>2. delivered'[Len(delivered) + 1] \in Slice
      BY <2>2, <1>0, ElementOfSeq
    <3> QED  BY <3>1, <3>2
  <2> QED  BY <2>3, <2>4, <1>1, <1>2, <1>4 DEF Channel!DeliverGarbage
<1> QED  BY <1>0, <1>3, <1>4

\* The end of the loop leaves the channel alone, or is a Damage of it.
LEMMA KeepRestRefines ==
  ASSUME KeepRest
  PROVE  Channel!Damage \/ UNCHANGED <<sent, delivered, torn>>
BY DEF KeepRest, Channel!Damage

\* What the forwarder sees of the byte stream is the packet channel.
THEOREM ImplementsChannel == Spec => ChannelSpec
<1>1. Init => Channel!Init
  BY DEF Init, Channel!Init
<1>2. Framing /\ [Next]_vars => [Channel!Next]_(Channel!chan)
  <2> SUFFICES ASSUME Framing, [Next]_vars
               PROVE  Channel!Next \/ UNCHANGED <<sent, delivered, torn>>
    BY DEF Channel!chan
  <2> USE StreamAssumption DEF Channel!Next
  <2>1. ASSUME NEW s \in 1 .. MaxSend, PeerSend(s)
        PROVE  Channel!Send \/ UNCHANGED <<sent, delivered, torn>>
    BY <2>1, SendRefines
  <2>2. ASSUME NEW s \in 1 .. MaxSend, NEW k \in 1 .. MaxSend, PeerShortSend(s, k)
        PROVE  Channel!Damage
    BY <2>2 DEF PeerShortSend, Channel!Damage
  <2>3. ASSUME NEW n \in 1 .. BufSize, RecvBytes(n)
        PROVE  UNCHANGED <<sent, delivered, torn>>
    BY <2>3 DEF RecvBytes
  <2>4. CASE PeerLeaves \/ RecvNothing \/ RecvEnds \/ FaceDown \/ UNCHANGED vars
    BY <2>4 DEF PeerLeaves, RecvNothing, RecvEnds, FaceDown, vars
  <2>5. CASE DeliverPacket
    BY <2>5, DeliverRefines
  <2>6. CASE KeepRest
    BY <2>6, KeepRestRefines
  <2>7. CASE FaceUp
    BY <2>7 DEF FaceUp, Channel!Reconnect
  <2> QED
    BY <2>1, <2>2, <2>3, <2>4, <2>5, <2>6, <2>7 DEF Next, Peer, Recv
<1> QED  BY <1>1, <1>2, FramingHolds, PTL DEF Spec, ChannelSpec, Channel!Spec
=============================================================================
