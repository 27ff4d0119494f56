--------------------------- MODULE PacketChannel ---------------------------
(***************************************************************************)
(* What a stream face promises its forwarder, for one direction of one     *)
(* connection: the packets whose send was reported successful reach        *)
(* ndn_forwarder_receive whole, once, in order.  The promise has an end:   *)
(* after a Damage (a short send, a reconnect over a half-received packet,  *)
(* a leftover copied badly) the packets not yet delivered may be lost and  *)
(* what comes after the ones delivered may be anything.                    *)
(***************************************************************************)
EXTENDS Naturals, Sequences

CONSTANT Packet   \* the packets that can be put on the channel

VARIABLES sent,       \* packets the channel still vouches for, in order
          delivered,  \* packets handed to the receiver, in order
          torn        \* the channel no longer vouches for later packets

chan == <<sent, delivered, torn>>

Init == sent = << >> /\ delivered = << >> /\ torn = FALSE

Send ==
  /\ ~torn
  /\ \E p \in Packet : sent' = Append(sent, p)
  /\ UNCHANGED <<delivered, torn>>

\* The oldest packet not yet delivered, and no other, is delivered.
Deliver ==
  /\ Len(delivered) < Len(sent)
  /\ delivered' = Append(delivered, sent[Len(delivered) + 1])
  /\ UNCHANGED <<sent, torn>>

\* The end of the promise: no packet already delivered is disowned.
Damage ==
  /\ torn' = TRUE
  /\ \/ sent' = sent
     \/ Len(delivered) < Len(sent) /\ sent' = SubSeq(sent, 1, Len(delivered))
  /\ UNCHANGED delivered

\* Past the damage, and only once every vouched packet is delivered.
DeliverGarbage ==
  /\ torn
  /\ Len(delivered) >= Len(sent)
  /\ \E p \in Packet : delivered' = Append(delivered, p)
  /\ UNCHANGED <<sent, torn>>

\* A new connection starts afresh, clean or damaged from its first byte.
Reconnect ==
  /\ sent' = << >>
  /\ delivered' = << >>
  /\ torn' \in BOOLEAN

Next == Send \/ Deliver \/ Damage \/ DeliverGarbage \/ Reconnect

Spec == Init /\ [][Next]_chan
=============================================================================
