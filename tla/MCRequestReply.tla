--------------------------- MODULE MCRequestReply ---------------------------
(* Instance of RequestReply for TLC. *)
EXTENDS RequestReply

CONSTANTS c1, c2, p1, r1, g1, gp1, n1, n2, np1, d1

MCConsumer      == {c1, c2}
MCProducer      == {p1}
MCRelay         == {r1}
MCGroup         == {g1}
MCGroupProducer == {gp1}
MCNfdConsumer   == {n1, n2}
MCNfdProducer   == {np1}
MCDaemon        == {d1}

\* Two consumers and a producer; a relay between the two; a group; the clients
\* of the in-tree daemon, and of NFD with its producer.
MCCasts == {{c1, c2, p1}, {c1, r1, p1}, {g1, gp1}, {n1, np1, d1}, {n1, n2, np1}}

Arg(l, n, r) == [local |-> l, name |-> n, remote |-> r]

\* A consumer (its port past the word), the two faces of a relay and a producer
\* in line, one wired to the next, and ports below and past the range.
MCAsked ==
  {Arg(18, "a", 3), Arg(3, "b", 2), Arg(4, "a", 5), Arg(5, "a", 4),
   Arg(1, "a", 2), Arg(2, "a", 6)}
=============================================================================
