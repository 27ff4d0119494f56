----------------------------- MODULE MCUnixFace -----------------------------
(* Instance of UnixFace for TLC: the objects a process has. *)
EXTENDS UnixFace

CONSTANTS c1, srv, s1, s2, app

MCClient == {c1}
MCServer == {srv}
MCSlave  == {s1, s2}
MCSender == {c1, srv, s1, s2, app}
=============================================================================
