----------------------------- MODULE MCUdpFace -----------------------------
(* Instance of UdpFace for TLC. *)
EXTENDS UdpFace

CONSTANTS f1, f2, app

MCFace   == {f1, f2}
MCSender == {f1, f2, app}
=============================================================================
