----------------------------- MODULE MCPutChunks -----------------------------
(* Instance of PutChunks for TLC. *)
EXTENDS PutChunks

\* Empty, below, at and past one block, at and past two; as much as the table
\* holds, and a byte more.
MCSizes == 0 .. 7

\* A whole block fits its packet, or only a shorter one does.
MCOverheads == {1, 2}
=============================================================================
