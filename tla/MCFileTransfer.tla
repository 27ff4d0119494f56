--------------------------- MODULE MCFileTransfer ---------------------------
(* Instances of FileTransfer for TLC. *)
EXTENDS FileTransfer

\* Two chunks and a rest, two whole chunks, a NUL byte in the second chunk,
\* nothing.
AllFiles  == {<<65, 66, 67, 68, 69>>, <<65, 66, 67, 68>>, <<65, 66, 67, 0, 69>>, << >>}
TextFiles == {<<65, 66, 67, 68, 69>>, <<65, 66, 67, 68>>}

\* The type of SignatureInfo, and its length when that is not 0.
SignatureBeyond == {<<22>>, <<22, 3>>}
=============================================================================
