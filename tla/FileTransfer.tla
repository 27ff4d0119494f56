---------------------------- MODULE FileTransfer ----------------------------
(***************************************************************************)
(* The file transfer of examples/file-transfer-client.c and                *)
(* file-transfer-server.c.  The client expresses one signed Interest with  *)
(* the file name as parameters; the server answers it with the whole file, *)
(* one Data per chunk, sent in one burst over a datagram face; the client  *)
(* appends what it is handed to a file of its own.  Runs of the client     *)
(* follow one another against one server, on one disk.                     *)
(*                                                                         *)
(* The PIT of the two forwarders is external, and nothing in the programs  *)
(* tells whether its entry survives the first Data (the transfer needs     *)
(* that) or is consumed by it: keeps stands for the two cases.             *)
(*                                                                         *)
(* Init, Next and what is made of them carry a prefix here: the theorems   *)
(* about this program stand beside those about PutChunks.                  *)
(***************************************************************************)
EXTENDS Integers, Sequences, SequencesExt

CONSTANTS
  Files,       \* contents: sequences over 0 (NUL) and 1 .. 255
  CHUNK_SIZE,  \* bytes of the file in one Data
  Beyond,      \* what follows the content in the packet, up to a NUL
  Reorders,    \* the network may deliver Data out of order
  DiskMayFail, \* the client's fopen or fputs may fail
  MaxLosses, MaxDup,   \* bounds: packets lost, packets duplicated
  MaxRuns,     \* bound: runs of the client
  MaxFiles     \* FILEs the server can have open

\* A signed Data goes on after its content, with the type of SignatureInfo.
ASSUME TransferAssumption ==
  /\ Files \subseteq Seq(0 .. 255) /\ CHUNK_SIZE \in Nat \ {0}
  /\ Beyond \subseteq Seq(1 .. 255) \ {<< >>}
  /\ Reorders \in BOOLEAN /\ DiskMayFail \in BOOLEAN
  /\ MaxLosses \in Nat /\ MaxDup \in Nat /\ MaxRuns \in Nat /\ MaxFiles \in Nat

VARIABLES
  file,      \* the content of the file requested; it does not change
  keeps,     \* a PIT entry lives until its lifetime ends
  run,       \* runs of the client so far
  running,   \* the client's `running'
  interest,  \* the Interest of this run: "none", "sent", "received"
  pit,       \* the client's PIT entry for it
  net,       \* Data on the way to the client, in the order sent
  taken,     \* history: segment numbers given to on_data in this run, in order
  saved,     \* the bytes of the client's file
  starts,    \* history: the length of that file at each on_data of this run
  fopened,   \* FILEs that on_success opened: none is ever closed
  losses, dup, \* packets lost and duplicated so far
  spoiled    \* history: what has happened that the programs do not handle

chosen == <<file, keeps>>
transferVars ==
  <<chosen, run, running, interest, pit, net, taken, saved, starts, fopened,
    losses, dup, spoiled>>

NChunks == (Len(file) + CHUNK_SIZE - 1) \div CHUNK_SIZE

Reasons == {"loss", "order", "duplicate", "late", "no FILE", "pit", "disk"}

\* The server's main has made its keys, face and route and loops for ever: its
\* running is never cleared.  No client has run.
TransferInit ==
  /\ file \in Files /\ keeps \in BOOLEAN
  /\ run = 0 /\ running = FALSE /\ interest = "none" /\ pit = FALSE
  /\ net = << >> /\ taken = << >> /\ saved = << >> /\ starts = << >>
  /\ fopened = 0 /\ losses = 0 /\ dup = 0
  /\ spoiled = {}

-----------------------------------------------------------------------------
(* The server. *)

\* Mutant: every turn of the loop reads CHUNK_SIZE bytes and starts one early.
ChunksOverlap ==
  [k \in 1 .. NChunks |->
     [seg   |-> k - 1,
      final |-> Len(file) \div CHUNK_SIZE,
      data  |-> SubSeq(file, IF k = 1 THEN 1 ELSE (k - 1) * CHUNK_SIZE,
                             IF k = NChunks THEN Len(file) ELSE k * CHUNK_SIZE)]]

\* The Data made by the loop of on_success: number, FinalBlockId, content.
Chunks ==
  [k \in 1 .. NChunks |->
     [seg   |-> k - 1,
      final |-> Len(file) \div CHUNK_SIZE,
      data  |-> SubSeq(file, (k - 1) * CHUNK_SIZE + 1,
                             IF k = NChunks THEN Len(file) ELSE k * CHUNK_SIZE)]]

\* Mutant: the result of fopen is not looked at.
CanOpenUnchecked == TRUE

\* fopen has a FILE to give.
CanOpen == fopened < MaxFiles

\* on_interest with a valid signature: on_success opens the file and puts the
\* Data of every chunk; the FILE stays open.  A PIT entry that the first Data
\* consumes lets only that one through.
ServerAnswers ==
  /\ interest = "sent"
  /\ interest' = "received"
  /\ \/ /\ CanOpen
        /\ fopened' = fopened + 1
        /\ net' = IF keeps THEN Chunks ELSE SubSeq(Chunks, 1, IF NChunks = 0 THEN 0 ELSE 1)
        /\ spoiled' = IF keeps \/ NChunks <= 1 THEN spoiled
                      ELSE spoiled \cup {"pit"}
     \/ /\ ~CanOpen
        /\ spoiled' = spoiled \cup {"no FILE"}
        /\ UNCHANGED <<net, fopened>>
  /\ UNCHANGED <<chosen, run, running, pit, taken, saved, starts, losses, dup>>

-----------------------------------------------------------------------------
(* The network. *)

\* The Interest is lost, or its signature does not verify (on_failure).
InterestLost ==
  /\ interest = "sent" /\ losses < MaxLosses
  /\ interest' = "received"
  /\ losses' = losses + 1
  /\ spoiled' = spoiled \cup {"loss"}
  /\ UNCHANGED <<chosen, run, running, pit, net, taken, saved, starts, fopened, dup>>

DataLost ==
  /\ losses < MaxLosses
  /\ \E i \in 1 .. Len(net) : net' = RemoveAt(net, i)
  /\ losses' = losses + 1
  /\ spoiled' = spoiled \cup {"loss"}
  /\ UNCHANGED <<chosen, run, running, interest, pit, taken, saved, starts, fopened, dup>>

DataDuplicated ==
  /\ dup < MaxDup
  /\ \E i \in 1 .. Len(net) : net' = InsertAt(net, i, net[i])
  /\ dup' = dup + 1
  /\ spoiled' = spoiled \cup {"duplicate"}
  /\ UNCHANGED <<chosen, run, running, interest, pit, taken, saved, starts, fopened, losses>>

-----------------------------------------------------------------------------
(* The client. *)

\* main: keys and face are made (what of them matters is in the Interest's
\* signature), the Interest is expressed and the loop entered.  The file of an
\* earlier run is still there.
ClientStarts ==
  /\ ~running /\ run < MaxRuns
  /\ run' = run + 1
  /\ running' = TRUE
  /\ interest' = "sent" /\ pit' = TRUE
  /\ net' = << >> /\ taken' = << >> /\ starts' = << >>
  /\ spoiled' = {}
  /\ UNCHANGED <<chosen, saved, fopened, losses, dup>>

\* What fputs writes of a content: up to its first NUL, or past its end up to
\* the next NUL in the packet (or beyond it).
Written(content, beyond) ==
  LET nuls == {i \in 1 .. Len(content) : content[i] = 0}
  IN  IF nuls = {} THEN content \o beyond
      ELSE SubSeq(content, 1, (CHOOSE i \in nuls : \A j \in nuls : i <= j) - 1)

\* Mutant: the file is opened for writing and truncated by every chunk.
OnDataTruncates(i, beyond) ==
  LET d == net[i]
  IN  /\ saved' = Written(d.data, beyond)
      /\ taken' = Append(taken, d.seg)
      /\ spoiled' = IF i = 1 THEN spoiled ELSE spoiled \cup {"order"}

\* on_data and save_file: the content is appended, whatever its segment
\* number, and the loop goes on.
OnData(i, beyond) ==
  LET d == net[i]
  IN  /\ saved' = saved \o Written(d.data, beyond)
      /\ taken' = Append(taken, d.seg)
      /\ spoiled' = IF i = 1 THEN spoiled ELSE spoiled \cup {"order"}

\* save_file fails: on_data does not look at what it returns.
OnDataUnsaved(i) ==
  /\ DiskMayFail
  /\ taken' = Append(taken, net[i].seg)
  /\ spoiled' = spoiled \cup {"disk"}
  /\ UNCHANGED saved

ClientReceives ==
  /\ running /\ pit
  /\ \E i \in 1 .. (IF Reorders THEN Len(net) ELSE IF net = << >> THEN 0 ELSE 1) :
       /\ OnDataUnsaved(i) \/ \E beyond \in Beyond : OnData(i, beyond)
       /\ net' = RemoveAt(net, i)
  /\ starts' = Append(starts, Len(saved))
  /\ pit' = keeps
  /\ UNCHANGED <<chosen, run, running, interest, fopened, losses, dup>>

\* Mutant: a timeout does not end the loop.
OnTimeoutIgnored ==
  /\ running /\ pit
  /\ pit' = FALSE
  /\ spoiled' = IF Len(taken) < NChunks THEN spoiled \cup {"late"} ELSE spoiled
  /\ UNCHANGED <<chosen, run, running, interest, net, taken, saved, starts, fopened, losses, dup>>

\* The lifetime of 10 s ends with the entry in the PIT: on_timeout, the only
\* way out of the loop.
OnTimeout ==
  /\ running /\ pit
  /\ pit' = FALSE
  /\ running' = FALSE
  /\ spoiled' = IF Len(taken) < NChunks THEN spoiled \cup {"late"} ELSE spoiled
  /\ UNCHANGED <<chosen, run, interest, net, taken, saved, starts, fopened, losses, dup>>

TransferNext ==
  \/ ServerAnswers
  \/ InterestLost \/ DataLost \/ DataDuplicated
  \/ ClientStarts \/ ClientReceives \/ OnTimeout

TransferSpec == TransferInit /\ [][TransferNext]_transferVars

\* The client's loop runs the forwarder until `running' is false, so an entry
\* that stays in the PIT times out.
FairTransferSpec == TransferSpec /\ WF_transferVars(OnTimeout)

-----------------------------------------------------------------------------
TransferTypeOK ==
  /\ file \in Files /\ keeps \in BOOLEAN
  /\ run \in 0 .. MaxRuns /\ running \in BOOLEAN /\ pit \in BOOLEAN
  /\ interest \in {"none", "sent", "received"}
  /\ net \in Seq([seg : Nat, final : Nat, data : Seq(0 .. 255)])
  /\ taken \in Seq(Nat) /\ saved \in Seq(1 .. 255)
  /\ starts \in Seq(Nat) /\ Len(starts) = Len(taken)
  /\ fopened \in 0 .. MaxFiles
  /\ losses \in 0 .. MaxLosses /\ dup \in 0 .. MaxDup
  /\ spoiled \subseteq Reasons

\* Every byte of the file is in a chunk taken already or in exactly one of the
\* Data on their way, at the place that its segment number says, and these are
\* numbered from the chunk that is due.  The FinalBlockId is the number of the
\* last chunk unless the size is a multiple of the chunk size, when it is one more.
ChunksTile ==
  LET final == NChunks - (IF Len(file) % CHUNK_SIZE = 0 THEN 0 ELSE 1)
      Place(i, j) == net[i].seg * CHUNK_SIZE + j
      Due == DOMAIN file \ (1 .. Len(taken) * CHUNK_SIZE)
  IN  spoiled = {} /\ interest = "received" =>
        /\ \A i \in DOMAIN net : net[i].seg = Len(taken) + i - 1 /\ net[i].final = final
        /\ \A i \in DOMAIN net : \A j \in DOMAIN net[i].data :
             Place(i, j) \in Due /\ net[i].data[j] = file[Place(i, j)]
        /\ \A b \in Due :
             \E i \in DOMAIN net :
               /\ \E j \in DOMAIN net[i].data : Place(i, j) = b
               /\ \A h \in DOMAIN net \ {i} : \A j \in DOMAIN net[h].data : Place(h, j) # b

\* What the client's file holds of the k-th Data of this run is the chunk of
\* its number up to the chunk's first NUL; when there is none, the whole chunk
\* and then some of the packet.  It is never just the chunk.
IsPiece(k) ==
  LET from == starts[k]
      to   == IF k = Len(taken) THEN Len(saved) ELSE starts[k + 1]
      at   == taken[k] * CHUNK_SIZE
      n    == IF Len(file) - at < CHUNK_SIZE THEN Len(file) - at ELSE CHUNK_SIZE
  IN  /\ from <= to /\ to <= Len(saved)
      /\ \A j \in 1 .. n : from + j <= to => saved[from + j] = file[at + j]
      /\ to - from < n => file[at + (to - from) + 1] = 0
      /\ to - from # n

\* However the Data are lost, repeated or overtaken, and whatever earlier runs
\* left in the client's file, each Data of this run stays in it where it was
\* appended, in the order of arrival.  As long as nothing has happened that the
\* programs do not handle, the order is the file's, without a gap, and when the
\* loop ends every chunk has come.
SavedInPieces ==
  /\ "disk" \notin spoiled => \A k \in DOMAIN taken : IsPiece(k)
  /\ spoiled = {} =>
       /\ \A k \in DOMAIN taken : taken[k] = k - 1
       /\ run > 0 /\ ~running => Len(taken) = NChunks

\* A client whose PIT entry lives until its lifetime ends leaves its loop.  (A
\* client whose entry is consumed by the first Data waits for ever.)
ClientStops == running ~> ~running \/ (~keeps /\ taken # << >>)

\* file-transfer-client.c:14 and file-transfer-server.c:14: the server returns
\* the requested file to the client.  Once the client has been given every
\* chunk once and in order, its file is the requested one.
FileReturned ==
  running /\ taken = [k \in 1 .. NChunks |-> k - 1] => saved = file
=============================================================================
