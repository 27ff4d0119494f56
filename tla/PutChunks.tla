------------------------------ MODULE PutChunks ------------------------------
(***************************************************************************)
(* examples/ndn-putchunks.c: prepare_data cuts a file into a table of Data *)
(* packets, on_interest answers an Interest with the packet its last name  *)
(* component numbers.  The program has no client of its own: the consumer  *)
(* here is external, what ndncatchunks does.  It asks for the bare prefix, *)
(* learns the last number from the FinalBlockId, asks for every number, and*)
(* asks again for what does not come.                                      *)
(***************************************************************************)
EXTENDS Integers, FiniteSets

CONSTANTS
  Block,       \* DATA_BLOCK_SIZE
  MaxChunks,   \* MAX_CHUNKS_NUM
  Sizes,       \* sizes of the file
  Overheads,   \* bytes a packet adds to its content: mostly the name
  ChunkSize,   \* DATA_CHUNK_SIZE
  Word,        \* 2^32: chunks_num is a uint32_t
  MaxLoss      \* bound: packets lost

ASSUME ChunksAssumption ==
  /\ Block \in Nat \ {0} /\ MaxChunks \in Nat /\ Word \in Nat /\ MaxChunks < Word
  /\ Sizes \subseteq Nat
  /\ Overheads \subseteq Nat /\ ChunkSize \in Nat /\ MaxLoss \in Nat

VARIABLES
  size,       \* the file's size; it does not change
  overhead,   \* the overhead of the prefix; it does not change
  phase,      \* "open", "reading" (the loop of prepare_data), "serving", or
              \* "overrun": the loop has written past the table
  read,       \* position of the FILE
  eof,        \* feof(file)
  chunksNum,  \* chunks_num
  chunks,     \* packets made, by index: function from 0 .. made - 1
  interests,  \* Interests on the way: a number, or Prefix for the bare name
  data,       \* Data on the way
  final,      \* consumer: the last number, once known
  got,        \* consumer: the Data it has, by number
  lost        \* packets lost so far

fixed    == <<size, overhead>>
producer == <<fixed, phase, read, eof, chunksNum, chunks>>
vars     == <<producer, interests, data, final, got, lost>>

Prefix  == -1
Unknown == -1
made == Cardinality(DOMAIN chunks)   \* the loop's i

\* parse_args has taken the name and the file; prepare_data has not begun.
Init ==
  /\ size \in Sizes /\ overhead \in Overheads
  /\ phase = "open" /\ read = 0 /\ eof = FALSE /\ chunksNum = 0
  /\ chunks = [k \in {} |-> 0]
  /\ interests = {} /\ data = {}
  /\ final = Unknown /\ got = {}
  /\ lost = 0

-----------------------------------------------------------------------------
(* prepare_data *)

\* Mutant: the division does not round up.
NumberOfDown(n) == n \div Block

NumberOf(n) == (n + Block - 1) \div Block

\* fopen, fseek and ftell; chunks_num is set before anything is read.
OpenFile ==
  /\ phase = "open"
  /\ chunksNum' = NumberOf(size) % Word
  /\ phase' = "reading"
  /\ UNCHANGED <<fixed, read, eof, chunks, interests, data, final, got, lost>>

\* Mutant: the packets are numbered from 1.
PacketFromOne(n) ==
  [seg |-> made + 1, at |-> read, len |-> n, final |-> (chunksNum - 1) % Word]

\* The packet that tlv_make_data makes of the n bytes just read.
Packet(n) ==
  [seg |-> made, at |-> read, len |-> n, final |-> (chunksNum - 1) % Word]

\* What is left in the table when tlv_make_data fails: a packet of size 0.
NoPacket == [seg |-> Unknown, at |-> 0, len |-> 0, final |-> 0]

\* One turn of the loop: fread reads short, and sets feof, at the end only.
MakeChunk ==
  /\ phase = "reading" /\ ~eof /\ made < MaxChunks
  /\ LET n == IF size - read < Block THEN size - read ELSE Block
     IN  /\ chunks' = [k \in 0 .. made |->
                        IF k < made THEN chunks[k]
                        ELSE IF n + overhead <= ChunkSize THEN Packet(n) ELSE NoPacket]
         /\ read' = read + n
         /\ eof' = (n < Block)
  /\ UNCHANGED <<fixed, phase, chunksNum, interests, data, final, got, lost>>

\* The loop looks at feof alone (line 77): with the table full it makes one
\* packet more, past its end.  What the program does from there is undefined,
\* and nothing is said of it.
Overrun ==
  /\ phase = "reading" /\ ~eof /\ made = MaxChunks
  /\ phase' = "overrun"
  /\ UNCHANGED <<fixed, read, eof, chunksNum, chunks, interests, data, final, got, lost>>

\* The loop ends, the face comes up, the prefix is registered.
Serve ==
  /\ phase = "reading" /\ eof
  /\ phase' = "serving"
  /\ UNCHANGED <<fixed, read, eof, chunksNum, chunks, interests, data, final, got, lost>>

\* Mutant: a number past the last is not refused.
AnswerAny(n) ==
  LET segno == IF n = Prefix THEN 0 ELSE n
  IN  IF segno < made THEN {chunks[segno]} ELSE {}

\* Mutant: the last chunk is refused.
AnswerNotLast(n) ==
  LET segno == IF n = Prefix THEN 0 ELSE n
  IN  IF segno < chunksNum - 1 THEN {chunks[segno]} ELSE {}

\* on_interest: a last component that is no segment number counts as 0.
Answer(n) ==
  LET segno == IF n = Prefix THEN 0 ELSE n
  IN  IF segno < chunksNum THEN {chunks[segno]} ELSE {}

OnInterest ==
  /\ phase = "serving"
  /\ \E n \in interests :
       /\ interests' = interests \ {n}
       /\ data' = data \cup (Answer(n) \ {NoPacket})
  /\ UNCHANGED <<producer, final, got, lost>>

\* An Interest that ndn_interest_from_block refuses: on_interest prints so and
\* reads the number from a structure that nothing has set (line 106).
OnRefusedInterest ==
  /\ phase = "serving"
  /\ \E n \in 0 .. chunksNum : data' = data \cup (Answer(n) \ {NoPacket})
  /\ UNCHANGED <<producer, interests, final, got, lost>>

-----------------------------------------------------------------------------
(* The consumer and the network: external. *)

Wanted == IF final = Unknown THEN {Prefix} ELSE (0 .. final) \ {d.seg : d \in got}

\* An Interest, the first time or after a timeout.
Ask ==
  /\ phase = "serving"
  /\ \E n \in Wanted \ interests : interests' = interests \cup {n}
  /\ UNCHANGED <<producer, data, final, got, lost>>

\* Any number the user of another tool may ask for.
AskPast ==
  /\ phase = "serving" /\ interests = {}
  /\ interests' = {chunksNum}
  /\ UNCHANGED <<producer, data, final, got, lost>>

\* The Data of number k arrives.
Receive(k) ==
  /\ \E d \in data :
       /\ d.seg = k
       /\ data' = data \ {d}
       /\ final' = d.final
       /\ got' = got \cup {d}
  /\ UNCHANGED <<producer, interests, lost>>

Lose ==
  /\ lost < MaxLoss
  /\ \/ \E n \in interests : interests' = interests \ {n} /\ UNCHANGED data
     \/ \E d \in data : data' = data \ {d} /\ UNCHANGED interests
  /\ lost' = lost + 1
  /\ UNCHANGED <<producer, final, got>>

Prepare == OpenFile \/ MakeChunk \/ Overrun \/ Serve

Next ==
  \/ Prepare \/ OnInterest \/ OnRefusedInterest
  \/ Ask \/ AskPast \/ Lose
  \/ \E k \in 0 .. MaxChunks - 1 : Receive(k)

Spec == Init /\ [][Next]_vars

\* prepare_data runs to its end and the main loop processes for ever; a
\* Data that is not lost arrives, whatever else does, and the consumer asks again.
FairSpec ==
  /\ Spec
  /\ WF_vars(Prepare) /\ WF_vars(OnInterest) /\ SF_vars(Ask)
  /\ \A k \in 0 .. MaxChunks - 1 : WF_vars(Receive(k))

-----------------------------------------------------------------------------
TypeOK ==
  /\ size \in Sizes /\ overhead \in Overheads
  /\ phase \in {"open", "reading", "serving", "overrun"}
  /\ read \in 0 .. size /\ eof \in BOOLEAN
  /\ chunksNum \in 0 .. Word - 1
  /\ DOMAIN chunks \subseteq 0 .. MaxChunks - 1
  /\ interests \subseteq {Prefix} \cup 0 .. MaxChunks
  /\ \A d \in data \cup got :
       d.seg \in 0 .. MaxChunks - 1 /\ d.final \in 0 .. Word - 1
  /\ final \in {Unknown} \cup 0 .. Word - 1
  /\ lost \in 0 .. MaxLoss

\* The program writes past its table exactly when the file fills it: MaxChunks
\* whole blocks are enough, since feof is set only by the read after the last
\* one, though chunks_num is then no more than the table holds.
InsideTable ==
  /\ phase = "overrun" => size >= MaxChunks * Block
  /\ phase = "serving" => size < MaxChunks * Block

\* A file is served only when it has stayed inside the table.  Every packet
\* that leaves is the slice of the file its number says, and the FinalBlockId
\* it carries is the number of the slice that ends the file.  The empty packet
\* that the loop makes after a file of whole blocks never leaves.
ServesTheFile ==
  /\ InsideTable
  /\ \A d \in data \cup got :
       /\ d.at = d.seg * Block /\ d.len > 0
       /\ d.at + d.len <= size
       /\ d.seg <= d.final
       /\ d.seg = d.final <=> d.at + d.len = size

\* What the consumer has when it has every number up to the last is the file.
\* A whole block that did not fit its packet leaves a hole, never a short file.
FetchedIsFile ==
  final # Unknown /\ Wanted = {} =>
    \A b \in 0 .. size - 1 : \E d \in got : d.at <= b /\ b < d.at + d.len

\* The consumer gets the whole file, unless the file is empty, fills the table,
\* or tlv_make_data has failed for a chunk, which the program only prints.
FetchEnds ==
  <>(final # Unknown /\ Wanted = {}) \/ size = 0 \/ <>(phase = "overrun")
    \/ <>(\E k \in DOMAIN chunks : chunks[k] = NoPacket)
=============================================================================
