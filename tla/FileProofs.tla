----------------------------- MODULE FileProofs -----------------------------
(***************************************************************************)
(* Proofs about the two programs that serve a file in pieces.              *)
(*                                                                         *)
(* ndn-putchunks: for any block size, any size of the table and of its     *)
(* packets, and any file, those that fill the table included.              *)
(*                                                                         *)
(* The file transfer: for any files, any chunk size, any bounds on the     *)
(* losses, the duplicates, the runs and the open files, over networks that *)
(* reorder or do not, and disks that fail or do not.                       *)
(*                                                                         *)
(* Both cut a file by the same arithmetic, which comes first.              *)
(***************************************************************************)
EXTENDS PutChunks, FileTransfer, FiniteSetTheorems, SequenceTheorems,
        WellFoundedInduction, TLAPS

-----------------------------------------------------------------------------
(* Cutting into blocks. *)

\* Multiplying by a block's size keeps the order.
LEMMA Times ==
  ASSUME NEW b \in Nat, b > 0, NEW x \in Int, NEW y \in Int
  PROVE  /\ x <= y => x * b <= y * b
         /\ x * b < y * b => x < y
         /\ (x + 1) * b = x * b + b /\ (x - 1) * b = x * b - b
         /\ x * b \in Int
<1>1. ASSUME NEW p \in Int, NEW q \in Int, p <= q PROVE p * b <= q * b
  BY <1>1
<1>2. x * b < y * b => x < y
  BY <1>1
<1>3. (x + 1) * b = x * b + b /\ (x - 1) * b = x * b - b
  OBVIOUS
<1> QED
  BY <1>1, <1>2, <1>3

\* The block that byte n is in.
LEMMA BlockOf ==
  ASSUME NEW b \in Nat, b > 0, NEW n \in Nat
  PROVE  /\ n \div b \in Nat /\ (n \div b) * b \in Nat
         /\ (n \div b) * b <= n /\ n < (n \div b) * b + b
<1>1. n \div b \in Nat /\ (n \div b) * b <= n /\ n < (n \div b) * b + b
  OBVIOUS
<1>2. \A q \in Nat : q * b \in Nat
  OBVIOUS
<1> QED
  BY <1>1, <1>2

\* The quotient rounded up is the number of blocks that s bytes need.
LEMMA RoundedUp ==
  ASSUME NEW b \in Nat, b > 0, NEW s \in Nat
  PROVE  /\ (s + b - 1) \div b \in Nat
         /\ s <= ((s + b - 1) \div b) * b
         /\ ((s + b - 1) \div b) * b < s + b
<1> DEFINE n == s + b - 1
           q == (n \div b) * b
<1>1. n \in Nat
  OBVIOUS
<1>2. n \div b \in Nat /\ q \in Nat /\ q <= n /\ n < q + b
  BY <1>1, BlockOf
<1> HIDE DEF q
<1>3. s <= q /\ q < s + b
  BY <1>2
<1> QED
  BY <1>2, <1>3 DEF q

-----------------------------------------------------------------------------
(* Parts of sequences. *)

\* A part of a sequence.
LEMMA PartOf ==
  ASSUME NEW S, NEW s \in Seq(S), NEW m \in Nat, NEW n \in Nat, 1 <= m, m <= n + 1, n <= Len(s)
  PROVE  /\ SubSeq(s, m, n) \in Seq(S) /\ Len(SubSeq(s, m, n)) = n - m + 1
         /\ \A i \in 1 .. n - m + 1 : SubSeq(s, m, n)[i] = s[m + i - 1]
<1>1. Len(s) \in Nat
  BY LenProperties
<1>2. \A i \in m .. n : s[i] \in S
  BY <1>1, ElementOfSeq
<1>3. /\ SubSeq(s, m, n) \in Seq(S)
      /\ Len(SubSeq(s, m, n)) = IF m <= n THEN n - m + 1 ELSE 0
      /\ \A i \in 1 .. n - m + 1 : SubSeq(s, m, n)[i] = s[m + i - 1]
  BY <1>2, SubSeqProperties
<1>4. ~(m <= n) => n - m + 1 = 0
  OBVIOUS
<1> QED
  BY <1>3, <1>4

\* Two sequences in a row.
LEMMA InARow ==
  ASSUME NEW S, NEW a \in Seq(S), NEW b \in Seq(S)
  PROVE  /\ a \o b \in Seq(S) /\ Len(a \o b) = Len(a) + Len(b)
         /\ \A i \in 1 .. Len(a) : (a \o b)[i] = a[i]
         /\ \A i \in 1 .. Len(b) : (a \o b)[Len(a) + i] = b[i]
<1> DEFINE m == Len(a)
           n == Len(b)
<1>1. /\ a \o b \in Seq(S) /\ Len(a \o b) = m + n /\ m \in Nat /\ n \in Nat
      /\ \A i \in 1 .. m + n : (a \o b)[i] = IF i <= m THEN a[i] ELSE b[i - m]
  BY ConcatProperties, LenProperties
<1> HIDE DEF m, n
<1>2. \A i \in 1 .. m : i \in 1 .. m + n /\ i <= m
  BY <1>1
<1>3. \A i \in 1 .. n : m + i \in 1 .. m + n /\ ~(m + i <= m) /\ m + i - m = i
  BY <1>1
<1> QED
  BY <1>1, <1>2, <1>3 DEF m, n

\* A sequence over a set is one over a larger set.
LEMMA Wider ==
  ASSUME NEW S, NEW T, S \subseteq T, NEW s \in Seq(S)
  PROVE  s \in Seq(T)
<1>1. Len(s) \in Nat /\ \A i \in 1 .. Len(s) : s[i] \in T
  BY LenProperties, ElementOfSeq
<1>2. SubSeq(s, 1, Len(s)) \in Seq(T)
  BY <1>1, SubSeqProperties
<1>3. SubSeq(s, 1, Len(s)) = s
  BY SubSeqFull
<1> QED
  BY <1>2, <1>3

\* The network loses and repeats what it holds, and makes nothing up.
LEMMA RemovesOne ==
  ASSUME NEW S, NEW s \in Seq(S), NEW i \in 1 .. Len(s)
  PROVE  /\ RemoveAt(s, i) \in Seq(S)
         /\ i = 1 => /\ Len(RemoveAt(s, i)) = Len(s) - 1
                     /\ \A j \in 1 .. Len(s) - 1 : RemoveAt(s, i)[j] = s[j + 1]
<1> DEFINE p == SubSeq(s, 1, i - 1)
           q == SubSeq(s, i + 1, Len(s))
           n == Len(s)
<1>0. n \in Nat /\ i \in Nat /\ i >= 1 /\ i <= n
  BY LenProperties
<1>1. p \in Seq(S) /\ Len(p) = i - 1
  <2>1. i - 1 \in Nat /\ 1 <= i - 1 + 1 /\ i - 1 <= n /\ i - 1 - 1 + 1 = i - 1
    BY <1>0
  <2> QED
    BY <2>1, PartOf
<1>2. q \in Seq(S) /\ Len(q) = n - i /\ \A j \in 1 .. n - i : q[j] = s[i + j]
  <2>1. i + 1 \in Nat /\ 1 <= i + 1 /\ i + 1 <= n + 1 /\ n <= n /\ n - (i + 1) + 1 = n - i
        /\ \A j \in 1 .. n - i : i + 1 + j - 1 = i + j
    BY <1>0
  <2>2. /\ q \in Seq(S) /\ Len(q) = n - (i + 1) + 1
        /\ \A j \in 1 .. n - (i + 1) + 1 : q[j] = s[i + 1 + j - 1]
    BY <1>0, <2>1, PartOf
  <2> QED
    BY <2>1, <2>2
<1> DEFINE r == p \o q
<1>3. RemoveAt(s, i) = r
  BY DEF RemoveAt
<1> HIDE DEF p, q
<1>4. /\ r \in Seq(S) /\ Len(r) = Len(p) + Len(q)
      /\ \A j \in 1 .. Len(q) : r[Len(p) + j] = q[j]
  <2>1. p \in Seq(S) /\ q \in Seq(S)
    BY <1>1, <1>2
  <2> QED
    BY <2>1, InARow
<1> HIDE DEF r
<1>5. ASSUME i = 1
      PROVE  Len(r) = n - 1 /\ \A j \in 1 .. n - 1 : r[j] = s[j + 1]
  BY <1>0, <1>1, <1>2, <1>4, <1>5
<1> QED
  BY <1>3, <1>4, <1>5

\* A repeated element is one of the sequence.
LEMMA InsertsOne ==
  ASSUME NEW S, NEW s \in Seq(S), NEW i \in 1 .. Len(s)
  PROVE  InsertAt(s, i, s[i]) \in Seq(S)
<1>0. Len(s) \in Nat /\ i \in Nat /\ i >= 1 /\ i <= Len(s)
  BY LenProperties
<1>1. SubSeq(s, 1, i - 1) \in Seq(S)
  <2>1. i - 1 \in Nat /\ 1 <= i - 1 + 1 /\ i - 1 <= Len(s)
    BY <1>0
  <2> QED
    BY <2>1, PartOf
<1>2. SubSeq(s, i, Len(s)) \in Seq(S)
  <2>1. 1 <= i /\ i <= Len(s) + 1 /\ Len(s) <= Len(s)
    BY <1>0
  <2> QED
    BY <1>0, <2>1, PartOf
<1>3. <<s[i]>> \in Seq(S)
  <2>1. s[i] \in S
    BY ElementOfSeq
  <2> QED
    BY <2>1
<1>4. SubSeq(s, 1, i - 1) \o <<s[i]>> \in Seq(S)
  BY <1>1, <1>3, InARow
<1>5. (SubSeq(s, 1, i - 1) \o <<s[i]>>) \o SubSeq(s, i, Len(s)) \in Seq(S)
  BY <1>2, <1>4, InARow
<1> QED
  BY <1>5, Zenon DEF InsertAt

-----------------------------------------------------------------------------
(* ndn-putchunks: what the packets should be, and the inductive invariant. *)

\* The file leaves the table a packet to spare.
Fits == size < MaxChunks * Block

\* What the packet of number k should be.
Slice(k) ==
  [seg |-> k, at |-> k * Block,
   len |-> IF size - k * Block < Block THEN size - k * Block ELSE Block,
   final |-> NumberOf(size) - 1]

\* How far the loop is.  It stops one turn late on a file of whole blocks: at
\* the end it has gone past the file, by at most one block.  It leaves the table
\* with the file not at its end.
Progress ==
  /\ made \in Nat /\ made <= MaxChunks /\ DOMAIN chunks = 0 .. made - 1
  /\ phase = "open" => read = 0 /\ ~eof /\ made = 0
  /\ phase # "open" => chunksNum = NumberOf(size) % Word
  /\ phase = "serving" => eof
  /\ phase = "overrun" => ~eof /\ made = MaxChunks
  /\ ~eof => read = made * Block
  /\ eof => (made - 1) * Block <= size /\ size < made * Block

\* A packet below chunks_num is its slice of the file, or could not be made.
TableHolds ==
  Fits => \A k \in 0 .. made - 1 : k < NumberOf(size) => chunks[k] \in {Slice(k), NoPacket}

\* Only slices leave, and what the consumer knows it has from one of them.
\* Nothing leaves when the file does not fit.
Travelling ==
  /\ data \cup got \subseteq {Slice(k) : k \in 0 .. NumberOf(size) - 1}
  /\ final \in {Unknown, NumberOf(size) - 1}
  /\ ~Fits => interests = {} /\ data \cup got = {} /\ final = Unknown

\* The inductive invariant.
IInv == TypeOK /\ Progress /\ TableHolds /\ Travelling

-----------------------------------------------------------------------------
(* Rounding up to whole blocks. *)

\* Multiplying by the block size keeps the order.
LEMMA Monotone ==
  ASSUME NEW a \in Int, NEW b \in Int
  PROVE  /\ a <= b => a * Block <= b * Block
         /\ a * Block < b * Block => a < b
         /\ (a + 1) * Block = a * Block + Block
         /\ (a - 1) * Block = a * Block - Block
         /\ a * Block \in Int
<1>1. Block \in Nat /\ Block > 0
  BY ChunksAssumption
<1> QED
  BY <1>1, Times

\* NumberOf(s) blocks hold s bytes, and one less does not.
LEMMA RoundsUp ==
  ASSUME NEW s \in Nat
  PROVE  /\ NumberOf(s) \in Nat
         /\ s <= NumberOf(s) * Block
         /\ NumberOf(s) * Block < s + Block
<1>1. Block \in Nat /\ Block > 0
  BY ChunksAssumption
<1> QED
  BY <1>1, RoundedUp DEF NumberOf

\* A file that fits makes no more packets than the table holds, and neither
\* chunks_num nor the FinalBlockId wraps, but when there is no packet to carry it.
LEMMA FileFits ==
  ASSUME size \in Sizes, Fits
  PROVE  /\ size \in Nat /\ NumberOf(size) \in 0 .. MaxChunks
         /\ NumberOf(size) % Word = NumberOf(size)
         /\ NumberOf(size) > 0 => (NumberOf(size) - 1) % Word = NumberOf(size) - 1
<1>1. size \in Nat /\ size < MaxChunks * Block
  BY ChunksAssumption DEF Fits
<1>2. NumberOf(size) \in Nat /\ NumberOf(size) * Block < size + Block
  BY <1>1, RoundsUp
<1>3. Block \in Nat /\ Block > 0 /\ MaxChunks \in Nat /\ Word \in Nat /\ MaxChunks < Word
  BY ChunksAssumption
<1>4. (NumberOf(size) - 1) * Block < MaxChunks * Block
  BY <1>1, <1>2, <1>3, Monotone
<1>5. NumberOf(size) - 1 < MaxChunks
  BY <1>2, <1>3, <1>4, Monotone
<1>6. ASSUME NEW n \in Nat, n < Word PROVE n % Word = n
  BY <1>3, <1>6
<1> QED
  BY <1>1, <1>2, <1>3, <1>5, <1>6

\* A slice starts at its number times the block size, holds a byte and ends
\* in the file; it ends the file when it is the last one and only then.
LEMMA SliceInFile ==
  ASSUME size \in Sizes, Fits, NEW k \in 0 .. NumberOf(size) - 1
  PROVE  LET d == Slice(k)
         IN  /\ d.seg = k /\ d.seg \in 0 .. MaxChunks - 1
             /\ d.final = NumberOf(size) - 1 /\ d.final \in 0 .. Word - 1
             /\ d.at = d.seg * Block /\ d.len \in Nat /\ d.len > 0
             /\ d.at + d.len <= size
             /\ d.seg <= d.final
             /\ d.seg = d.final <=> d.at + d.len = size
<1> DEFINE N == NumberOf(size)
           n == IF size - k * Block < Block THEN size - k * Block ELSE Block
<1>1. size \in Nat /\ N \in 0 .. MaxChunks /\ k \in Int
  BY FileFits
<1>2. Block \in Nat /\ Block > 0 /\ MaxChunks \in Nat /\ Word \in Nat /\ MaxChunks < Word
  BY ChunksAssumption
<1>3. size <= N * Block /\ N * Block < size + Block
  BY <1>1, RoundsUp
<1>4. N - 1 \in Int /\ k + 1 \in Int /\ k <= N - 1
  BY <1>1
<1>5. (N - 1) * Block = N * Block - Block /\ (k + 1) * Block = k * Block + Block
  BY <1>1, Monotone
<1>6. k * Block <= (N - 1) * Block /\ k * Block \in Int /\ N * Block \in Int
  BY <1>1, <1>4, Monotone
<1>7. k * Block < size
  BY <1>1, <1>2, <1>3, <1>5, <1>6
<1>8. k # N - 1 => k * Block + Block < size
  <2>1. SUFFICES ASSUME k # N - 1 PROVE k * Block + Block < size
    OBVIOUS
  <2>2. (k + 1) * Block <= (N - 1) * Block
    BY <1>1, <1>4, <2>1, Monotone
  <2> QED
    BY <1>1, <1>2, <1>3, <1>5, <1>6, <2>2
<1>9. k = N - 1 => k * Block + Block >= size
  BY <1>1, <1>2, <1>3, <1>5, <1>6
<1>10. n \in Nat /\ n > 0 /\ k * Block + n <= size /\ (k = N - 1 <=> k * Block + n = size)
  <2> HIDE DEF N
  <2> QED
    BY <1>1, <1>2, <1>6, <1>7, <1>8, <1>9
<1> HIDE DEF n
<1>11. Slice(k) = [seg |-> k, at |-> k * Block, len |-> n, final |-> N - 1]
  BY DEF Slice, n
<1>12. Slice(k).seg = k /\ Slice(k).at = k * Block /\ Slice(k).len = n /\ Slice(k).final = N - 1
  BY <1>11
<1>13. k \in 0 .. MaxChunks - 1 /\ N - 1 \in 0 .. Word - 1
  BY <1>1, <1>2, <1>4
<1> QED
  BY <1>4, <1>10, <1>12, <1>13

\* Once the loop is over the file has fitted, and there is a packet for every
\* number below chunks_num.
LEMMA TableIsLong ==
  ASSUME IInv, phase = "serving"
  PROVE  Fits /\ chunksNum = NumberOf(size) /\ chunksNum <= made /\ chunksNum \in 0 .. MaxChunks
<1>1. /\ size \in Sizes /\ made \in Nat /\ made <= MaxChunks /\ size < made * Block
      /\ chunksNum = NumberOf(size) % Word
  BY DEF IInv, TypeOK, Progress
<1>2. size \in Nat /\ Block \in Nat /\ MaxChunks \in Nat
  BY <1>1, ChunksAssumption
<1>3. Fits
  <2>1. made * Block <= MaxChunks * Block /\ made * Block \in Int /\ MaxChunks * Block \in Int
    BY <1>1, <1>2, Monotone
  <2> QED
    BY <1>1, <1>2, <2>1 DEF Fits
<1>4. NumberOf(size) \in 0 .. MaxChunks /\ chunksNum = NumberOf(size)
  BY <1>1, <1>3, FileFits
<1>5. NumberOf(size) * Block < size + Block
  BY <1>2, RoundsUp
<1>6. (NumberOf(size) - 1) * Block < made * Block
  BY <1>1, <1>2, <1>4, <1>5, Monotone
<1> QED
  BY <1>1, <1>2, <1>3, <1>4, <1>6, Monotone

\* on_interest answers with a slice, or with a packet that could not be made.
LEMMA AnswerIsSlice ==
  ASSUME IInv, phase = "serving", NEW n \in {Prefix} \cup Nat
  PROVE  Answer(n) \ {NoPacket} \subseteq {Slice(k) : k \in 0 .. NumberOf(size) - 1}
<1> DEFINE segno == IF n = Prefix THEN 0 ELSE n
<1>1. Fits /\ chunksNum = NumberOf(size) /\ chunksNum <= made /\ chunksNum \in 0 .. MaxChunks
      /\ MaxChunks \in Nat
  BY TableIsLong, ChunksAssumption
<1>2. segno \in Nat
  BY DEF Prefix
<1>3. Answer(n) = IF segno < chunksNum THEN {chunks[segno]} ELSE {}
  BY DEF Answer
<1>4. made \in Nat
  BY DEF IInv, Progress
<1> HIDE DEF segno
<1>5. CASE segno < chunksNum
  <2>1. segno \in 0 .. made - 1 /\ segno \in 0 .. NumberOf(size) - 1
    BY <1>1, <1>2, <1>4, <1>5
  <2>2. chunks[segno] \in {Slice(segno), NoPacket}
    BY <1>1, <1>5, <2>1 DEF IInv, TableHolds
  <2> QED
    BY <1>3, <1>5, <2>1, <2>2
<1>6. CASE ~(segno < chunksNum)
  BY <1>3, <1>6
<1> QED
  BY <1>5, <1>6

-----------------------------------------------------------------------------
(* The steps of ndn-putchunks. *)

\* The loop has not begun: the table is empty and nothing travels.
LEMMA InitIInv == Init => IInv
<1> SUFFICES ASSUME Init PROVE IInv
  OBVIOUS
<1>1. DOMAIN chunks = {}
  BY DEF Init
<1>2. made = 0
  BY <1>1, FS_EmptySet DEF made
<1>3. size \in Nat /\ MaxChunks \in Nat /\ MaxLoss \in Nat /\ Word \in Nat /\ MaxChunks < Word
  BY ChunksAssumption DEF Init
<1>4. TypeOK
  <2>1. eof \in BOOLEAN
    BY DEF Init
  <2>2. /\ read \in 0 .. size /\ chunksNum \in 0 .. Word - 1 /\ lost \in 0 .. MaxLoss
        /\ DOMAIN chunks \subseteq 0 .. MaxChunks - 1
    BY <1>1, <1>3 DEF Init
  <2>3. data \cup got = {} /\ interests = {} /\ final = Unknown
    BY DEF Init
  <2> QED
    BY <2>1, <2>2, <2>3, Zenon DEF Init, TypeOK
<1>5. Progress
  <2>1. made * Block = 0
    BY <1>2, ChunksAssumption
  <2> QED
    BY <1>1, <1>2, <1>3, <2>1 DEF Init, Progress
<1>6. TableHolds
  BY <1>2 DEF TableHolds
<1>7. Travelling
  BY DEF Init, Travelling
<1> QED
  BY <1>4, <1>5, <1>6, <1>7 DEF IInv

\* A step that leaves the file alone leaves its slices alone.
LEMMA FileStays ==
  ASSUME UNCHANGED fixed
  PROVE  /\ size' = size /\ overhead' = overhead
         /\ NumberOf(size') = NumberOf(size)
         /\ \A k : Slice(k)' = Slice(k)
         /\ Fits' = Fits
BY DEF fixed, Slice, NumberOf, Fits

\* A step that leaves the program alone and brings nothing but slices.
LEMMA NetworkStep ==
  ASSUME IInv, Fits, UNCHANGED producer,
         interests' \subseteq interests \cup {Prefix} \cup 0 .. NumberOf(size),
         data' \cup got' \subseteq
           data \cup got \cup {Slice(k) : k \in 0 .. NumberOf(size) - 1},
         final' \in {final, NumberOf(size) - 1},
         final' # final => NumberOf(size) > 0,
         lost' \in 0 .. MaxLoss
  PROVE  IInv'
<1>1. UNCHANGED <<fixed, phase, read, eof, chunksNum, chunks>>
  BY DEF producer
<1>2. UNCHANGED fixed /\ made' = made
  BY <1>1 DEF made
<1>3. /\ size' = size /\ NumberOf(size') = NumberOf(size)
      /\ (\A k : Slice(k)' = Slice(k)) /\ Fits' = Fits
  BY <1>2, FileStays
<1>4. size \in Sizes
  BY DEF IInv, TypeOK
<1>5. NumberOf(size) \in 0 .. MaxChunks /\ MaxChunks \in Nat /\ Word \in Nat /\ MaxChunks < Word
  BY <1>4, FileFits, ChunksAssumption
<1>6. Progress'
  BY <1>1, <1>2, <1>3 DEF IInv, Progress
<1>7. TableHolds'
  BY <1>1, <1>2, <1>3 DEF IInv, TableHolds
<1>8. data' \cup got' \subseteq {Slice(k) : k \in 0 .. NumberOf(size) - 1}
  BY DEF IInv, Travelling
<1>9. Travelling'
  BY <1>3, <1>8 DEF IInv, Travelling
<1>10. \A d \in data' \cup got' : d.seg \in 0 .. MaxChunks - 1 /\ d.final \in 0 .. Word - 1
  BY <1>4, <1>8, SliceInFile
<1>11. final' \in {Unknown} \cup 0 .. Word - 1
  BY <1>5 DEF IInv, TypeOK
<1>12. interests' \subseteq {Prefix} \cup 0 .. MaxChunks
  BY <1>5 DEF IInv, TypeOK
<1>13. TypeOK'
  BY <1>1, <1>2, <1>10, <1>11, <1>12 DEF IInv, TypeOK, fixed
<1> QED
  BY <1>6, <1>7, <1>9, <1>13 DEF IInv

\* Opening the file sets chunks_num; the table is still empty.
LEMMA OpenStep == IInv /\ OpenFile => IInv'
<1> SUFFICES ASSUME IInv, OpenFile PROVE IInv'
  OBVIOUS
<1>1. /\ UNCHANGED <<fixed, read, eof, chunks, interests, data, final, got, lost>>
      /\ phase = "open" /\ phase' = "reading" /\ chunksNum' = NumberOf(size) % Word
  BY DEF OpenFile
<1>2. UNCHANGED fixed /\ made' = made
  BY <1>1 DEF made
<1>3. /\ size' = size /\ NumberOf(size') = NumberOf(size)
      /\ (\A k : Slice(k)' = Slice(k)) /\ Fits' = Fits
  BY <1>2, FileStays
<1>4. chunksNum' \in 0 .. Word - 1
  <2>1. \A x, w \in Nat : w > 0 => x % w \in 0 .. w - 1
    OBVIOUS
  <2>2. NumberOf(size) \in Nat /\ Word \in Nat /\ Word > 0
    BY RoundsUp, ChunksAssumption DEF IInv, TypeOK
  <2> QED
    BY <1>1, <2>1, <2>2
<1>5. TypeOK'
  BY <1>1, <1>2, <1>4 DEF IInv, TypeOK, fixed
<1>6. Progress'
  <2>1. /\ made = 0 /\ made \in Nat /\ made <= MaxChunks /\ DOMAIN chunks = 0 .. made - 1
        /\ ~eof /\ read = made * Block
    BY <1>1 DEF IInv, Progress
  <2>2. phase' = "reading" /\ ~eof' /\ read' = read
    BY <1>1, <2>1
  <2> QED
    BY <1>1, <1>2, <1>3, <2>1, <2>2 DEF Progress
<1>7. TableHolds'
  <2>1. made = 0
    BY <1>1 DEF IInv, Progress
  <2> QED
    BY <1>2, <2>1 DEF TableHolds
<1>8. Travelling'
  BY <1>1, <1>3 DEF IInv, Travelling
<1> QED
  BY <1>5, <1>6, <1>7, <1>8 DEF IInv

\* A turn of the loop adds the packet of the next slice, or an empty one
\* when the slice does not fit, and stops after a short read.
LEMMA MakeStep == IInv /\ MakeChunk => IInv'
<1> SUFFICES ASSUME IInv, MakeChunk PROVE IInv'
  OBVIOUS
<1> DEFINE n == IF size - read < Block THEN size - read ELSE Block
           new == IF n + overhead <= ChunkSize THEN Packet(n) ELSE NoPacket
<1>1. /\ UNCHANGED <<fixed, phase, chunksNum, interests, data, final, got, lost>>
      /\ phase = "reading" /\ ~eof /\ made < MaxChunks
      /\ chunks' = [k \in 0 .. made |-> IF k < made THEN chunks[k] ELSE new]
      /\ read' = read + n /\ eof' = (n < Block)
  BY DEF MakeChunk
<1>2. UNCHANGED fixed
  BY <1>1
<1>3. /\ size' = size /\ NumberOf(size') = NumberOf(size)
      /\ (\A k : Slice(k)' = Slice(k)) /\ Fits' = Fits
  BY <1>2, FileStays
<1>4. /\ size \in Sizes /\ size \in Nat /\ made \in Nat /\ DOMAIN chunks = 0 .. made - 1
      /\ chunksNum = NumberOf(size) % Word
  BY <1>1, ChunksAssumption DEF IInv, TypeOK, Progress
<1>5. /\ Block \in Nat /\ Block > 0 /\ MaxChunks \in Nat
      /\ read = made * Block /\ read \in Nat /\ read <= size
  BY <1>1, <1>4, ChunksAssumption DEF IInv, TypeOK, Progress
<1>6. made' = made + 1
  <2>1. DOMAIN chunks' = 0 .. made
    BY <1>1
  <2>2. Cardinality(0 .. made) = made + 1
    BY <1>4, FS_Interval
  <2> QED
    BY <2>1, <2>2 DEF made
<1>7. n \in Nat /\ n <= Block /\ read + n <= size /\ (n < Block => read + n = size)
  BY <1>4, <1>5
<1>8. (made + 1) * Block = read + Block /\ (made + 1 - 1) * Block = read
  BY <1>4, <1>5, Monotone
<1> HIDE DEF n, new
<1>9. eof' \in BOOLEAN /\ (eof' <=> n < Block)
  <2>1. CASE n < Block
    BY <1>1, <2>1, Zenon
  <2>2. CASE ~(n < Block)
    <3>1. (n < Block) = FALSE
      BY <2>2
    <3> QED
      BY <1>1, <3>1, Zenon
  <2> QED
    BY <2>1, <2>2
<1>10. TypeOK'
  <2>1. eof' \in BOOLEAN
    BY <1>9
  <2>2. read' \in 0 .. size /\ DOMAIN chunks' \subseteq 0 .. MaxChunks - 1
    BY <1>1, <1>4, <1>5, <1>7
  <2> QED
    BY <1>1, <1>3, <2>1, <2>2 DEF IInv, TypeOK, fixed
<1>11. Progress'
  <2>1. DOMAIN chunks' = 0 .. made' - 1 /\ made' \in Nat /\ made' <= MaxChunks
    BY <1>1, <1>4, <1>5, <1>6
  <2>2. ~eof' => read' = made' * Block
    BY <1>1, <1>5, <1>6, <1>7, <1>8, <1>9
  <2>3. eof' => (made' - 1) * Block <= size /\ size < made' * Block
    BY <1>1, <1>5, <1>6, <1>7, <1>8, <1>9
  <2>4. phase' = "reading" /\ chunksNum' = NumberOf(size') % Word
    BY <1>1, <1>3, <1>4
  <2> QED
    BY <1>3, <2>1, <2>2, <2>3, <2>4 DEF Progress
<1>12. TableHolds'
  <2> SUFFICES ASSUME Fits, NEW k \in 0 .. made, k < NumberOf(size)
               PROVE  chunks'[k] \in {Slice(k), NoPacket}
    BY <1>1, <1>3, <1>4, <1>6 DEF TableHolds
  <2>1. CASE k < made
    <3>1. k \in 0 .. made - 1
      BY <1>4, <2>1
    <3> QED
      BY <1>1, <2>1, <3>1 DEF IInv, TableHolds
  <2>2. CASE k = made
    <3>1. chunks'[k] = new
      BY <1>1, <1>4, <2>2
    <3>2. (chunksNum - 1) % Word = NumberOf(size) - 1
      <4>1. NumberOf(size) > 0 /\ chunksNum = NumberOf(size)
        BY <1>4, <2>2, FileFits
      <4> QED
        BY <1>4, <4>1, FileFits
    <3>3. Packet(n) = Slice(k)
      BY <1>5, <2>2, <3>2 DEF Packet, Slice, n
    <3> QED
      BY <3>1, <3>3 DEF new
  <2> QED
    BY <1>4, <2>1, <2>2
<1>13. Travelling'
  BY <1>1, <1>3 DEF IInv, Travelling
<1> QED
  BY <1>10, <1>11, <1>12, <1>13 DEF IInv

\* The program serves when the loop has met the end of the file.
LEMMA ServeStep == IInv /\ Serve => IInv'
<1> SUFFICES ASSUME IInv, Serve PROVE IInv'
  OBVIOUS
<1>1. /\ UNCHANGED <<fixed, read, eof, chunksNum, chunks, interests, data, final, got, lost>>
      /\ phase = "reading" /\ eof /\ phase' = "serving"
  BY DEF Serve
<1>2. UNCHANGED fixed /\ made' = made
  BY <1>1 DEF made
<1>3. /\ size' = size /\ NumberOf(size') = NumberOf(size)
      /\ (\A k : Slice(k)' = Slice(k)) /\ Fits' = Fits
  BY <1>2, FileStays
<1>4. TypeOK'
  BY <1>1, <1>2 DEF IInv, TypeOK, fixed
<1>5. Progress'
  BY <1>1, <1>2, <1>3 DEF IInv, Progress
<1>6. TableHolds'
  BY <1>1, <1>2, <1>3 DEF IInv, TableHolds
<1>7. Travelling'
  BY <1>1, <1>3 DEF IInv, Travelling
<1> QED
  BY <1>4, <1>5, <1>6, <1>7 DEF IInv

\* The program leaves the table when the file has filled it.
LEMMA OverrunStep == IInv /\ Overrun => IInv'
<1> SUFFICES ASSUME IInv, Overrun PROVE IInv'
  OBVIOUS
<1>1. /\ UNCHANGED <<fixed, read, eof, chunksNum, chunks, interests, data, final, got, lost>>
      /\ phase = "reading" /\ ~eof /\ made = MaxChunks /\ phase' = "overrun"
  BY DEF Overrun
<1>2. UNCHANGED fixed /\ made' = made
  BY <1>1 DEF made
<1>3. /\ size' = size /\ NumberOf(size') = NumberOf(size)
      /\ (\A k : Slice(k)' = Slice(k)) /\ Fits' = Fits
  BY <1>2, FileStays
<1>4. TypeOK'
  BY <1>1, <1>2 DEF IInv, TypeOK, fixed
<1>5. Progress'
  BY <1>1, <1>2, <1>3 DEF IInv, Progress
<1>6. TableHolds'
  BY <1>1, <1>2, <1>3 DEF IInv, TableHolds
<1>7. Travelling'
  BY <1>1, <1>3 DEF IInv, Travelling
<1> QED
  BY <1>4, <1>5, <1>6, <1>7 DEF IInv

\* The consumer asks for the prefix or for a number of the file.
LEMMA WantedInFile ==
  ASSUME IInv
  PROVE  Wanted \subseteq {Prefix} \cup 0 .. NumberOf(size)
<1>1. NumberOf(size) \in Nat
  BY RoundsUp, ChunksAssumption DEF IInv, TypeOK
<1>2. final \in {Unknown, NumberOf(size) - 1}
  BY DEF IInv, Travelling
<1> QED
  BY <1>1, <1>2 DEF Wanted, Unknown

\* The steps of the network and of the consumer, and on_interest: what travels
\* is a slice of a file that fits.
LEMMA TravelStep ==
  ASSUME IInv,
         \/ OnInterest \/ OnRefusedInterest \/ Ask \/ AskPast \/ Lose
         \/ \E k \in 0 .. MaxChunks - 1 : Receive(k)
  PROVE  IInv'
<1>1. /\ lost \in 0 .. MaxLoss /\ MaxLoss \in Nat /\ NumberOf(size) \in Nat
      /\ interests \subseteq {Prefix} \cup 0 .. MaxChunks /\ MaxChunks \in Nat
  BY RoundsUp, ChunksAssumption DEF IInv, TypeOK
<1>2. phase = "serving" => Fits /\ chunksNum = NumberOf(size)
  BY TableIsLong
<1>3. interests # {} \/ data # {} => Fits
  BY DEF IInv, Travelling
<1>4. CASE OnInterest
  <2>1. PICK n \in interests : /\ interests' = interests \ {n}
                               /\ data' = data \cup (Answer(n) \ {NoPacket})
    BY <1>4 DEF OnInterest
  <2>2. UNCHANGED <<producer, final, got, lost>> /\ phase = "serving"
    BY <1>4 DEF OnInterest
  <2>3. n \in {Prefix} \cup Nat
    BY <1>1
  <2>4. Answer(n) \ {NoPacket} \subseteq {Slice(k) : k \in 0 .. NumberOf(size) - 1}
    BY <2>2, <2>3, AnswerIsSlice
  <2> QED
    BY <1>1, <1>2, <2>1, <2>2, <2>4, NetworkStep
<1>5. CASE OnRefusedInterest
  <2>1. UNCHANGED <<producer, interests, final, got, lost>> /\ phase = "serving"
    BY <1>5 DEF OnRefusedInterest
  <2>2. PICK n \in 0 .. chunksNum : data' = data \cup (Answer(n) \ {NoPacket})
    BY <1>5 DEF OnRefusedInterest
  <2>3. n \in {Prefix} \cup Nat
    BY <1>1, <1>2, <2>1
  <2>4. Answer(n) \ {NoPacket} \subseteq {Slice(k) : k \in 0 .. NumberOf(size) - 1}
    BY <2>1, <2>3, AnswerIsSlice
  <2> QED
    BY <1>1, <1>2, <2>1, <2>2, <2>4, NetworkStep
<1>6. CASE Ask
  <2>1. PICK n \in Wanted : interests' = interests \cup {n}
    BY <1>6 DEF Ask
  <2>2. UNCHANGED <<producer, data, final, got, lost>> /\ phase = "serving"
    BY <1>6 DEF Ask
  <2> QED
    BY <1>1, <1>2, <2>1, <2>2, WantedInFile, NetworkStep
<1>7. CASE AskPast
  <2>1. /\ interests' = {chunksNum} /\ phase = "serving"
        /\ UNCHANGED <<producer, data, final, got, lost>>
    BY <1>7 DEF AskPast
  <2> QED
    BY <1>1, <1>2, <2>1, NetworkStep
<1>8. CASE \E k \in 0 .. MaxChunks - 1 : Receive(k)
  <2>1. PICK d \in data : data' = data \ {d} /\ final' = d.final /\ got' = got \cup {d}
    BY <1>8 DEF Receive
  <2>2. UNCHANGED <<producer, interests, lost>>
    BY <1>8 DEF Receive
  <2>3. PICK k \in 0 .. NumberOf(size) - 1 : d = Slice(k)
    BY DEF IInv, Travelling
  <2>4. final' = NumberOf(size) - 1 /\ NumberOf(size) > 0
    BY <1>1, <2>1, <2>3 DEF Slice
  <2> QED
    BY <1>1, <1>3, <2>1, <2>2, <2>4, NetworkStep
<1>9. CASE Lose
  <2>1. /\ interests' \subseteq interests /\ data' \subseteq data
        /\ UNCHANGED <<producer, final, got>> /\ lost' = lost + 1 /\ lost < MaxLoss
        /\ interests # {} \/ data # {}
    BY <1>9 DEF Lose
  <2> QED
    BY <1>1, <1>3, <2>1, NetworkStep
<1> QED
  BY <1>4, <1>5, <1>6, <1>7, <1>8, <1>9

\* Every step keeps the invariant, and so does a stuttering step.
LEMMA NextIInv == IInv /\ [Next]_vars => IInv'
<1> SUFFICES ASSUME IInv, [Next]_vars PROVE IInv'
  OBVIOUS
<1>1. CASE OpenFile
  BY <1>1, OpenStep
<1>2. CASE MakeChunk
  BY <1>2, MakeStep
<1>3. CASE Overrun
  BY <1>3, OverrunStep
<1>4. CASE Serve
  BY <1>4, ServeStep
<1>5. CASE \/ OnInterest \/ OnRefusedInterest \/ Ask \/ AskPast \/ Lose
           \/ \E k \in 0 .. MaxChunks - 1 : Receive(k)
  BY <1>5, TravelStep
<1>6. CASE UNCHANGED vars
  <2>1. /\ UNCHANGED <<fixed, phase, read, eof, chunksNum, chunks>>
        /\ UNCHANGED <<interests, data, final, got, lost>>
    BY <1>6 DEF vars, producer
  <2>2. UNCHANGED fixed /\ made' = made
    BY <2>1 DEF made
  <2>3. /\ size' = size /\ NumberOf(size') = NumberOf(size)
        /\ (\A k : Slice(k)' = Slice(k)) /\ Fits' = Fits
    BY <2>2, FileStays
  <2>4. TypeOK'
    BY <2>1, <2>2 DEF IInv, TypeOK, fixed
  <2>5. Progress' /\ TableHolds'
    BY <2>1, <2>2, <2>3 DEF IInv, Progress, TableHolds
  <2>6. Travelling'
    BY <2>1, <2>3 DEF IInv, Travelling
  <2> QED
    BY <2>4, <2>5, <2>6 DEF IInv
<1> QED
  BY <1>1, <1>2, <1>3, <1>4, <1>5, <1>6 DEF Next, Prepare

-----------------------------------------------------------------------------
(* The theorems about ndn-putchunks. *)

\* Every reachable state satisfies the invariant.
THEOREM InvariantHolds == Spec => []IInv
BY InitIInv, NextIInv, PTL DEF Spec

\* The positions, numbers and packets stay in their ranges, for the files that
\* do not fit the table too.  That the loop leaves the table is another state
\* than these, and the next theorem says when.
THEOREM TypeCorrect == Spec => []TypeOK
<1>1. IInv => TypeOK
  BY DEF IInv
<1> QED
  BY <1>1, InvariantHolds, PTL

\* The loop writes past the table only when the file has MaxChunks whole blocks
\* or more, and the program comes to serve only when it has fewer: as many as
\* the table holds are too many.
THEOREM TableIsLeft == Spec => []InsideTable
<1>1. IInv => InsideTable
  <2> SUFFICES ASSUME IInv PROVE InsideTable
    OBVIOUS
  <2>1. phase = "serving" => size < MaxChunks * Block
    BY TableIsLong DEF Fits
  <2>2. phase = "overrun" => size >= MaxChunks * Block
    <3>1. SUFFICES ASSUME phase = "overrun" PROVE size >= MaxChunks * Block
      OBVIOUS
    <3>2. read = MaxChunks * Block /\ read \in 0 .. size /\ size \in Nat
      BY <3>1, ChunksAssumption DEF IInv, TypeOK, Progress
    <3> QED
      BY <3>2
  <2> QED
    BY <2>1, <2>2 DEF InsideTable
<1> QED
  BY <1>1, InvariantHolds, PTL

\* Every packet that leaves is the slice of the file its number says, and
\* names the number of the slice that ends the file; none leaves of a file
\* that fills the table.
THEOREM FileIsServed == Spec => []ServesTheFile
<1>1. IInv => \A d \in data \cup got :
                /\ d.at = d.seg * Block /\ d.len > 0
                /\ d.at + d.len <= size
                /\ d.seg <= d.final
                /\ d.seg = d.final <=> d.at + d.len = size
  <2> SUFFICES ASSUME IInv, NEW d \in data \cup got
               PROVE  /\ d.at = d.seg * Block /\ d.len > 0
                      /\ d.at + d.len <= size
                      /\ d.seg <= d.final
                      /\ d.seg = d.final <=> d.at + d.len = size
    OBVIOUS
  <2>1. size \in Sizes /\ Fits /\ \E k \in 0 .. NumberOf(size) - 1 : d = Slice(k)
    BY DEF IInv, TypeOK, Travelling
  <2> QED
    BY <2>1, SliceInFile
<1>2. IInv /\ InsideTable => ServesTheFile
  BY <1>1 DEF ServesTheFile
<1> QED
  BY <1>2, InvariantHolds, TableIsLeft, PTL

\* A consumer that has every number up to the last has every byte.
THEOREM FileIsFetched == Spec => []FetchedIsFile
<1>1. IInv => FetchedIsFile
  <2> SUFFICES ASSUME IInv, final # Unknown, Wanted = {}, NEW b \in 0 .. size - 1
               PROVE  \E d \in got : d.at <= b /\ b < d.at + d.len
    BY DEF FetchedIsFile
  <2> DEFINE k == b \div Block
  <2>1. /\ size \in Nat /\ NumberOf(size) \in Nat /\ final = NumberOf(size) - 1
        /\ got \subseteq {Slice(j) : j \in 0 .. NumberOf(size) - 1}
    BY RoundsUp, ChunksAssumption DEF IInv, TypeOK, Travelling
  <2>2. Block \in Nat /\ Block > 0 /\ b \in Nat /\ b < size
    BY <2>1, ChunksAssumption
  <2>3. k \in Nat /\ k * Block <= b /\ b < k * Block + Block /\ k * Block \in Int
    BY <2>2
  <2> HIDE DEF k
  <2>4. k * Block < NumberOf(size) * Block
    <3>1. size <= NumberOf(size) * Block /\ NumberOf(size) * Block \in Int
      BY <2>1, RoundsUp, Monotone
    <3> QED
      BY <2>1, <2>2, <2>3, <3>1
  <2>5. k \in 0 .. final
    BY <2>1, <2>3, <2>4, Monotone
  <2>6. PICK d \in got : d.seg = k
    BY <2>5 DEF Wanted
  <2>7. PICK j \in 0 .. NumberOf(size) - 1 : d = Slice(j)
    BY <2>1
  <2>8. d = Slice(k)
    BY <2>6, <2>7 DEF Slice
  <2>9. /\ d.at = k * Block
        /\ d.len = IF size - k * Block < Block THEN size - k * Block ELSE Block
    BY <2>8 DEF Slice
  <2> QED
    BY <2>1, <2>2, <2>3, <2>9
<1> QED
  BY <1>1, InvariantHolds, PTL

-----------------------------------------------------------------------------
(* The file transfer: the chunks of the file. *)

\* A Data of the server.
Segment == [seg : Nat, final : Nat, data : Seq(0 .. 255)]

\* How much of the file the first k chunks hold.
End(k) == IF k = NChunks THEN Len(file) ELSE k * CHUNK_SIZE

\* The first k chunks end where the next begins, all of them with the file;
\* each has a byte at least and CHUNK_SIZE at most, and all but the last are full.
LEMMA ChunkPlaces ==
  ASSUME file \in Files
  PROVE  /\ file \in Seq(0 .. 255) /\ Len(file) \in Nat
         /\ CHUNK_SIZE \in Nat /\ CHUNK_SIZE > 0
         /\ NChunks \in Nat /\ Len(file) <= NChunks * CHUNK_SIZE
         /\ End(0) = 0 /\ End(NChunks) = Len(file)
         /\ \A k \in 0 .. NChunks - 1 :
              /\ End(k) = k * CHUNK_SIZE /\ End(k) \in Nat /\ End(k + 1) \in Nat
              /\ End(k) < End(k + 1) /\ End(k + 1) <= k * CHUNK_SIZE + CHUNK_SIZE
              /\ End(k + 1) <= Len(file)
              /\ k + 1 # NChunks => End(k + 1) = k * CHUNK_SIZE + CHUNK_SIZE
<1> DEFINE L == Len(file)
           N == NChunks
           c == CHUNK_SIZE
<1>1. file \in Seq(0 .. 255) /\ L \in Nat /\ c \in Nat /\ c > 0
  <2>1. file \in Seq(0 .. 255) /\ c \in Nat /\ c > 0
    BY TransferAssumption
  <2> QED
    BY <2>1, LenProperties
<1>2. N \in Nat /\ L <= N * c /\ N * c < L + c
  BY <1>1, RoundedUp DEF NChunks
<1>3. \A k : End(k) = IF k = N THEN L ELSE k * c
  BY DEF End
<1> HIDE DEF L, N, c
<1>4. End(0) = 0
  <2>1. 0 * c = 0
    BY <1>1
  <2>2. N = 0 => L = 0
    BY <1>1, <1>2, <2>1
  <2> QED
    BY <1>3, <2>1, <2>2
<1>5. ASSUME NEW k \in 0 .. N - 1
      PROVE  /\ End(k) = k * c /\ End(k) \in Nat /\ End(k + 1) \in Nat
             /\ End(k) < End(k + 1) /\ End(k + 1) <= k * c + c /\ End(k + 1) <= L
             /\ k + 1 # N => End(k + 1) = k * c + c
  <2>1. k \in Nat /\ k # N /\ k <= N - 1 /\ k + 1 <= N /\ N - 1 \in Int /\ k + 1 \in Nat
    BY <1>2
  <2> DEFINE here == k * c
             next == (k + 1) * c
             all  == N * c
             last == (N - 1) * c
  <2>2. next = here + c /\ here \in Int /\ last = all - c /\ all \in Int
    BY <1>1, <1>2, <2>1, Times
  <2>0. \A x, y \in Int : x <= y => x * c <= y * c
    BY <1>1, Times
  <2>3. here <= last /\ (k + 1 = N => here = last)
    <3>1. k \in Int
      BY <2>1
    <3>2. here <= last
      BY <2>1, <2>0, <3>1, Zenon
    <3>3. k + 1 = N => k = N - 1
      BY <1>2, <2>1
    <3> QED
      BY <3>2, <3>3, Zenon
  <2>4. 0 * c <= here
    BY <1>1, <2>1, Times
  <2>5. k + 1 # N => next <= last
    <3>1. k + 1 # N => k + 1 <= N - 1
      BY <1>2, <2>1
    <3>2. k + 1 \in Int
      BY <2>1
    <3> QED
      BY <2>1, <2>0, <3>1, <3>2, Zenon
  <2>6. End(k) = here /\ End(k + 1) = IF k + 1 = N THEN L ELSE next
    BY <1>3, <2>1
  <2>7. L <= all /\ all < L + c /\ 0 <= here
    BY <1>1, <1>2, <2>4
  <2> HIDE DEF here, next, all, last
  <2>8. /\ End(k) = here /\ End(k) \in Nat /\ End(k + 1) \in Nat
        /\ End(k) < End(k + 1) /\ End(k + 1) <= here + c /\ End(k + 1) <= L
        /\ k + 1 # N => End(k + 1) = here + c
    BY <1>1, <2>2, <2>3, <2>5, <2>6, <2>7
  <2> QED
    BY <2>8 DEF here
<1>6. End(N) = L
  BY <1>3
<1> QED
  BY <1>1, <1>2, <1>4, <1>5, <1>6 DEF L, N, c

\* The FinalBlockId is the number of the last chunk, or one more.
LEMMA FinalNumber ==
  ASSUME file \in Files
  PROVE  Len(file) \div CHUNK_SIZE = NChunks - (IF Len(file) % CHUNK_SIZE = 0 THEN 0 ELSE 1)
         /\ Len(file) \div CHUNK_SIZE \in Nat
<1> DEFINE L == Len(file)
           N == NChunks
           c == CHUNK_SIZE
           q == L \div c
           r == L % c
<1>1. /\ L \in Nat /\ c \in Nat /\ c > 0 /\ N \in Nat /\ L <= N * c
  BY ChunkPlaces
<1>2. N * c < L + c
  BY <1>1, RoundedUp DEF NChunks
<1>3. q \in Nat /\ r \in Nat /\ L = q * c + r /\ r < c
  <2>1. \A n \in Nat : n \div c \in Nat /\ n % c \in 0 .. c - 1 /\ n = c * (n \div c) + (n % c)
    BY <1>1
  <2>2. q \in Nat /\ r \in 0 .. c - 1 /\ L = c * q + r
    BY <1>1, <2>1
  <2> HIDE DEF q, r, c
  <2>3. c * q = q * c
    BY <1>1, <2>2
  <2> QED
    BY <1>1, <2>2, <2>3
<1> HIDE DEF L, N, c, q, r
<1>4. (N - 1) * c = N * c - c /\ (q + 1) * c = q * c + c /\ q * c \in Int /\ N * c \in Int
  BY <1>1, <1>3, Times
<1>5. CASE r = 0
  <2>1. q * c <= N * c /\ (N - 1) * c < q * c
    BY <1>1, <1>2, <1>3, <1>4, <1>5
  <2>2. N - 1 < q
    BY <1>1, <1>3, <2>1, Times
  <2>3. ~(N < q)
    <3>1. SUFFICES ASSUME N < q PROVE FALSE
      OBVIOUS
    <3>2. N + 1 <= q /\ N + 1 \in Int
      BY <1>1, <1>3, <3>1
    <3>3. (N + 1) * c <= q * c
      BY <1>1, <1>3, <3>2, Times
    <3>4. (N + 1) * c = N * c + c
      BY <1>1, Times
    <3> QED
      BY <1>1, <1>4, <2>1, <3>3, <3>4
  <2>4. q = N - 0
    BY <1>1, <1>3, <2>2, <2>3
  <2> QED
    BY <1>3, <1>5, <2>4 DEF L, N, c, q, r
<1>6. CASE r # 0
  <2>1. q * c < N * c /\ (N - 1) * c < (q + 1) * c
    BY <1>1, <1>2, <1>3, <1>4, <1>6
  <2>2. q < N /\ N - 1 < q + 1
    BY <1>1, <1>3, <2>1, Times
  <2>3. q = N - 1
    BY <1>1, <1>3, <2>2
  <2> QED
    BY <1>3, <1>6, <2>3 DEF L, N, c, q, r
<1> QED
  BY <1>5, <1>6

\* The Data of number k carries the bytes from where the first k chunks end.
LEMMA ChunkIs ==
  ASSUME file \in Files, NEW k \in 0 .. NChunks - 1
  PROVE  LET d == Chunks[k + 1]
         IN  /\ d \in Segment /\ d.seg = k /\ d.final = Len(file) \div CHUNK_SIZE
             /\ d.data = SubSeq(file, End(k) + 1, End(k + 1))
             /\ d.data \in Seq(0 .. 255) /\ Len(d.data) = End(k + 1) - End(k)
             /\ \A j \in 1 .. End(k + 1) - End(k) : d.data[j] = file[k * CHUNK_SIZE + j]
<1> DEFINE d == Chunks[k + 1]
           m == End(k) + 1
           n == End(k + 1)
           part == SubSeq(file, m, n)
<1>1. /\ file \in Seq(0 .. 255) /\ NChunks \in Nat /\ CHUNK_SIZE \in Nat
      /\ End(k) = k * CHUNK_SIZE /\ End(k) \in Nat /\ n \in Nat /\ End(k) < n /\ n <= Len(file)
  BY ChunkPlaces
<1>2. k + 1 \in 1 .. NChunks /\ k + 1 - 1 = k /\ k \in Nat
  BY <1>1
<1>3. d = [seg |-> k, final |-> Len(file) \div CHUNK_SIZE, data |-> part]
  <2>1. d = [seg   |-> k + 1 - 1,
             final |-> Len(file) \div CHUNK_SIZE,
             data  |-> SubSeq(file, (k + 1 - 1) * CHUNK_SIZE + 1,
                              IF k + 1 = NChunks THEN Len(file) ELSE (k + 1) * CHUNK_SIZE)]
    <3>1. \A i \in 1 .. NChunks :
            Chunks[i] = [seg   |-> i - 1,
                         final |-> Len(file) \div CHUNK_SIZE,
                         data  |-> SubSeq(file, (i - 1) * CHUNK_SIZE + 1,
                                          IF i = NChunks THEN Len(file) ELSE i * CHUNK_SIZE)]
      BY Zenon DEF Chunks
    <3> QED
      BY <1>2, <3>1
  <2>2. m = (k + 1 - 1) * CHUNK_SIZE + 1
    BY <1>1, <1>2
  <2>3. n = IF k + 1 = NChunks THEN Len(file) ELSE (k + 1) * CHUNK_SIZE
    BY DEF End
  <2> QED
    BY <1>2, <2>1, <2>2, <2>3, Zenon
<1>4. m \in Nat /\ 1 <= m /\ m <= n + 1 /\ n - m + 1 = n - End(k)
      /\ \A j \in 1 .. n - End(k) : m + j - 1 = k * CHUNK_SIZE + j
  <2> DEFINE here == k * CHUNK_SIZE
  <2>1. End(k) = here /\ here \in Nat /\ n \in Nat /\ here < n /\ m = here + 1
    BY <1>1
  <2> HIDE DEF here, n, m
  <2>2. m \in Nat /\ 1 <= m /\ m <= n + 1 /\ n - m + 1 = n - here
        /\ \A j \in 1 .. n - here : m + j - 1 = here + j
    BY <2>1
  <2> QED
    BY <2>1, <2>2 DEF here
<1> HIDE DEF m, n
<1>5. /\ part \in Seq(0 .. 255) /\ Len(part) = n - m + 1
      /\ \A j \in 1 .. n - m + 1 : part[j] = file[m + j - 1]
  <2>1. file \in Seq(0 .. 255) /\ m \in Nat /\ n \in Nat /\ 1 <= m /\ m <= n + 1 /\ n <= Len(file)
    BY <1>1, <1>4 DEF n
  <2> QED
    BY <2>1, PartOf
<1> HIDE DEF part
<1>6. Len(file) \div CHUNK_SIZE \in Nat
  BY FinalNumber
<1>7. d \in Segment /\ d.seg = k /\ d.final = Len(file) \div CHUNK_SIZE /\ d.data = part
  BY <1>2, <1>3, <1>5, <1>6 DEF Segment
<1>8. Len(part) = n - End(k) /\ \A j \in 1 .. n - End(k) : part[j] = file[k * CHUNK_SIZE + j]
  BY <1>4, <1>5
<1> HIDE DEF d
<1>9. /\ d \in Segment /\ d.seg = k /\ d.final = Len(file) \div CHUNK_SIZE
      /\ d.data = part /\ d.data \in Seq(0 .. 255) /\ Len(d.data) = n - End(k)
      /\ \A j \in 1 .. n - End(k) : d.data[j] = file[k * CHUNK_SIZE + j]
  BY <1>5, <1>7, <1>8
<1> QED
  BY <1>9 DEF d, part, m, n

\* A chunk is as long as what is left of the file, and CHUNK_SIZE at most.
LEMMA ChunkLength ==
  ASSUME file \in Files, NEW k \in 0 .. NChunks - 1
  PROVE  LET at == k * CHUNK_SIZE
         IN  End(k + 1) - End(k) =
               IF Len(file) - at < CHUNK_SIZE THEN Len(file) - at ELSE CHUNK_SIZE
<1> DEFINE at == k * CHUNK_SIZE
           next == End(k + 1)
           c == CHUNK_SIZE
<1>1. /\ Len(file) \in Nat /\ c \in Nat /\ at \in Nat /\ next \in Nat /\ End(k) = at
      /\ next <= at + c /\ next <= Len(file)
      /\ next = Len(file) \/ next = at + c
  <2>1. k + 1 = NChunks => next = Len(file)
    BY DEF End
  <2> QED
    BY <2>1, ChunkPlaces
<1> HIDE DEF at, next, c
<1>2. next - at = IF Len(file) - at < c THEN Len(file) - at ELSE c
  BY <1>1
<1> QED
  BY <1>1, <1>2 DEF at, next, c

\* What the server can send.
ChunkSet == {Chunks[k] : k \in 1 .. NChunks}

\* The server makes NChunks Data.
LEMMA ChunksAre ==
  ASSUME file \in Files
  PROVE  Chunks \in Seq(ChunkSet) /\ Len(Chunks) = NChunks /\ ChunkSet \subseteq Segment
<1>1. NChunks \in Nat
  BY ChunkPlaces
<1>2. ASSUME NEW i \in 1 .. NChunks PROVE Chunks[i] \in Segment
  <2>1. i - 1 \in 0 .. NChunks - 1 /\ i - 1 + 1 = i
    BY <1>1
  <2>2. Chunks[i - 1 + 1] \in Segment
    BY <2>1, ChunkIs
  <2> QED
    BY <2>1, <2>2
<1>3. Chunks = [i \in 1 .. NChunks |-> Chunks[i]]
  BY DEF Chunks
<1>4. \A i \in 1 .. NChunks : Chunks[i] \in ChunkSet
  BY DEF ChunkSet
<1>5. ChunkSet \subseteq Segment
  BY <1>2 DEF ChunkSet
<1> HIDE DEF ChunkSet
<1> QED
  BY <1>1, <1>3, <1>4, <1>5

-----------------------------------------------------------------------------
(* What fputs writes. *)

\* The CHOOSE of Written finds the first NUL.
LEMMA LeastPlace ==
  ASSUME NEW S, S \subseteq Nat, S # {}
  PROVE  \E d \in S : \A e \in S : d <= e
<1>1. PICK d \in S : \A e \in S : <<e, d>> \notin OpToRel(<, Nat)
  BY NatLessThanWellFounded, WFMin
<1>2. \A e \in S : e < d => <<e, d>> \in OpToRel(<, Nat)
  BY DEF OpToRel
<1>3. \A e \in S : ~(e < d)
  BY <1>1, <1>2, Zenon
<1> QED
  BY <1>3

\* What is written has no NUL.  As far as both go it is the content; it is
\* shorter only by stopping before a NUL, and it is never as long.
LEMMA WrittenIs ==
  ASSUME NEW content \in Seq(0 .. 255), NEW beyond \in Seq(1 .. 255), beyond # << >>
  PROVE  LET w == Written(content, beyond)
         IN  /\ w \in Seq(1 .. 255)
             /\ \A j \in 1 .. Len(content) : j <= Len(w) => w[j] = content[j]
             /\ Len(w) < Len(content) => content[Len(w) + 1] = 0
             /\ Len(w) # Len(content)
<1> DEFINE n == Len(content)
           nuls == {i \in 1 .. n : content[i] = 0}
           first == CHOOSE i \in nuls : \A j \in nuls : i <= j
           upTo == SubSeq(content, 1, first - 1)
           w == Written(content, beyond)
<1>1. n \in Nat /\ \A i \in 1 .. n : content[i] \in 0 .. 255
  BY LenProperties, ElementOfSeq
<1>2. w = IF nuls = {} THEN content \o beyond ELSE upTo
  BY Zenon DEF Written
<1> HIDE DEF w
<1>3. CASE nuls = {}
  <2>1. \A i \in 1 .. n : content[i] # 0
    BY <1>3, Zenon
  <2>2. content \in Seq(1 .. 255)
    <3>1. \A i \in 1 .. n : content[i] \in 1 .. 255
      <4> HIDE DEF n
      <4> QED
        BY <1>1, <2>1
    <3>2. SubSeq(content, 1, n) \in Seq(1 .. 255)
      <4>1. 1 \in Int /\ n \in Int /\ \A i \in 1 .. n : content[i] \in 1 .. 255
        BY <1>1, <3>1
      <4> HIDE DEF n
      <4> QED
        BY <4>1, SubSeqProperties
    <3>3. SubSeq(content, 1, n) = content
      BY SubSeqFull
    <3> QED
      BY <3>2, <3>3
  <2>3. w = content \o beyond
    BY <1>2, <1>3
  <2>4. /\ w \in Seq(1 .. 255) /\ Len(w) = n + Len(beyond)
        /\ \A j \in 1 .. n : w[j] = content[j]
    BY <2>2, <2>3, InARow
  <2>5. Len(beyond) \in Nat /\ Len(beyond) # 0
    BY LenProperties, EmptySeq
  <2>6. ~(Len(w) < n) /\ Len(w) # n
    <3> HIDE DEF n
    <3> QED
      BY <1>1, <2>4, <2>5
  <2> QED
    BY <2>4, <2>6 DEF w
<1>4. CASE nuls # {}
  <2>1. nuls \subseteq Nat
    BY <1>1
  <2>2. \E i \in nuls : \A j \in nuls : i <= j
    BY <1>4, <2>1, LeastPlace
  <2>3. first \in nuls /\ \A j \in nuls : first <= j
    BY <2>2, Zenon
  <2> HIDE DEF first
  <2>4. first \in 1 .. n /\ first - 1 \in Nat /\ first - 1 <= n /\ 1 <= first - 1 + 1
    BY <1>1, <2>3
  <2>5. \A i \in 1 .. first - 1 : content[i] \in 1 .. 255
    <3> SUFFICES ASSUME NEW i \in 1 .. first - 1 PROVE content[i] \in 1 .. 255
      OBVIOUS
    <3>1. i \in 1 .. n /\ ~(first <= i)
      BY <1>1, <2>4
    <3>2. content[i] # 0
      BY <2>3, <3>1, Zenon
    <3>3. content[i] \in 0 .. 255
      BY <1>1, <3>1
    <3> QED
      BY <3>2, <3>3
  <2>6. upTo \in Seq(1 .. 255)
    <3>1. \A i \in 1 .. first - 1 : 1 <= i /\ i <= first - 1 => content[i] \in 1 .. 255
      BY <2>5
    <3> QED
      BY <2>4, <2>5, SubSeqProperties
  <2>7. Len(upTo) = first - 1 /\ \A j \in 1 .. first - 1 : upTo[j] = content[j]
    <3>1. /\ Len(upTo) = first - 1 - 1 + 1
          /\ \A j \in 1 .. first - 1 - 1 + 1 : upTo[j] = content[1 + j - 1]
      BY <2>4, PartOf
    <3>2. first - 1 - 1 + 1 = first - 1 /\ \A j \in 1 .. first - 1 : 1 + j - 1 = j
      BY <2>4
    <3> QED
      BY <3>1, <3>2
  <2>8. w = upTo
    BY <1>2, <1>4
  <2>9. content[first] = 0
    BY <2>3
  <2> HIDE DEF upTo, n
  <2>10. /\ Len(w) = first - 1 /\ Len(w) + 1 = first /\ Len(w) # n
         /\ \A j \in 1 .. n : j <= Len(w) => j \in 1 .. first - 1
    BY <1>1, <2>4, <2>7, <2>8
  <2> QED
    BY <2>6, <2>7, <2>8, <2>9, <2>10 DEF w, n
<1> QED
  BY <1>3, <1>4

-----------------------------------------------------------------------------
(* The inductive invariant of the file transfer, and its steps. *)

\* Only chunks of the file travel, whatever the network does to them.
OnlyChunks == net \in Seq(ChunkSet) /\ taken \in Seq(0 .. NChunks - 1)

\* What each on_data has written is a piece, unless the disk failed.
AllPieces == "disk" \notin spoiled => \A k \in DOMAIN taken : IsPiece(k)

\* As long as nothing is spoiled, the client has the first chunks, the rest
\* are on their way in order, and none is missing when the loop has ended.
InStep ==
  LET t == Len(taken)
  IN  spoiled = {} =>
        /\ t <= NChunks /\ \A k \in DOMAIN taken : taken[k] = k - 1
        /\ interest = "received" =>
             Len(net) = NChunks - t /\ \A i \in 1 .. Len(net) : net[i] = Chunks[t + i]
        /\ interest # "received" => net = << >> /\ taken = << >>
        /\ run > 0 /\ ~running => t = NChunks

TransferInv == TransferTypeOK /\ OnlyChunks /\ AllPieces /\ InStep

\* The file stays, and its chunks with it.
LEMMA ChosenStays ==
  ASSUME UNCHANGED chosen
  PROVE  /\ file' = file /\ keeps' = keeps /\ NChunks' = NChunks /\ Chunks' = Chunks
         /\ ChunkSet' = ChunkSet /\ \A k : End(k)' = End(k)
BY DEF chosen, NChunks, Chunks, ChunkSet, End

\* What is saved stays what it is when nothing is saved, unless a disk that
\* had failed is forgotten.
LEMMA PiecesStay ==
  ASSUME TransferInv, UNCHANGED <<chosen, taken, saved, starts>>,
         "disk" \in spoiled => "disk" \in spoiled'
  PROVE  AllPieces'
<1>1. file' = file
  BY DEF chosen
<1>2. \A k : IsPiece(k)' = IsPiece(k)
  BY <1>1 DEF IsPiece
<1> QED
  BY <1>2 DEF TransferInv, AllPieces

\* Nothing has been sent or saved.
LEMMA InitTransferInv == TransferInit => TransferInv
<1> SUFFICES ASSUME TransferInit PROVE TransferInv
  OBVIOUS
<1>1. file \in Files /\ taken = << >> /\ Len(taken) = 0 /\ NChunks \in Nat
  BY ChunkPlaces DEF TransferInit
<1>2. TransferTypeOK
  <2>1. running \in BOOLEAN /\ pit \in BOOLEAN /\ keeps \in BOOLEAN
    BY Zenon DEF TransferInit
  <2>2. /\ run \in 0 .. MaxRuns /\ fopened \in 0 .. MaxFiles
        /\ losses \in 0 .. MaxLosses /\ dup \in 0 .. MaxDup
    BY TransferAssumption DEF TransferInit
  <2>3. /\ net \in Seq([seg : Nat, final : Nat, data : Seq(0 .. 255)])
        /\ taken \in Seq(Nat) /\ saved \in Seq(1 .. 255)
        /\ starts \in Seq(Nat) /\ Len(starts) = Len(taken)
    BY DEF TransferInit
  <2>4. interest \in {"none", "sent", "received"} /\ spoiled \subseteq Reasons
    BY DEF TransferInit
  <2> QED
    BY <1>1, <2>1, <2>2, <2>3, <2>4 DEF TransferTypeOK
<1>3. net = << >> /\ DOMAIN taken = {} /\ interest = "none" /\ ~(run > 0)
  BY <1>1 DEF TransferInit
<1>4. OnlyChunks /\ AllPieces
  BY <1>1, <1>3 DEF OnlyChunks, AllPieces
<1>5. InStep
  <2>1. 0 <= NChunks
    BY <1>1
  <2> QED
    BY <1>1, <1>3, <2>1 DEF InStep
<1> QED
  BY <1>2, <1>4, <1>5 DEF TransferInv

\* The server puts all the Data, or something is spoiled.
LEMMA AnswerStep == TransferInv /\ ServerAnswers => TransferInv'
<1> SUFFICES ASSUME TransferInv, ServerAnswers PROVE TransferInv'
  OBVIOUS
<1> DEFINE n == IF NChunks = 0 THEN 0 ELSE 1
           answer == IF keeps THEN Chunks ELSE SubSeq(Chunks, 1, n)
<1>1. /\ interest = "sent" /\ interest' = "received"
      /\ UNCHANGED <<chosen, run, running, pit, taken, saved, starts, losses, dup>>
  BY DEF ServerAnswers
<1>2. /\ file' = file /\ keeps' = keeps /\ NChunks' = NChunks /\ Chunks' = Chunks
      /\ ChunkSet' = ChunkSet
  BY <1>1, ChosenStays
<1>3. file \in Files /\ spoiled \subseteq Reasons
  BY DEF TransferInv, TransferTypeOK
<1>4. NChunks \in Nat /\ Chunks \in Seq(ChunkSet) /\ Len(Chunks) = NChunks /\ ChunkSet \subseteq Segment
  BY <1>3, ChunkPlaces, ChunksAre
<1>5. n \in Nat /\ 1 <= n + 1 /\ n <= Len(Chunks) /\ n - 1 + 1 = n
  BY <1>4
<1>6. /\ SubSeq(Chunks, 1, n) \in Seq(ChunkSet) /\ Len(SubSeq(Chunks, 1, n)) = n
      /\ \A i \in 1 .. n : SubSeq(Chunks, 1, n)[i] = Chunks[1 + i - 1]
  BY <1>4, <1>5, PartOf
<1>7. answer \in Seq(ChunkSet) /\ answer \in Seq(Segment)
  <2>1. answer \in Seq(ChunkSet)
    BY <1>4, <1>6
  <2> HIDE DEF answer
  <2> QED
    BY <1>4, <2>1, Wider
<1>8. ASSUME keeps \/ NChunks <= 1
      PROVE  Len(answer) = NChunks /\ \A i \in 1 .. NChunks : answer[i] = Chunks[i]
  <2>1. CASE keeps
    BY <1>4, <2>1
  <2>2. CASE ~keeps
    <3>1. n = NChunks
      BY <1>4, <1>8, <2>2
    <3>2. \A i \in 1 .. n : 1 + i - 1 = i
      BY <1>5
    <3> QED
      BY <1>6, <2>2, <3>1, <3>2
  <2> QED
    BY <2>1, <2>2
<1> HIDE DEF n, answer
<1>9. AllPieces'
  <2>1. spoiled \subseteq spoiled'
    BY DEF ServerAnswers
  <2> QED
    BY <1>1, <2>1, PiecesStay
<1>10. CASE /\ CanOpen /\ fopened' = fopened + 1 /\ net' = answer
            /\ spoiled' = IF keeps \/ NChunks <= 1 THEN spoiled ELSE spoiled \cup {"pit"}
  <2>1. fopened' \in 0 .. MaxFiles
    BY <1>10, TransferAssumption DEF TransferInv, TransferTypeOK, CanOpen
  <2>2. spoiled' \subseteq Reasons
    BY <1>3, <1>10 DEF Reasons
  <2>3. TransferTypeOK'
    BY <1>1, <1>2, <1>7, <1>10, <2>1, <2>2 DEF TransferInv, TransferTypeOK, Segment
  <2>4. OnlyChunks'
    BY <1>1, <1>2, <1>7, <1>10 DEF TransferInv, OnlyChunks
  <2>5. ASSUME spoiled' = {} PROVE spoiled = {} /\ (keeps \/ NChunks <= 1)
    BY <1>10, <2>5
  <2>6. InStep'
    <3> SUFFICES ASSUME spoiled' = {}
                 PROVE  LET t == Len(taken')
                        IN  /\ t <= NChunks /\ \A k \in DOMAIN taken' : taken'[k] = k - 1
                            /\ Len(net') = NChunks - t
                            /\ \A i \in 1 .. Len(net') : net'[i] = Chunks[t + i]
                            /\ run' > 0 /\ ~running' => t = NChunks
      BY <1>1, <1>2 DEF InStep
    <3>1. spoiled = {} /\ Len(net') = NChunks /\ \A i \in 1 .. NChunks : net'[i] = Chunks[i]
      BY <1>8, <1>10, <2>5
    <3>2. /\ taken = << >> /\ \A k \in DOMAIN taken : taken[k] = k - 1
          /\ run > 0 /\ ~running => Len(taken) = NChunks
      BY <1>1, <3>1 DEF TransferInv, InStep
    <3>3. Len(taken) = 0 /\ taken' = taken /\ \A i \in 1 .. NChunks : 0 + i = i
      BY <1>1, <1>4, <3>2
    <3> QED
      BY <1>1, <1>4, <3>1, <3>2, <3>3
  <2> QED
    BY <1>9, <2>3, <2>4, <2>6 DEF TransferInv
<1>11. CASE spoiled' = spoiled \cup {"no FILE"} /\ UNCHANGED <<net, fopened>>
  <2>1. spoiled' \subseteq Reasons /\ spoiled' # {}
    BY <1>3, <1>11 DEF Reasons
  <2>2. TransferTypeOK'
    BY <1>1, <1>2, <1>11, <2>1 DEF TransferInv, TransferTypeOK
  <2>3. OnlyChunks'
    BY <1>1, <1>2, <1>11 DEF TransferInv, OnlyChunks
  <2> QED
    BY <1>9, <2>1, <2>2, <2>3 DEF TransferInv, InStep
<1> QED
  BY <1>10, <1>11 DEF ServerAnswers, answer, n

\* A network that loses or repeats a packet spoils the run.
LEMMA NetworkSpoils ==
  TransferInv /\ (InterestLost \/ DataLost \/ DataDuplicated) => TransferInv'
<1> SUFFICES ASSUME TransferInv, InterestLost \/ DataLost \/ DataDuplicated
             PROVE  TransferInv'
  OBVIOUS
<1>1. UNCHANGED <<chosen, run, running, pit, taken, saved, starts, fopened>>
  BY DEF InterestLost, DataLost, DataDuplicated
<1>2. file' = file /\ keeps' = keeps /\ NChunks' = NChunks /\ ChunkSet' = ChunkSet
  BY <1>1, ChosenStays DEF chosen
<1>3. /\ net \in Seq(ChunkSet) /\ ChunkSet \subseteq Segment /\ spoiled \subseteq Reasons
  BY ChunksAre DEF TransferInv, TransferTypeOK, OnlyChunks
<1>4. spoiled' \in {spoiled \cup {"loss"}, spoiled \cup {"duplicate"}}
  BY DEF InterestLost, DataLost, DataDuplicated
<1>5. spoiled' \subseteq Reasons /\ spoiled' # {} /\ spoiled \subseteq spoiled'
  BY <1>3, <1>4 DEF Reasons
<1>6. losses' \in 0 .. MaxLosses /\ dup' \in 0 .. MaxDup
  <2>1. losses \in 0 .. MaxLosses /\ dup \in 0 .. MaxDup
    BY DEF TransferInv, TransferTypeOK
  <2>2. \/ losses < MaxLosses /\ losses' = losses + 1 /\ dup' = dup
        \/ dup < MaxDup /\ dup' = dup + 1 /\ losses' = losses
    BY DEF InterestLost, DataLost, DataDuplicated
  <2> QED
    BY <2>1, <2>2, TransferAssumption
<1>7. interest' \in {"none", "sent", "received"}
  <2>1. interest' \in {interest, "received"}
    BY DEF InterestLost, DataLost, DataDuplicated
  <2> QED
    BY <2>1 DEF TransferInv, TransferTypeOK
<1>8. net' \in Seq(ChunkSet)
  <2>1. CASE InterestLost
    BY <1>3, <2>1 DEF InterestLost
  <2>2. CASE DataLost
    BY <1>3, <2>2, RemovesOne DEF DataLost
  <2>3. CASE DataDuplicated
    BY <1>3, <2>3, InsertsOne DEF DataDuplicated
  <2> QED
    BY <2>1, <2>2, <2>3
<1>9. net' \in Seq(Segment)
  BY <1>3, <1>8, Wider
<1>10. TransferTypeOK'
  BY <1>1, <1>2, <1>5, <1>6, <1>7, <1>9 DEF TransferInv, TransferTypeOK, Segment
<1>11. OnlyChunks'
  BY <1>1, <1>2, <1>8 DEF TransferInv, OnlyChunks
<1>12. AllPieces'
  BY <1>1, <1>5, PiecesStay
<1> QED
  BY <1>5, <1>10, <1>11, <1>12 DEF TransferInv, InStep

\* The loop is entered, and nothing has come yet.
LEMMA StartStep == TransferInv /\ ClientStarts => TransferInv'
<1> SUFFICES ASSUME TransferInv, ClientStarts PROVE TransferInv'
  OBVIOUS
<1>1. /\ run < MaxRuns /\ run' = run + 1 /\ running' = TRUE
      /\ interest' = "sent" /\ pit' = TRUE
      /\ net' = << >> /\ taken' = << >> /\ starts' = << >> /\ spoiled' = {}
      /\ UNCHANGED <<chosen, saved, fopened, losses, dup>>
  BY DEF ClientStarts
<1>2. file' = file /\ keeps' = keeps /\ NChunks' = NChunks /\ ChunkSet' = ChunkSet
  BY <1>1, ChosenStays
<1>3. file \in Files /\ run \in 0 .. MaxRuns /\ NChunks \in Nat
  BY ChunkPlaces DEF TransferInv, TransferTypeOK
<1>4. TransferTypeOK'
  <2>1. running' \in BOOLEAN /\ pit' \in BOOLEAN
    BY <1>1, Zenon
  <2>2. run' \in 0 .. MaxRuns
    BY <1>1, <1>3, TransferAssumption
  <2>3. /\ net' \in Seq([seg : Nat, final : Nat, data : Seq(0 .. 255)])
        /\ taken' \in Seq(Nat) /\ interest' \in {"none", "sent", "received"}
        /\ starts' \in Seq(Nat) /\ Len(starts') = Len(taken') /\ spoiled' \subseteq Reasons
    BY <1>1
  <2> QED
    BY <1>1, <1>2, <2>1, <2>2, <2>3 DEF TransferInv, TransferTypeOK
<1>5. DOMAIN taken' = {}
  BY <1>1
<1>6. OnlyChunks' /\ AllPieces'
  BY <1>1, <1>5 DEF OnlyChunks, AllPieces
<1>7. InStep'
  <2>1. Len(taken') = 0 /\ 0 <= NChunks /\ running'
    BY <1>1, <1>3
  <2>2. interest' # "received" /\ net' = << >> /\ taken' = << >>
    BY <1>1
  <2> QED
    BY <1>2, <1>5, <2>1, <2>2 DEF InStep
<1> QED
  BY <1>4, <1>6, <1>7 DEF TransferInv

\* IsPiece, for a file s in which the piece lies between two places.
PieceOf(s, from, to, at) ==
  LET n == IF Len(file) - at < CHUNK_SIZE THEN Len(file) - at ELSE CHUNK_SIZE
  IN  /\ from <= to /\ to <= Len(s)
      /\ \A j \in 1 .. n : from + j <= to => s[from + j] = file[at + j]
      /\ to - from < n => file[at + (to - from) + 1] = 0
      /\ to - from # n

\* A piece stays one when something is written behind it.
LEMMA PieceStays ==
  ASSUME file \in Files, NEW s \in Seq(1 .. 255), NEW w \in Seq(1 .. 255),
         NEW from \in Nat, NEW to \in Nat, NEW at \in Nat, PieceOf(s, from, to, at)
  PROVE  PieceOf(s \o w, from, to, at)
<1> DEFINE n == IF Len(file) - at < CHUNK_SIZE THEN Len(file) - at ELSE CHUNK_SIZE
           r == s \o w
<1>1. n \in Int
  BY ChunkPlaces
<1>2. /\ from <= to /\ to <= Len(s)
      /\ \A j \in 1 .. n : from + j <= to => s[from + j] = file[at + j]
      /\ to - from < n => file[at + (to - from) + 1] = 0
      /\ to - from # n
  BY DEF PieceOf
<1>3. /\ Len(r) = Len(s) + Len(w) /\ Len(s) \in Nat /\ Len(w) \in Nat
      /\ \A i \in 1 .. Len(s) : r[i] = s[i]
  BY InARow, LenProperties
<1> HIDE DEF n, r
<1>4. to <= Len(r)
  BY <1>2, <1>3
<1>5. ASSUME NEW j \in 1 .. n, from + j <= to PROVE r[from + j] = file[at + j]
  <2>1. from + j \in 1 .. Len(s)
    BY <1>1, <1>2, <1>3, <1>5
  <2> QED
    BY <1>2, <1>3, <1>5, <2>1
<1>6. /\ from <= to /\ to <= Len(r)
      /\ \A j \in 1 .. n : from + j <= to => r[from + j] = file[at + j]
      /\ to - from < n => file[at + (to - from) + 1] = 0
      /\ to - from # n
  BY <1>2, <1>4, <1>5
<1> QED
  BY <1>6 DEF PieceOf, n, r

\* What fputs appends of a chunk is a piece of it.
LEMMA NewPiece ==
  ASSUME file \in Files, NEW s \in Seq(1 .. 255), NEW d \in ChunkSet, NEW beyond \in Beyond
  PROVE  LET w == Written(d.data, beyond)
         IN  /\ w \in Seq(1 .. 255)
             /\ PieceOf(s \o w, Len(s), Len(s \o w), d.seg * CHUNK_SIZE)
             /\ d.seg \in 0 .. NChunks - 1
<1> DEFINE w == Written(d.data, beyond)
           r == s \o w
           at == d.seg * CHUNK_SIZE
           n == IF Len(file) - at < CHUNK_SIZE THEN Len(file) - at ELSE CHUNK_SIZE
<1>1. PICK i \in 1 .. NChunks : d = Chunks[i]
  BY DEF ChunkSet
<1> DEFINE k == i - 1
<1>2. k \in 0 .. NChunks - 1 /\ k + 1 = i
  BY ChunkPlaces
<1>3. /\ d.seg = k /\ d.data \in Seq(0 .. 255) /\ Len(d.data) = End(k + 1) - End(k)
      /\ \A j \in 1 .. End(k + 1) - End(k) : d.data[j] = file[k * CHUNK_SIZE + j]
  <2> HIDE DEF k
  <2>1. d = Chunks[k + 1]
    BY <1>1, <1>2
  <2> QED
    BY <1>2, <2>1, ChunkIs
<1>4. Len(d.data) = n
  <2> HIDE DEF k
  <2> QED
    BY <1>2, <1>3, ChunkLength
<1>5. \A j \in 1 .. n : d.data[j] = file[at + j]
  <2> HIDE DEF k, n
  <2> QED
    BY <1>3, <1>4
<1>6. beyond \in Seq(1 .. 255) /\ beyond # << >>
  BY TransferAssumption
<1>7. /\ w \in Seq(1 .. 255)
      /\ \A j \in 1 .. n : j <= Len(w) => w[j] = file[at + j]
      /\ Len(w) < n => d.data[Len(w) + 1] = 0
      /\ Len(w) # n
  <2> HIDE DEF n, at, w
  <2>1. /\ w \in Seq(1 .. 255)
        /\ \A j \in 1 .. Len(d.data) : j <= Len(w) => w[j] = d.data[j]
        /\ Len(w) < Len(d.data) => d.data[Len(w) + 1] = 0
        /\ Len(w) # Len(d.data)
    BY <1>3, <1>6, WrittenIs DEF w
  <2> QED
    BY <1>4, <1>5, <2>1
<1>8. n \in Int /\ at \in Nat
  <2>1. \A x, y \in Nat : x * y \in Nat
    OBVIOUS
  <2>2. d.seg \in Nat /\ CHUNK_SIZE \in Nat /\ Len(file) \in Nat
    BY <1>2, <1>3, ChunkPlaces
  <2>3. at \in Nat
    BY <2>1, <2>2
  <2> HIDE DEF at
  <2> QED
    BY <2>2, <2>3
<1> HIDE DEF w, at, n
<1>9. /\ Len(r) = Len(s) + Len(w) /\ Len(s) \in Nat /\ Len(w) \in Nat
      /\ \A j \in 1 .. Len(w) : r[Len(s) + j] = w[j]
  BY <1>7, InARow, LenProperties
<1> HIDE DEF r
<1>10. ASSUME NEW j \in 1 .. n, Len(s) + j <= Len(r)
       PROVE  r[Len(s) + j] = file[at + j]
  <2>1. j \in 1 .. Len(w) /\ j <= Len(w)
    BY <1>8, <1>9, <1>10
  <2> QED
    BY <1>7, <1>9, <2>1
<1>11. Len(r) - Len(s) = Len(w) /\ Len(s) <= Len(r) /\ Len(r) <= Len(r)
  BY <1>9
<1>12. Len(w) < n => file[at + Len(w) + 1] = 0
  <2>1. SUFFICES ASSUME Len(w) < n PROVE file[at + Len(w) + 1] = 0
    OBVIOUS
  <2>2. Len(w) + 1 \in 1 .. n /\ at + (Len(w) + 1) = at + Len(w) + 1
    BY <1>8, <1>9, <2>1
  <2> QED
    BY <1>5, <1>7, <2>1, <2>2
<1>13. /\ Len(s) <= Len(r) /\ Len(r) <= Len(r)
       /\ \A j \in 1 .. n : Len(s) + j <= Len(r) => r[Len(s) + j] = file[at + j]
       /\ Len(r) - Len(s) < n => file[at + (Len(r) - Len(s)) + 1] = 0
       /\ Len(r) - Len(s) # n
  BY <1>7, <1>10, <1>11, <1>12
<1>14. PieceOf(r, Len(s), Len(r), at)
  BY <1>13 DEF PieceOf, n
<1>15. d.seg \in 0 .. NChunks - 1
  BY <1>2, <1>3
<1> QED
  BY <1>7, <1>14, <1>15 DEF r, w, at

\* Data taken in order leave the ones behind them on their way.
LEMMA NextIsTaken ==
  ASSUME TransferInv, spoiled = {}, net # << >>
  PROVE  LET t == Len(taken)
         IN  /\ interest = "received"
             /\ t + 1 <= NChunks /\ t \in Nat /\ net[1].seg = t
             /\ Len(RemoveAt(net, 1)) = NChunks - (t + 1)
             /\ \A i \in 1 .. Len(RemoveAt(net, 1)) : RemoveAt(net, 1)[i] = Chunks[t + 1 + i]
<1> DEFINE t == Len(taken)
           N == NChunks
           rest == RemoveAt(net, 1)
<1>1. file \in Files /\ taken \in Seq(Nat) /\ net \in Seq(Segment)
  BY DEF TransferInv, TransferTypeOK, Segment
<1>2. t \in Nat /\ N \in Nat /\ Len(net) \in Nat
  BY <1>1, LenProperties, ChunkPlaces
<1>3. /\ interest = "received" /\ t <= N
      /\ Len(net) = N - t /\ \A i \in 1 .. Len(net) : net[i] = Chunks[t + i]
  BY DEF TransferInv, InStep
<1>4. Len(net) > 0
  <2>1. Len(net) = 0 => net = << >>
    BY <1>1, EmptySeq
  <2> QED
    BY <1>2, <2>1
<1>5. t \in 0 .. N - 1 /\ 1 \in 1 .. Len(net)
  BY <1>2, <1>3, <1>4
<1>6. net[1].seg = t
  <2>1. net[1] = Chunks[t + 1]
    BY <1>3, <1>5
  <2> QED
    BY <1>1, <1>5, <2>1, ChunkIs
<1>7. Len(rest) = Len(net) - 1 /\ \A i \in 1 .. Len(net) - 1 : rest[i] = net[i + 1]
  BY <1>1, <1>5, RemovesOne
<1> HIDE DEF t, N, rest
<1>8. Len(rest) = N - (t + 1) /\ t + 1 <= N
  BY <1>2, <1>3, <1>5, <1>7
<1>9. \A i \in 1 .. Len(rest) : rest[i] = Chunks[t + 1 + i]
  <2> SUFFICES ASSUME NEW i \in 1 .. Len(rest) PROVE rest[i] = Chunks[t + 1 + i]
    OBVIOUS
  <2>1. i \in 1 .. Len(net) - 1 /\ i + 1 \in 1 .. Len(net) /\ t + (i + 1) = t + 1 + i
    BY <1>2, <1>3, <1>7, <1>8
  <2>2. rest[i] = net[i + 1] /\ net[i + 1] = Chunks[t + (i + 1)]
    BY <1>3, <1>7, <2>1
  <2> QED
    BY <2>1, <2>2
<1> QED
  BY <1>2, <1>3, <1>6, <1>8, <1>9 DEF t, N, rest

\* on_data appends a piece of the chunk, and what is not the next chunk spoils
\* the run.
LEMMA ReceiveStep == TransferInv /\ ClientReceives => TransferInv'
<1> SUFFICES ASSUME TransferInv, ClientReceives PROVE TransferInv'
  OBVIOUS
<1> DEFINE t == Len(taken)
<1>1. /\ running /\ pit' = keeps /\ starts' = Append(starts, Len(saved))
      /\ UNCHANGED <<chosen, run, running, interest, fopened, losses, dup>>
  BY DEF ClientReceives
<1>2. /\ file' = file /\ keeps' = keeps /\ NChunks' = NChunks /\ Chunks' = Chunks
      /\ ChunkSet' = ChunkSet
  BY <1>1, ChosenStays
<1>3. /\ file \in Files /\ net \in Seq(ChunkSet) /\ ChunkSet \subseteq Segment
      /\ spoiled \subseteq Reasons /\ taken \in Seq(Nat) /\ taken \in Seq(0 .. NChunks - 1)
      /\ starts \in Seq(Nat) /\ Len(starts) = t
      /\ saved \in Seq(1 .. 255) /\ NChunks \in Nat /\ CHUNK_SIZE \in Nat
  BY ChunkPlaces, ChunksAre DEF TransferInv, TransferTypeOK, OnlyChunks
<1>4. PICK i \in 1 .. (IF Reorders THEN Len(net) ELSE IF net = << >> THEN 0 ELSE 1) :
        /\ OnDataUnsaved(i) \/ \E beyond \in Beyond : OnData(i, beyond)
        /\ net' = RemoveAt(net, i)
  BY DEF ClientReceives
<1>5. i \in 1 .. Len(net) /\ net # << >>
  <2>1. Len(net) \in Nat /\ (Len(net) = 0 <=> net = << >>)
    BY <1>3, LenProperties, EmptySeq
  <2> QED
    BY <1>4, <2>1
<1> DEFINE d == net[i]
<1>6. d \in ChunkSet /\ d.seg \in Nat /\ Len(saved) \in Nat
  <2>1. d \in ChunkSet
    BY <1>3, <1>5, ElementOfSeq
  <2>2. d \in Segment
    BY <1>3, <2>1
  <2> QED
    BY <1>3, <2>1, <2>2, LenProperties DEF Segment
<1>7. net' \in Seq(ChunkSet) /\ net' \in Seq(Segment)
  <2>1. net' \in Seq(ChunkSet)
    BY <1>3, <1>4, <1>5, RemovesOne
  <2> QED
    BY <1>3, <2>1, Wider
<1>8. taken' = Append(taken, d.seg)
  BY <1>4 DEF OnDataUnsaved, OnData
<1> HIDE DEF d
<1>9. d.seg \in 0 .. NChunks - 1
  <2>1. PICK j \in 1 .. NChunks : d = Chunks[j]
    BY <1>6 DEF ChunkSet
  <2>2. j - 1 \in 0 .. NChunks - 1 /\ j - 1 + 1 = j
    BY <1>3
  <2>3. Chunks[j - 1 + 1].seg = j - 1
    BY <1>3, <2>2, ChunkIs
  <2> QED
    BY <2>1, <2>2, <2>3
<1>10. /\ taken' \in Seq(Nat) /\ Len(taken') = t + 1 /\ t \in Nat
       /\ DOMAIN taken' = 1 .. t + 1 /\ DOMAIN taken = 1 .. t
       /\ taken'[t + 1] = d.seg /\ \A k \in 1 .. t : taken'[k] = taken[k]
  BY <1>3, <1>6, <1>8, AppendProperties, LenProperties
<1>11. /\ starts' \in Seq(Nat) /\ Len(starts') = t + 1
       /\ starts'[t + 1] = Len(saved) /\ \A k \in 1 .. t : starts'[k] = starts[k]
  BY <1>1, <1>3, <1>6, AppendProperties, LenProperties
<1>12. taken' \in Seq(0 .. NChunks - 1)
  BY <1>3, <1>8, <1>9, AppendProperties
<1> HIDE DEF t
<1>13. saved' \in Seq(1 .. 255) /\ spoiled' \subseteq Reasons
  <2>1. CASE OnDataUnsaved(i)
    BY <1>3, <2>1 DEF OnDataUnsaved, Reasons
  <2>2. CASE \E beyond \in Beyond : OnData(i, beyond)
    <3>1. PICK beyond \in Beyond : OnData(i, beyond)
      BY <2>2
    <3>2. Written(d.data, beyond) \in Seq(1 .. 255)
      BY <1>3, <1>6, NewPiece
    <3>3. saved' = saved \o Written(d.data, beyond)
      BY <3>1 DEF OnData, d
    <3>4. saved' \in Seq(1 .. 255)
      BY <1>3, <3>2, <3>3, InARow
    <3>5. spoiled' \in {spoiled, spoiled \cup {"order"}}
      BY <3>1 DEF OnData
    <3> QED
      BY <1>3, <3>4, <3>5 DEF Reasons
  <2> QED
    BY <1>4, <2>1, <2>2
<1>14. TransferTypeOK'
  <2>1. pit' \in BOOLEAN
    BY <1>1, Zenon DEF TransferInv, TransferTypeOK
  <2>2. Len(starts') = Len(taken')
    BY <1>10, <1>11
  <2> QED
    BY <1>1, <1>2, <1>7, <1>10, <1>11, <1>13, <2>1, <2>2
       DEF TransferInv, TransferTypeOK, Segment
<1>15. OnlyChunks'
  BY <1>2, <1>7, <1>12 DEF OnlyChunks
<1>16. AllPieces'
  <2> SUFFICES ASSUME "disk" \notin spoiled', NEW k \in DOMAIN taken'
               PROVE  IsPiece(k)'
    BY DEF AllPieces
  <2> DEFINE to == IF k = t THEN Len(saved) ELSE starts[k + 1]
             newTo == IF k = Len(taken') THEN Len(saved') ELSE starts'[k + 1]
             at == taken'[k] * CHUNK_SIZE
  <2>1. ~OnDataUnsaved(i)
    BY DEF OnDataUnsaved
  <2>2. PICK beyond \in Beyond : OnData(i, beyond)
    BY <1>4, <2>1
  <2>3. /\ saved' = saved \o Written(d.data, beyond)
        /\ "disk" \notin spoiled
    BY <2>2 DEF OnData, d
  <2>4. Written(d.data, beyond) \in Seq(1 .. 255)
    BY <1>3, <1>6, NewPiece
  <2>5. PieceOf(saved', starts'[k], newTo, at) => IsPiece(k)'
    BY <1>2 DEF IsPiece, PieceOf
  <2>6. CASE k = t + 1
    <3>1. PieceOf(saved', Len(saved), Len(saved'), d.seg * CHUNK_SIZE)
      BY <1>3, <1>6, <2>3, NewPiece
    <3>2. starts'[k] = Len(saved) /\ newTo = Len(saved') /\ at = d.seg * CHUNK_SIZE
      BY <1>10, <1>11, <2>6
    <3> QED
      BY <2>5, <3>1, <3>2
  <2>7. CASE k # t + 1
    <3>1. k \in 1 .. t /\ k \in DOMAIN taken /\ k # Len(taken') /\ (k # t => k + 1 \in 1 .. t)
      BY <1>10, <2>7
    <3>2. starts'[k] = starts[k] /\ newTo = to /\ at = taken[k] * CHUNK_SIZE
      BY <1>10, <1>11, <3>1
    <3>3. IsPiece(k)
      BY <2>3, <3>1 DEF TransferInv, AllPieces
    <3>4. PieceOf(saved, starts[k], to, taken[k] * CHUNK_SIZE)
      BY <3>3 DEF IsPiece, PieceOf, t
    <3>5. starts[k] \in Nat /\ to \in Nat
      <4>1. \A h \in 1 .. t : starts[h] \in Nat
        BY <1>3, ElementOfSeq
      <4> QED
        BY <1>6, <3>1, <4>1
    <3>6. taken[k] * CHUNK_SIZE \in Nat
      <4>1. taken[k] \in Nat
        BY <1>3, <3>1, ElementOfSeq DEF t
      <4>2. \A x, y \in Nat : x * y \in Nat
        OBVIOUS
      <4> QED
        BY <1>3, <4>1, <4>2
    <3> HIDE DEF to, newTo, at
    <3>7. PieceOf(saved', starts[k], to, taken[k] * CHUNK_SIZE)
      BY <1>3, <2>3, <2>4, <3>4, <3>5, <3>6, PieceStays
    <3> QED
      BY <2>5, <3>2, <3>7
  <2> QED
    BY <2>6, <2>7
<1>17. InStep'
  <2> SUFFICES ASSUME spoiled' = {} PROVE InStep'
    BY DEF InStep
  <2>1. ~OnDataUnsaved(i)
    BY DEF OnDataUnsaved
  <2>2. PICK beyond \in Beyond : OnData(i, beyond)
    BY <1>4, <2>1
  <2>3. spoiled' = IF i = 1 THEN spoiled ELSE spoiled \cup {"order"}
    BY <2>2 DEF OnData
  <2>4. spoiled = {} /\ i = 1
    BY <2>3
  <2>5. /\ interest = "received" /\ t + 1 <= NChunks /\ d.seg = t
        /\ Len(net') = NChunks - (t + 1)
        /\ \A j \in 1 .. Len(net') : net'[j] = Chunks[t + 1 + j]
    BY <1>4, <1>5, <2>4, NextIsTaken DEF t, d
  <2>6. \A k \in DOMAIN taken' : taken'[k] = k - 1
    <3>1. \A k \in 1 .. t : taken[k] = k - 1
      BY <1>10, <2>4 DEF TransferInv, InStep
    <3> QED
      BY <1>10, <2>5, <3>1
  <2> QED
    BY <1>1, <1>2, <1>10, <2>5, <2>6 DEF InStep
<1> QED
  BY <1>14, <1>15, <1>16, <1>17 DEF TransferInv

\* The loop ends with every chunk taken, or too early.
LEMMA TimeoutStep == TransferInv /\ OnTimeout => TransferInv'
<1> SUFFICES ASSUME TransferInv, OnTimeout PROVE TransferInv'
  OBVIOUS
<1>1. /\ pit' = FALSE /\ running' = FALSE
      /\ spoiled' = IF Len(taken) < NChunks THEN spoiled \cup {"late"} ELSE spoiled
      /\ UNCHANGED <<chosen, run, interest, net, taken, saved, starts, fopened, losses, dup>>
  BY DEF OnTimeout
<1>2. /\ file' = file /\ keeps' = keeps /\ NChunks' = NChunks /\ Chunks' = Chunks
      /\ ChunkSet' = ChunkSet
  BY <1>1, ChosenStays
<1>3. /\ file \in Files /\ NChunks \in Nat /\ Len(taken) \in Nat /\ spoiled \subseteq Reasons
  BY ChunkPlaces, LenProperties DEF TransferInv, TransferTypeOK
<1>4. TransferTypeOK'
  <2>1. running' \in BOOLEAN /\ pit' \in BOOLEAN
    BY <1>1, Zenon
  <2>2. spoiled' \subseteq Reasons
    BY <1>1, <1>3 DEF Reasons
  <2> QED
    BY <1>1, <1>2, <2>1, <2>2 DEF TransferInv, TransferTypeOK
<1>5. OnlyChunks'
  BY <1>1, <1>2 DEF TransferInv, OnlyChunks
<1>6. AllPieces'
  <2>1. "disk" \in spoiled => "disk" \in spoiled'
    BY <1>1
  <2> QED
    BY <1>1, <2>1, PiecesStay
<1>7. InStep'
  <2>1. spoiled' = {} => spoiled = {} /\ ~(Len(taken) < NChunks)
    BY <1>1
  <2> QED
    BY <1>1, <1>2, <1>3, <2>1 DEF TransferInv, InStep
<1> QED
  BY <1>4, <1>5, <1>6, <1>7 DEF TransferInv

\* Every step keeps the invariant.
LEMMA NextTransferInv == TransferInv /\ [TransferNext]_transferVars => TransferInv'
<1> SUFFICES ASSUME TransferInv, [TransferNext]_transferVars PROVE TransferInv'
  OBVIOUS
<1>1. CASE ServerAnswers
  BY <1>1, AnswerStep
<1>2. CASE InterestLost \/ DataLost \/ DataDuplicated
  BY <1>2, NetworkSpoils
<1>3. CASE ClientStarts
  BY <1>3, StartStep
<1>4. CASE ClientReceives
  BY <1>4, ReceiveStep
<1>5. CASE OnTimeout
  BY <1>5, TimeoutStep
<1>6. CASE UNCHANGED transferVars
  <2>1. UNCHANGED <<chosen, run, running, interest, pit, net, taken, saved, starts, fopened,
                    losses, dup, spoiled>>
    BY <1>6 DEF transferVars
  <2>2. /\ file' = file /\ keeps' = keeps /\ NChunks' = NChunks /\ Chunks' = Chunks
        /\ ChunkSet' = ChunkSet
    BY <2>1, ChosenStays
  <2>3. TransferTypeOK'
    BY <2>1, <2>2 DEF TransferInv, TransferTypeOK
  <2>4. OnlyChunks'
    BY <2>1, <2>2 DEF TransferInv, OnlyChunks
  <2>5. AllPieces'
    BY <2>1, PiecesStay
  <2>6. InStep'
    BY <2>1, <2>2 DEF TransferInv, InStep
  <2> QED
    BY <2>3, <2>4, <2>5, <2>6 DEF TransferInv
<1> QED
  BY <1>1, <1>2, <1>3, <1>4, <1>5, <1>6 DEF TransferNext

-----------------------------------------------------------------------------
(* What travels. *)

\* What a Data on its way carries, when nothing is spoiled.
LEMMA OnItsWay ==
  ASSUME TransferInv, spoiled = {}, interest = "received", NEW i \in DOMAIN net
  PROVE  LET k == Len(taken) + i - 1
         IN  /\ k \in 0 .. NChunks - 1
             /\ net[i].seg = k /\ net[i].final = Len(file) \div CHUNK_SIZE
             /\ DOMAIN net[i].data = 1 .. End(k + 1) - End(k)
             /\ \A j \in DOMAIN net[i].data : net[i].data[j] = file[k * CHUNK_SIZE + j]
<1> DEFINE t == Len(taken)
           k == t + i - 1
<1>1. file \in Files /\ taken \in Seq(Nat) /\ net \in Seq(Segment)
  BY DEF TransferInv, TransferTypeOK, Segment
<1>2. t \in Nat /\ NChunks \in Nat /\ Len(net) \in Nat /\ DOMAIN net = 1 .. Len(net)
  BY <1>1, LenProperties, ChunkPlaces
<1>3. /\ t <= NChunks /\ Len(net) = NChunks - t
      /\ \A h \in 1 .. Len(net) : net[h] = Chunks[t + h]
  BY DEF TransferInv, InStep
<1>4. k \in 0 .. NChunks - 1 /\ k + 1 = t + i
  BY <1>2, <1>3
<1>5. net[i] = Chunks[k + 1]
  BY <1>2, <1>3, <1>4
<1> HIDE DEF k
<1>6. LET d == Chunks[k + 1]
      IN  /\ d.seg = k /\ d.final = Len(file) \div CHUNK_SIZE
          /\ d.data \in Seq(0 .. 255) /\ Len(d.data) = End(k + 1) - End(k)
          /\ \A j \in 1 .. End(k + 1) - End(k) : d.data[j] = file[k * CHUNK_SIZE + j]
  BY <1>1, <1>4, ChunkIs
<1>7. DOMAIN net[i].data = 1 .. End(k + 1) - End(k)
  <2>1. net[i].data \in Seq(0 .. 255) /\ Len(net[i].data) = End(k + 1) - End(k)
    BY <1>5, <1>6
  <2> QED
    BY <2>1, LenProperties
<1>8. /\ net[i].seg = k /\ net[i].final = Len(file) \div CHUNK_SIZE
      /\ \A j \in DOMAIN net[i].data : net[i].data[j] = file[k * CHUNK_SIZE + j]
  BY <1>5, <1>6, <1>7
<1> QED
  BY <1>4, <1>7, <1>8 DEF k

-----------------------------------------------------------------------------
(* The theorems about the file transfer. *)

\* Every reachable state satisfies the invariant.
THEOREM TransferInvariantHolds == TransferSpec => []TransferInv
BY InitTransferInv, NextTransferInv, PTL DEF TransferSpec

\* No byte is NUL in the client's file, the descriptors and the bounds hold,
\* and what travels is a Data.
THEOREM TransferTypeCorrect == TransferSpec => []TransferTypeOK
<1>1. TransferInv => TransferTypeOK
  BY DEF TransferInv
<1> QED
  BY <1>1, TransferInvariantHolds, PTL

\* Whatever the network does, each Data the client was handed stays in its file
\* where it was appended, cut at the chunk's first NUL or written past its end,
\* and never just as it is; the pieces follow the file as long as nothing
\* happens that the programs do not handle, to its end when the loop has ended.
THEOREM PiecesAreSaved == TransferSpec => []SavedInPieces
<1>1. TransferInv => SavedInPieces
  BY DEF TransferInv, AllPieces, InStep, SavedInPieces
<1> QED
  BY <1>1, TransferInvariantHolds, PTL

\* As long as nothing happens that the programs do not handle, every byte of
\* the file is in a chunk taken or travels in exactly one Data, at the place its segment
\* number says, whatever the size: the Data cut the file without gap or
\* overlap, and the FinalBlockId is one too high on a size of whole chunks.
THEOREM DataTileTheFile == TransferSpec => []ChunksTile
<1>1. TransferInv => ChunksTile
  <2> DEFINE lastNo == NChunks - (IF Len(file) % CHUNK_SIZE = 0 THEN 0 ELSE 1)
             Place(i, j) == net[i].seg * CHUNK_SIZE + j
             t == Len(taken)
             c == CHUNK_SIZE
             tc == t * c
  <2> SUFFICES ASSUME TransferInv, spoiled = {}, interest = "received"
      PROVE  /\ \A i \in DOMAIN net : net[i].seg = t + i - 1 /\ net[i].final = lastNo
             /\ \A i \in DOMAIN net : \A j \in DOMAIN net[i].data :
                  Place(i, j) \in DOMAIN file \ (1 .. tc) /\ net[i].data[j] = file[Place(i, j)]
             /\ \A b \in DOMAIN file \ (1 .. tc) :
                  \E i \in DOMAIN net :
                    /\ \E j \in DOMAIN net[i].data : Place(i, j) = b
                    /\ \A h \in DOMAIN net \ {i} : \A j \in DOMAIN net[h].data : Place(h, j) # b
    BY DEF ChunksTile
  <2>1. /\ file \in Files /\ taken \in Seq(Nat) /\ net \in Seq(Segment)
        /\ t \in Nat /\ Len(net) \in Nat /\ DOMAIN net = 1 .. Len(net)
    BY LenProperties DEF TransferInv, TransferTypeOK, Segment
  <2>2. t <= NChunks /\ Len(net) = NChunks - t
    BY DEF TransferInv, InStep
  <2>3. DOMAIN file = 1 .. Len(file) /\ tc \in Nat
    <3>1. file \in Seq(0 .. 255) /\ c \in Nat
      BY <2>1, ChunkPlaces
    <3>2. \A x, y \in Nat : x * y \in Nat
      OBVIOUS
    <3> QED
      BY <2>1, <3>1, <3>2, LenProperties
  <2>4. Len(file) \div c = lastNo
    BY <2>1, FinalNumber
  <2>5. /\ NChunks \in Nat /\ c \in Nat /\ c > 0 /\ Len(file) \in Nat
        /\ Len(file) <= NChunks * c /\ End(NChunks) = Len(file)
    BY <2>1, ChunkPlaces
  <2>6. \A k \in 0 .. NChunks - 1 :
          /\ End(k) = k * c /\ End(k) \in Nat /\ End(k + 1) \in Nat
          /\ End(k + 1) <= k * c + c /\ End(k + 1) <= Len(file)
          /\ k + 1 # NChunks => End(k + 1) = k * c + c
    BY <2>1, ChunkPlaces
  <2>7. \A i \in DOMAIN net :
          LET k == t + i - 1
          IN  /\ k \in 0 .. NChunks - 1 /\ net[i].seg = k /\ net[i].final = Len(file) \div c
              /\ DOMAIN net[i].data = 1 .. End(k + 1) - End(k)
              /\ \A j \in DOMAIN net[i].data : net[i].data[j] = file[k * c + j]
    BY OnItsWay
  <2> HIDE DEF lastNo, c, tc
  <2>8. \A i \in DOMAIN net : net[i].seg = t + i - 1 /\ net[i].final = lastNo
    BY <2>4, <2>7
  <2>9. ASSUME NEW i \in DOMAIN net, NEW j \in DOMAIN net[i].data
        PROVE  /\ Place(i, j) \in DOMAIN file \ (1 .. tc)
               /\ net[i].data[j] = file[Place(i, j)]
               /\ Place(i, j) > net[i].seg * c /\ Place(i, j) <= net[i].seg * c + c
    <3> DEFINE k == net[i].seg
               here == k * c
    <3>1. /\ k \in 0 .. NChunks - 1 /\ k = t + i - 1 /\ j \in 1 .. End(k + 1) - End(k)
          /\ net[i].data[j] = file[here + j]
      BY <2>7
    <3>2. /\ here = End(k) /\ here \in Nat /\ End(k + 1) \in Nat
          /\ End(k + 1) <= Len(file) /\ End(k + 1) <= here + c
      BY <2>6, <3>1
    <3>3. tc <= here
      <4>1. t <= k /\ t \in Int /\ k \in Int
        <5>1. i \in 1 .. Len(net) /\ t \in Nat /\ Len(net) \in Nat /\ NChunks \in Nat
          BY <2>1, <2>5
        <5> HIDE DEF k, t
        <5> QED
          BY <3>1, <5>1
      <4>2. \A x, y \in Int : x <= y => x * c <= y * c
        BY <2>5, Times
      <4> QED
        BY <4>1, <4>2, Zenon DEF tc
    <3>4. Place(i, j) = here + j
      BY DEF c
    <3> HIDE DEF k, here
    <3>5. /\ here + j \in 1 .. Len(file) /\ ~(here + j \in 1 .. tc)
          /\ here + j > here /\ here + j <= here + c
      <4>1. j \in 1 .. End(k + 1) - here /\ Len(file) \in Nat /\ c \in Nat /\ tc \in Nat
        BY <2>3, <2>5, <3>1, <3>2
      <4> QED
        BY <3>2, <3>3, <4>1
    <3> QED
      BY <2>3, <3>1, <3>4, <3>5 DEF k, here
  <2>10. ASSUME NEW b \in DOMAIN file \ (1 .. tc)
        PROVE  \E i \in DOMAIN net :
                 /\ \E j \in DOMAIN net[i].data : Place(i, j) = b
                 /\ \A h \in DOMAIN net \ {i} : \A j \in DOMAIN net[h].data : Place(h, j) # b
    <3> DEFINE k == (b - 1) \div c
               here == k * c
               i == k - t + 1
               j == b - here
    <3>1. b \in 1 .. Len(file) /\ b > tc /\ b - 1 \in Nat
      BY <2>3, <2>5
    <3>2. k \in Nat /\ here <= b - 1 /\ b - 1 < here + c /\ here \in Nat
      BY <2>5, <3>1, BlockOf
    <3> HIDE DEF k
    <3>3. \A x, y \in Int : (x * c < y * c => x < y) /\ (x + 1) * c = x * c + c
      BY <2>5, Times
    <3>4. k < NChunks
      <4>1. here < NChunks * c
        <5> DEFINE all == NChunks * c
        <5>1. all \in Int /\ Len(file) <= all
          BY <2>5, Times
        <5> HIDE DEF all, here
        <5>2. here < all
          BY <2>5, <3>1, <3>2, <5>1
        <5> QED
          BY <5>2 DEF all
      <4> QED
        BY <2>5, <3>2, <3>3, <4>1
    <3>5. t <= k
      <4>1. tc < (k + 1) * c
        <5>1. (k + 1) * c = here + c
          BY <3>2, <3>3
        <5> HIDE DEF here
        <5> QED
          BY <2>3, <2>5, <3>1, <3>2, <5>1
      <4>2. t < k + 1
        <5>1. t \in Int /\ k + 1 \in Int
          BY <2>1, <3>2
        <5> QED
          BY <3>3, <4>1, <5>1, Zenon DEF tc
      <4> QED
        BY <2>1, <3>2, <4>2
    <3>6. i \in DOMAIN net /\ t + i - 1 = k /\ k \in 0 .. NChunks - 1
      BY <2>1, <2>2, <2>5, <3>2, <3>4, <3>5
    <3>7. net[i].seg = k /\ DOMAIN net[i].data = 1 .. End(k + 1) - End(k)
      BY <2>7, <3>6
    <3>8. j \in DOMAIN net[i].data
      <4>1. here = End(k) /\ End(k + 1) = IF k + 1 = NChunks THEN Len(file) ELSE here + c
        BY <2>5, <2>6, <3>6
      <4>2. c \in Nat /\ Len(file) \in Nat
        BY <2>5
      <4> HIDE DEF here
      <4>3. b - here \in 1 .. End(k + 1) - End(k)
        BY <3>1, <3>2, <4>1, <4>2
      <4> QED
        BY <3>7, <4>3
    <3>9. Place(i, j) = b
      <4>1. Place(i, j) = here + j
        BY <3>7 DEF c
      <4> HIDE DEF here
      <4> QED
        BY <3>1, <3>2, <4>1
    <3>10. ASSUME NEW h \in DOMAIN net \ {i}, NEW l \in DOMAIN net[h].data, Place(h, l) = b
           PROVE  FALSE
      <4> DEFINE m == net[h].seg
                 there == m * c
      <4>1. b > there /\ b <= there + c
        BY <2>9, <3>10
      <4>2. m = t + h - 1 /\ m \in Int /\ h \in Int
        BY <2>1, <2>7, <3>10
      <4>3. m # k
        BY <2>1, <3>2, <3>10, <4>2
      <4>4. there \in Int /\ (m + 1) * c = there + c /\ (k + 1) * c = here + c
        BY <2>5, <3>2, <4>2, Times
      <4> HIDE DEF m
      <4>5. there < (k + 1) * c /\ here < (m + 1) * c
        <5> HIDE DEF here, there
        <5> QED
          BY <2>5, <3>1, <3>2, <4>1, <4>4
      <4>6. m < k + 1 /\ k < m + 1
        <5>1. m \in Int /\ k \in Int /\ k + 1 \in Int /\ m + 1 \in Int
          BY <3>2, <4>2
        <5> QED
          BY <3>3, <4>5, <5>1, Zenon
      <4> QED
        BY <3>2, <4>2, <4>3, <4>6
    <3> HIDE DEF i, j
    <3> QED
      BY <3>6, <3>8, <3>9, <3>10
  <2> QED
    BY <2>8, <2>9, <2>10
<1> QED
  BY <1>1, TransferInvariantHolds, PTL
=============================================================================
