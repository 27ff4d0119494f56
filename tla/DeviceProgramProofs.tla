------------------------ MODULE DeviceProgramProofs ------------------------
(***************************************************************************)
(* Proofs about the shared-info file and the device programs, for any set  *)
(* of devices, any secrets and any lengths of the keys.                    *)
(***************************************************************************)
EXTENDS DeviceProgram, FiniteSetTheorems, SequenceTheorems, TLAPS

\* Where the lines of a whole text end, and the text.
End1 == 2 * KeyLen.prv + 1
End2 == End1 + 3
End3 == End2 + 2 * KeyLen.pub + 1
End4 == End3 + 2 * KeyLen.hmac

Digits == 0 .. Base - 1

-----------------------------------------------------------------------------
(* Digits and bytes. *)

\* The lines end in order, and a digit is no newline.
LEMMA Layout ==
  /\ Base \in Nat /\ Base > 0
  /\ KeyLen.prv \in Nat /\ KeyLen.pub \in Nat /\ KeyLen.hmac \in Nat
  /\ KeyLen.prv > 0 /\ KeyLen.pub > 0 /\ KeyLen.hmac > 0
  /\ End1 \in Nat /\ End2 \in Nat /\ End3 \in Nat /\ End4 \in Nat
  /\ 0 < End1 /\ End1 < End2 /\ End2 < End3 /\ End3 < End4
  /\ Digits \subseteq Char /\ NL \notin Digits /\ NL \in Char
  /\ Letter \in Char /\ Letter # NL
<1>1. /\ Base \in Nat /\ Base > 0
      /\ KeyLen.prv \in Nat /\ KeyLen.pub \in Nat /\ KeyLen.hmac \in Nat
      /\ KeyLen.prv > 0 /\ KeyLen.pub > 0 /\ KeyLen.hmac > 0
  <2>1. Base \in Nat \ {0} /\ {KeyLen.prv, KeyLen.pub, KeyLen.hmac} \subseteq Nat \ {0}
    BY DeviceAssumption
  <2> QED
    BY <2>1
<1>2. /\ End1 \in Nat /\ End2 \in Nat /\ End3 \in Nat /\ End4 \in Nat
      /\ 0 < End1 /\ End1 < End2 /\ End2 < End3 /\ End3 < End4
  BY <1>1 DEF End1, End2, End3, End4
<1>3. /\ Digits \subseteq Char /\ NL \notin Digits /\ NL \in Char
      /\ Letter \in Char /\ Letter # NL
  BY <1>1 DEF Digits, Char, NL, Letter
<1> QED
  BY <1>1, <1>2, <1>3

\* A byte is two digits.
LEMMA TwoDigits ==
  ASSUME NEW b \in 0 .. Base * Base - 1
  PROVE  /\ b \div Base \in Digits /\ b % Base \in Digits
         /\ (b \div Base) * Base + (b % Base) = b
<1>1. Base \in Nat /\ Base > 0 /\ b \in Nat /\ b < Base * Base
  BY Layout
<1>2. /\ b \div Base \in Int /\ b % Base \in 0 .. Base - 1
      /\ b = (b \div Base) * Base + (b % Base)
  BY <1>1
<1>3. b \div Base >= 0 /\ b \div Base < Base
  <2> DEFINE q == b \div Base
  <2>1. q \in Int /\ q * Base <= b /\ b < q * Base + Base
    BY <1>1, <1>2
  <2> HIDE DEF q
  <2>2. q >= 0
    BY <1>1, <2>1
  <2>3. q < Base
    BY <1>1, <2>1
  <2> QED
    BY <2>2, <2>3 DEF q
<1> QED
  BY <1>1, <1>2, <1>3 DEF Digits

\* A sequence of n elements has length n.
LEMMA LengthIs ==
  ASSUME NEW S, NEW n \in Nat, NEW b \in [1 .. n -> S]
  PROVE  b \in Seq(S) /\ Len(b) = n
<1>1. b \in Seq(S)
  BY SeqDef
<1>2. Len(b) \in Nat /\ DOMAIN b = 1 .. Len(b)
  BY <1>1, LenProperties
<1>3. 1 .. Len(b) = 1 .. n
  BY <1>2
<1> QED
  BY <1>1, <1>2, <1>3

\* %02X makes two digits of every byte.
LEMMA HexIs ==
  ASSUME NEW n \in Nat, NEW b \in [1 .. n -> 0 .. Base * Base - 1]
  PROVE  /\ Hex(b) \in Seq(Digits) /\ Len(Hex(b)) = 2 * n
         /\ \A i \in 1 .. n : Hex(b)[2 * i - 1] = b[i] \div Base /\ Hex(b)[2 * i] = b[i] % Base
<1>1. Len(b) = n
  BY LengthIs
<1>2. Hex(b) = [i \in 1 .. 2 * n |->
                  IF i % 2 = 1 THEN b[(i + 1) \div 2] \div Base ELSE b[i \div 2] % Base]
  BY <1>1 DEF Hex
<1>3. ASSUME NEW i \in 1 .. 2 * n
      PROVE  /\ i % 2 = 1 => (i + 1) \div 2 \in 1 .. n
             /\ i % 2 # 1 => i \div 2 \in 1 .. n
  OBVIOUS
<1>4. ASSUME NEW i \in 1 .. 2 * n PROVE Hex(b)[i] \in Digits
  <2>1. CASE i % 2 = 1
    <3>1. b[(i + 1) \div 2] \in 0 .. Base * Base - 1
      BY <1>3, <2>1
    <3>2. b[(i + 1) \div 2] \div Base \in Digits
      BY <3>1, TwoDigits
    <3> QED
      BY <1>2, <2>1, <3>2
  <2>2. CASE i % 2 # 1
    <3>1. b[i \div 2] \in 0 .. Base * Base - 1
      BY <1>3, <2>2
    <3>2. b[i \div 2] % Base \in Digits
      BY <3>1, TwoDigits
    <3> QED
      BY <1>2, <2>2, <3>2
  <2> QED
    BY <2>1, <2>2
<1>5. Hex(b) \in [1 .. 2 * n -> Digits]
  BY <1>2, <1>4
<1>6. Hex(b) \in Seq(Digits) /\ Len(Hex(b)) = 2 * n
  BY <1>5, LengthIs
<1>7. ASSUME NEW i \in 1 .. n
      PROVE  Hex(b)[2 * i - 1] = b[i] \div Base /\ Hex(b)[2 * i] = b[i] % Base
  <2>1. /\ 2 * i - 1 \in 1 .. 2 * n /\ (2 * i - 1) % 2 = 1 /\ (2 * i - 1 + 1) \div 2 = i
        /\ 2 * i \in 1 .. 2 * n /\ (2 * i) % 2 = 0 /\ (2 * i) \div 2 = i
    OBVIOUS
  <2> QED
    BY <1>2, <2>1
<1> QED
  BY <1>6, <1>7

\* sscanf gets the bytes back from a line that begins with their digits.
LEMMA BytesBack ==
  ASSUME NEW n \in Nat, NEW b \in [1 .. n -> 0 .. Base * Base - 1],
         NEW line, Len(line) \in Nat, 2 * n <= Len(line),
         \A i \in 1 .. 2 * n : line[i] = Hex(b)[i]
  PROVE  Bytes(line, n) = b
<1>1. ASSUME NEW i \in 1 .. n PROVE Byte(line, 2 * i - 1) = b[i]
  <2>1. /\ 2 * i - 1 \in 1 .. 2 * n /\ 2 * i \in 1 .. 2 * n /\ 2 * i - 1 + 1 = 2 * i
        /\ 2 * i - 1 <= Len(line) /\ 2 * i <= Len(line)
    OBVIOUS
  <2>2. line[2 * i - 1] = b[i] \div Base /\ line[2 * i] = b[i] % Base
    BY <2>1, HexIs
  <2>3. /\ b[i] \div Base \in 0 .. Base - 1 /\ b[i] % Base \in 0 .. Base - 1
        /\ (b[i] \div Base) * Base + (b[i] % Base) = b[i]
    BY TwoDigits DEF Digits
  <2> QED
    BY <2>1, <2>2, <2>3 DEF Byte
<1>2. Bytes(line, n) = [i \in 1 .. n |-> Byte(line, 2 * i - 1)]
  BY DEF Bytes
<1> QED
  BY <1>1, <1>2

-----------------------------------------------------------------------------
(* The text. *)

\* What the fields of the secrets are.
LEMMA SecretIs ==
  ASSUME NEW s \in Secrets
  PROVE  /\ s.id \in Digits
         /\ s.prv \in [1 .. KeyLen.prv -> 0 .. Base * Base - 1]
         /\ s.pub \in [1 .. KeyLen.pub -> 0 .. Base * Base - 1]
         /\ s.hmac \in [1 .. KeyLen.hmac -> 0 .. Base * Base - 1]
BY DeviceAssumption DEF Digits

\* Two sequences of characters in a row.
LEMMA Joined ==
  ASSUME NEW a \in Seq(Char), NEW b \in Seq(Char)
  PROVE  /\ a \o b \in Seq(Char) /\ Len(a \o b) = Len(a) + Len(b)
         /\ \A i \in 1 .. Len(a) : (a \o b)[i] = a[i]
         /\ \A i \in 1 .. Len(b) : (a \o b)[Len(a) + i] = b[i]
<1> DEFINE m == Len(a)
           n == Len(b)
<1>1. /\ a \o b \in Seq(Char) /\ Len(a \o b) = m + n /\ m \in Nat /\ n \in Nat
      /\ \A i \in 1 .. m + n : (a \o b)[i] = IF i <= m THEN a[i] ELSE b[i - m]
  BY ConcatProperties, LenProperties
<1> HIDE DEF m, n
<1>2. \A i \in 1 .. m : i \in 1 .. m + n /\ i <= m
  BY <1>1
<1>3. \A i \in 1 .. n : m + i \in 1 .. m + n /\ ~(m + i <= m) /\ m + i - m = i
  BY <1>1
<1> QED
  BY <1>1, <1>2, <1>3 DEF m, n

\* Where everything is in the text of the secrets.
LEMMA TextIs ==
  ASSUME NEW s \in Secrets
  PROVE  /\ Text(s) \in Seq(Char) /\ Len(Text(s)) = End4
         /\ \A i \in 1 .. 2 * KeyLen.prv : Text(s)[i] = Hex(s.prv)[i]
         /\ Text(s)[End1] = NL
         /\ Text(s)[End1 + 1] = Letter /\ Text(s)[End1 + 2] = s.id
         /\ Text(s)[End2] = NL
         /\ \A i \in 1 .. 2 * KeyLen.pub : Text(s)[End2 + i] = Hex(s.pub)[i]
         /\ Text(s)[End3] = NL
         /\ \A i \in 1 .. 2 * KeyLen.hmac : Text(s)[End3 + i] = Hex(s.hmac)[i]
<1> DEFINE h1 == Hex(s.prv)
           h2 == Hex(s.pub)
           h3 == Hex(s.hmac)
           n1 == <<NL>>
           d  == IdText(s)
           t1 == h1 \o n1
           t2 == t1 \o d
           t3 == t2 \o n1
           t4 == t3 \o h2
           t5 == t4 \o n1
           t6 == t5 \o h3
           a1 == 2 * KeyLen.prv
           a2 == 2 * KeyLen.pub
           a3 == 2 * KeyLen.hmac
<1>1. a1 \in Nat /\ a2 \in Nat /\ a3 \in Nat
  BY Layout
<1>2. /\ h1 \in Seq(Char) /\ Len(h1) = a1
      /\ h2 \in Seq(Char) /\ Len(h2) = a2
      /\ h3 \in Seq(Char) /\ Len(h3) = a3
  <2>1. /\ h1 \in Seq(Digits) /\ Len(h1) = a1
        /\ h2 \in Seq(Digits) /\ Len(h2) = a2
        /\ h3 \in Seq(Digits) /\ Len(h3) = a3
    BY SecretIs, HexIs, Layout
  <2> QED
    BY <2>1, Layout, SeqMonotonic
<1>3. n1 \in Seq(Char) /\ Len(n1) = 1 /\ n1[1] = NL
  BY Layout
<1>4. d \in Seq(Char) /\ Len(d) = 2 /\ d[1] = Letter /\ d[2] = s.id
  BY Layout, SecretIs DEF IdText
<1>5. Text(s) = t6
  BY DEF Text
<1> HIDE DEF h1, h2, h3, n1, d, a1, a2, a3
<1>6. /\ t1 \in Seq(Char) /\ Len(t1) = a1 + 1
      /\ \A i \in 1 .. a1 : t1[i] = h1[i]
      /\ t1[a1 + 1] = NL
  <2>1. /\ t1 \in Seq(Char) /\ Len(t1) = Len(h1) + Len(n1)
        /\ \A i \in 1 .. Len(h1) : t1[i] = h1[i]
        /\ \A i \in 1 .. Len(n1) : t1[Len(h1) + i] = n1[i]
    BY <1>2, <1>3, Joined, Zenon
  <2> HIDE DEF t1
  <2> QED
    BY <1>1, <1>2, <1>3, <2>1
<1> HIDE DEF t1
<1>7. /\ t2 \in Seq(Char) /\ Len(t2) = a1 + 3
      /\ \A i \in 1 .. a1 + 1 : t2[i] = t1[i]
      /\ t2[a1 + 2] = Letter /\ t2[a1 + 3] = s.id
  <2>1. /\ t2 \in Seq(Char) /\ Len(t2) = Len(t1) + Len(d)
        /\ \A i \in 1 .. Len(t1) : t2[i] = t1[i]
        /\ \A i \in 1 .. Len(d) : t2[Len(t1) + i] = d[i]
    BY <1>4, <1>6, Joined, Zenon
  <2> HIDE DEF t2
  <2> QED
    BY <1>1, <1>4, <1>6, <2>1
<1> HIDE DEF t2
<1>8. /\ t3 \in Seq(Char) /\ Len(t3) = a1 + 4
      /\ \A i \in 1 .. a1 + 3 : t3[i] = t2[i]
      /\ t3[a1 + 4] = NL
  <2>1. /\ t3 \in Seq(Char) /\ Len(t3) = Len(t2) + Len(n1)
        /\ \A i \in 1 .. Len(t2) : t3[i] = t2[i]
        /\ \A i \in 1 .. Len(n1) : t3[Len(t2) + i] = n1[i]
    BY <1>3, <1>7, Joined, Zenon
  <2> HIDE DEF t3
  <2> QED
    BY <1>1, <1>3, <1>7, <2>1
<1> HIDE DEF t3
<1>9. /\ t4 \in Seq(Char) /\ Len(t4) = a1 + 4 + a2
      /\ \A i \in 1 .. a1 + 4 : t4[i] = t3[i]
      /\ \A i \in 1 .. a2 : t4[a1 + 4 + i] = h2[i]
  <2>1. /\ t4 \in Seq(Char) /\ Len(t4) = Len(t3) + Len(h2)
        /\ \A i \in 1 .. Len(t3) : t4[i] = t3[i]
        /\ \A i \in 1 .. Len(h2) : t4[Len(t3) + i] = h2[i]
    BY <1>2, <1>8, Joined, Zenon
  <2> HIDE DEF t4
  <2> QED
    BY <1>1, <1>2, <1>8, <2>1
<1> HIDE DEF t4
<1>10. /\ t5 \in Seq(Char) /\ Len(t5) = a1 + 4 + a2 + 1
       /\ \A i \in 1 .. a1 + 4 + a2 : t5[i] = t4[i]
       /\ t5[a1 + 4 + a2 + 1] = NL
  <2>1. /\ t5 \in Seq(Char) /\ Len(t5) = Len(t4) + Len(n1)
        /\ \A i \in 1 .. Len(t4) : t5[i] = t4[i]
        /\ \A i \in 1 .. Len(n1) : t5[Len(t4) + i] = n1[i]
    BY <1>3, <1>9, Joined, Zenon
  <2> HIDE DEF t5
  <2> QED
    BY <1>1, <1>3, <1>9, <2>1
<1> HIDE DEF t5
<1>11. /\ t6 \in Seq(Char) /\ Len(t6) = a1 + 4 + a2 + 1 + a3
       /\ \A i \in 1 .. a1 + 4 + a2 + 1 : t6[i] = t5[i]
       /\ \A i \in 1 .. a3 : t6[a1 + 4 + a2 + 1 + i] = h3[i]
  <2>1. /\ t6 \in Seq(Char) /\ Len(t6) = Len(t5) + Len(h3)
        /\ \A i \in 1 .. Len(t5) : t6[i] = t5[i]
        /\ \A i \in 1 .. Len(h3) : t6[Len(t5) + i] = h3[i]
    BY <1>2, <1>10, Joined, Zenon
  <2> HIDE DEF t6
  <2> QED
    BY <1>1, <1>2, <1>10, <2>1
<1> HIDE DEF t6
<1>12. \A i \in 1 .. a1 + 3 : t6[i] = t2[i]
  BY <1>1, <1>8, <1>9, <1>10, <1>11
<1>13. /\ End1 = a1 + 1 /\ End2 = a1 + 4 /\ End3 = a1 + 4 + a2 + 1
       /\ End4 = a1 + 4 + a2 + 1 + a3
  BY <1>1 DEF End1, End2, End3, End4, a1, a2, a3
<1>14. \A i \in 1 .. a1 : t6[i] = h1[i]
  BY <1>1, <1>6, <1>7, <1>12
<1>15. t6[a1 + 1] = NL /\ t6[a1 + 2] = Letter /\ t6[a1 + 3] = s.id
  BY <1>1, <1>6, <1>7, <1>12
<1>16. t6[a1 + 4] = NL /\ \A i \in 1 .. a2 : t6[a1 + 4 + i] = h2[i]
  <2>1. t6[a1 + 4] = NL
    BY <1>1, <1>8, <1>9, <1>10, <1>11
  <2>2. ASSUME NEW i \in 1 .. a2 PROVE t6[a1 + 4 + i] = h2[i]
    <3>1. a1 + 4 + i \in 1 .. a1 + 4 + a2 /\ a1 + 4 + i \in 1 .. a1 + 4 + a2 + 1
      BY <1>1
    <3> QED
      BY <1>9, <1>10, <1>11, <3>1
  <2> QED
    BY <2>1, <2>2
<1>17. t6[a1 + 4 + a2 + 1] = NL
  BY <1>1, <1>10, <1>11
<1>18. a1 + 1 + 1 = a1 + 2 /\ a1 + 1 + 2 = a1 + 3
  BY <1>1
<1> QED
  BY <1>5, <1>11, <1>13, <1>14, <1>15, <1>16, <1>17, <1>18 DEF h1, h2, h3, a1, a2, a3

-----------------------------------------------------------------------------
(* The lines of a text that has been cut. *)

\* The first n characters of the text of s.
Cut(s, n) == SubSeq(Text(s), 1, n)

\* The newlines, and the one that ends line k, in a set of at most one.
Breaks(t) == {i \in DOMAIN t : t[i] = NL}
Nth(t, k) == {i \in Breaks(t) : Cardinality({j \in Breaks(t) : j <= i}) = k}

\* A cut text has the characters of the whole one.
LEMMA CutIs ==
  ASSUME NEW s \in Secrets, NEW n \in 0 .. End4
  PROVE  /\ Cut(s, n) \in Seq(Char) /\ Len(Cut(s, n)) = n
         /\ DOMAIN Cut(s, n) = 1 .. n
         /\ \A i \in 1 .. n : Cut(s, n)[i] = Text(s)[i]
<1>1. Text(s) \in Seq(Char) /\ Len(Text(s)) = End4
  BY TextIs
<1>2. n \in Int /\ n >= 0 /\ n <= End4 /\ End4 \in Nat
  BY Layout
<1>3. \A i \in 1 .. n : Text(s)[i] \in Char
  BY <1>1, <1>2, ElementOfSeq
<1>4. /\ Cut(s, n) \in Seq(Char)
      /\ Len(Cut(s, n)) = IF 1 <= n THEN n - 1 + 1 ELSE 0
      /\ \A i \in 1 .. n - 1 + 1 : Cut(s, n)[i] = Text(s)[1 + i - 1]
  BY <1>2, <1>3, SubSeqProperties DEF Cut
<1>5. Len(Cut(s, n)) = n /\ n - 1 + 1 = n /\ \A i \in 1 .. n : 1 + i - 1 = i
  BY <1>2, <1>4
<1>6. DOMAIN Cut(s, n) = 1 .. Len(Cut(s, n))
  BY <1>4, LenProperties
<1> QED
  BY <1>4, <1>5, <1>6

\* The newlines of the whole text, as far as it goes.
LEMMA BreaksOfCut ==
  ASSUME NEW s \in Secrets, NEW n \in 0 .. End4
  PROVE  Breaks(Cut(s, n)) = {End1, End2, End3} \cap 1 .. n
<1>1. ASSUME NEW i \in 1 .. End4
      PROVE  Text(s)[i] = NL <=> i \in {End1, End2, End3}
  <2>1. Text(s)[End1] = NL /\ Text(s)[End2] = NL /\ Text(s)[End3] = NL
    BY TextIs
  <2>2. CASE i < End1
    <3>1. i \in 1 .. 2 * KeyLen.prv
      BY <2>2, Layout DEF End1
    <3>2. Text(s)[i] = Hex(s.prv)[i] /\ Hex(s.prv) \in Seq(Digits)
          /\ Len(Hex(s.prv)) = 2 * KeyLen.prv
      BY <3>1, TextIs, SecretIs, HexIs, Layout
    <3>3. Text(s)[i] \in Digits
      BY <3>1, <3>2, ElementOfSeq
    <3> QED
      BY <2>2, <3>3, Layout
  <2>3. CASE End1 < i /\ i < End2
    <3>1. i = End1 + 1 \/ i = End1 + 2
      BY <2>3, Layout DEF End2
    <3>2. Text(s)[End1 + 1] = Letter /\ Text(s)[End1 + 2] = s.id
      BY TextIs
    <3>3. Letter # NL /\ s.id # NL
      BY SecretIs, Layout
    <3>4. Text(s)[i] # NL
      BY <3>1, <3>2, <3>3
    <3> QED
      BY <2>3, <3>4, Layout
  <2>4. CASE End2 < i /\ i < End3
    <3>1. i - End2 \in 1 .. 2 * KeyLen.pub /\ End2 + (i - End2) = i
      BY <2>4, Layout DEF End3
    <3>2. Text(s)[i] = Hex(s.pub)[i - End2] /\ Hex(s.pub) \in Seq(Digits)
          /\ Len(Hex(s.pub)) = 2 * KeyLen.pub
      BY <3>1, TextIs, SecretIs, HexIs, Layout
    <3>3. Text(s)[i] \in Digits
      BY <3>1, <3>2, ElementOfSeq
    <3> QED
      BY <2>4, <3>3, Layout
  <2>5. CASE End3 < i
    <3>1. i - End3 \in 1 .. 2 * KeyLen.hmac /\ End3 + (i - End3) = i
      BY <2>5, Layout DEF End4
    <3>2. Text(s)[i] = Hex(s.hmac)[i - End3] /\ Hex(s.hmac) \in Seq(Digits)
          /\ Len(Hex(s.hmac)) = 2 * KeyLen.hmac
      BY <3>1, TextIs, SecretIs, HexIs, Layout
    <3>3. Text(s)[i] \in Digits
      BY <3>1, <3>2, ElementOfSeq
    <3> QED
      BY <2>5, <3>3, Layout
  <2> QED
    BY <2>1, <2>2, <2>3, <2>4, <2>5, Layout
<1>2. \A i \in 1 .. n : i \in 1 .. End4 /\ Cut(s, n)[i] = Text(s)[i]
  BY CutIs, Layout
<1>3. DOMAIN Cut(s, n) = 1 .. n
  BY CutIs
<1> QED
  BY <1>1, <1>2, <1>3 DEF Breaks

\* The newlines up to each of them.
LEMMA Counted ==
  /\ Cardinality({End1}) = 1
  /\ Cardinality({End1, End2}) = 2
  /\ Cardinality({End1, End2, End3}) = 3
<1>1. IsFiniteSet({End1}) /\ Cardinality({End1}) = 1
  BY FS_Singleton
<1>2. End2 \notin {End1} /\ End3 \notin {End1} \cup {End2}
  BY Layout
<1>3. IsFiniteSet({End1} \cup {End2}) /\ Cardinality({End1} \cup {End2}) = 2
  BY <1>1, <1>2, FS_AddElement
<1>4. Cardinality(({End1} \cup {End2}) \cup {End3}) = 3
  BY <1>2, <1>3, FS_AddElement
<1>5. /\ {End1} \cup {End2} = {End1, End2}
      /\ ({End1} \cup {End2}) \cup {End3} = {End1, End2, End3}
  OBVIOUS
<1> QED
  BY <1>1, <1>3, <1>4, <1>5

\* The newline that ends each line, when the text reaches it.
LEMMA NthOfCut ==
  ASSUME NEW s \in Secrets, NEW n \in 0 .. End4
  PROVE  /\ Nth(Cut(s, n), 1) = IF End1 <= n THEN {End1} ELSE {}
         /\ Nth(Cut(s, n), 2) = IF End2 <= n THEN {End2} ELSE {}
         /\ Nth(Cut(s, n), 3) = IF End3 <= n THEN {End3} ELSE {}
         /\ Nth(Cut(s, n), 4) = {}
<1> DEFINE B == Breaks(Cut(s, n))
           upTo(i) == {j \in B : j <= i}
<1>1. B = {End1, End2, End3} \cap 1 .. n
  BY BreaksOfCut
<1> HIDE DEF B
<1>2. /\ End1 \in B <=> End1 <= n
      /\ End2 \in B <=> End2 <= n
      /\ End3 \in B <=> End3 <= n
      /\ B \subseteq {End1, End2, End3}
  BY <1>1, Layout
<1>3. /\ End1 \in B => upTo(End1) = {End1}
      /\ End2 \in B => upTo(End2) = {End1, End2}
      /\ End3 \in B => upTo(End3) = {End1, End2, End3}
  <2>1. n \in Int /\ End1 \in Int /\ End2 \in Int /\ End3 \in Int
        /\ End1 < End2 /\ End2 < End3
    BY Layout
  <2>2. (End2 \in B => End1 \in B) /\ (End3 \in B => End1 \in B /\ End2 \in B)
    BY <1>2, <2>1
  <2>3. \A j \in B : /\ j <= End1 <=> j = End1
                     /\ j <= End2 <=> j = End1 \/ j = End2
                     /\ j <= End3
    BY <1>2, <2>1
  <2>4. End1 \in B => upTo(End1) = {End1}
    BY <2>3
  <2>5. End2 \in B => upTo(End2) = {End1, End2}
    BY <2>2, <2>3
  <2>6. End3 \in B => upTo(End3) = {End1, End2, End3}
    BY <1>2, <2>2, <2>3
  <2> QED
    BY <2>4, <2>5, <2>6
<1>4. /\ End1 \in B => Cardinality(upTo(End1)) = 1
      /\ End2 \in B => Cardinality(upTo(End2)) = 2
      /\ End3 \in B => Cardinality(upTo(End3)) = 3
  BY <1>3, Counted
<1>5. \A k : Nth(Cut(s, n), k) = {i \in B : Cardinality(upTo(i)) = k}
  BY DEF Nth, B
<1> HIDE DEF upTo
<1>6. \A i : i \in B => i \in {End1, End2, End3}
  BY <1>2
<1>7. /\ Nth(Cut(s, n), 1) = {i \in B : i = End1}
      /\ Nth(Cut(s, n), 2) = {i \in B : i = End2}
      /\ Nth(Cut(s, n), 3) = {i \in B : i = End3}
      /\ Nth(Cut(s, n), 4) = {}
  BY <1>4, <1>5, <1>6
<1> QED
  BY <1>2, <1>7

\* Where each line of a cut text ends.
LEMMA EndsOfCut ==
  ASSUME NEW s \in Secrets, NEW n \in 0 .. End4
  PROVE  /\ EndOf(Cut(s, n), 0) = 0
         /\ EndOf(Cut(s, n), 1) = IF End1 <= n THEN End1 ELSE n
         /\ EndOf(Cut(s, n), 2) = IF End2 <= n THEN End2 ELSE n
         /\ EndOf(Cut(s, n), 3) = IF End3 <= n THEN End3 ELSE n
         /\ EndOf(Cut(s, n), 4) = n
<1>1. ASSUME NEW t, NEW k, k # 0
      PROVE  /\ Nth(t, k) = {} => EndOf(t, k) = Len(t)
             /\ \A p : Nth(t, k) = {p} => EndOf(t, k) = p
  <2>1. EndOf(t, k) =
          CHOOSE i \in Nth(t, k) \cup (IF Nth(t, k) = {} THEN {Len(t)} ELSE {}) : TRUE
    BY <1>1, Zenon DEF EndOf, Nth, Breaks
  <2>2. \A p : (CHOOSE i \in {p} : TRUE) = p
    OBVIOUS
  <2>3. CASE Nth(t, k) = {}
    <3>1. Nth(t, k) \cup (IF Nth(t, k) = {} THEN {Len(t)} ELSE {}) = {Len(t)}
      BY <2>3
    <3> QED
      BY <2>1, <2>2, <2>3, <3>1
  <2>4. ASSUME NEW p, Nth(t, k) = {p} PROVE EndOf(t, k) = p
    <3>1. Nth(t, k) \cup (IF Nth(t, k) = {} THEN {Len(t)} ELSE {}) = {p}
      BY <2>4
    <3> QED
      BY <2>1, <2>2, <3>1
  <2> QED
    BY <2>3, <2>4
<1>2. EndOf(Cut(s, n), 0) = 0
  BY DEF EndOf
<1>3. Len(Cut(s, n)) = n
  BY CutIs
<1>4. ASSUME NEW k, k # 0, NEW e, Nth(Cut(s, n), k) = IF e <= n THEN {e} ELSE {}
      PROVE  EndOf(Cut(s, n), k) = IF e <= n THEN e ELSE n
  <2>1. CASE e <= n
    <3>1. Nth(Cut(s, n), k) = {e}
      BY <1>4, <2>1
    <3> QED
      BY <1>1, <1>4, <2>1, <3>1
  <2>2. CASE ~(e <= n)
    <3>1. Nth(Cut(s, n), k) = {}
      BY <1>4, <2>2
    <3> QED
      BY <1>1, <1>3, <1>4, <2>2, <3>1
  <2> QED
    BY <2>1, <2>2
<1>5. /\ EndOf(Cut(s, n), 1) = IF End1 <= n THEN End1 ELSE n
      /\ EndOf(Cut(s, n), 2) = IF End2 <= n THEN End2 ELSE n
      /\ EndOf(Cut(s, n), 3) = IF End3 <= n THEN End3 ELSE n
  BY <1>4, NthOfCut
<1>6. EndOf(Cut(s, n), 4) = n
  BY <1>1, <1>3, NthOfCut
<1> QED
  BY <1>2, <1>5, <1>6

\* A part of a text.
LEMMA PartIs ==
  ASSUME NEW t \in Seq(Char), NEW m \in Nat, NEW n \in Nat,
         1 <= m, m <= n + 1, n <= Len(t)
  PROVE  /\ SubSeq(t, m, n) \in Seq(Char) /\ Len(SubSeq(t, m, n)) = n - m + 1
         /\ \A i \in 1 .. n - m + 1 : SubSeq(t, m, n)[i] = t[m + i - 1]
<1>1. Len(t) \in Nat
  BY LenProperties
<1>2. \A i \in m .. n : t[i] \in Char
  BY <1>1, ElementOfSeq
<1>3. /\ SubSeq(t, m, n) \in Seq(Char)
      /\ Len(SubSeq(t, m, n)) = IF m <= n THEN n - m + 1 ELSE 0
      /\ \A i \in 1 .. n - m + 1 : SubSeq(t, m, n)[i] = t[m + i - 1]
  BY <1>2, SubSeqProperties
<1>4. ~(m <= n) => n - m + 1 = 0
  OBVIOUS
<1> QED
  BY <1>3, <1>4

\* load_bootstrapping_info accepts only a file that goes into its last line.
LEMMA LoadableCut ==
  ASSUME NEW s \in Secrets, NEW n \in 0 .. End4, Loadable(Cut(s, n))
  PROVE  End3 < n
<1> SUFFICES ASSUME ~(End3 < n) PROVE FALSE
  OBVIOUS
<1>1. n \in Int /\ End3 \in Int
  BY Layout
<1>2. EndOf(Cut(s, n), 3) = n /\ EndOf(Cut(s, n), 4) = n
  <2>1. EndOf(Cut(s, n), 3) = IF End3 <= n THEN End3 ELSE n
    BY EndsOfCut
  <2>2. End3 <= n => End3 = n
    BY <1>1
  <2> QED
    BY <2>1, <2>2, EndsOfCut
<1>3. Line(Cut(s, n), 4) = SubSeq(Cut(s, n), n + 1, n)
  <2>1. 4 - 1 = 3
    OBVIOUS
  <2> QED
    BY <1>2, <2>1, Zenon DEF Line
<1>4. SubSeq(Cut(s, n), n + 1, n) = << >>
  BY <1>1, SubSeqEmpty
<1>5. Line(Cut(s, n), 4) # << >>
  BY DEF Loadable
<1> QED
  BY <1>3, <1>4, <1>5

\* Neither does it accept an empty one.
LEMMA EmptyIsRefused == ~Loadable(<< >>)
<1>1. Line(<< >>, 1) = SubSeq(<< >>, 1, 0)
  <2>1. EndOf(<< >>, 0) = 0
    BY DEF EndOf
  <2>2. Breaks(<< >>) = {} /\ Len(<< >>) = 0
    BY DEF Breaks
  <2>3. Nth(<< >>, 1) = {}
    BY <2>2 DEF Nth
  <2>4. EndOf(<< >>, 1) =
          CHOOSE i \in Nth(<< >>, 1) \cup (IF Nth(<< >>, 1) = {} THEN {Len(<< >>)} ELSE {}) : TRUE
    <3>1. 1 # 0
      OBVIOUS
    <3> QED
      BY <3>1, Zenon DEF EndOf, Nth, Breaks
  <2>5. Nth(<< >>, 1) \cup (IF Nth(<< >>, 1) = {} THEN {Len(<< >>)} ELSE {}) = {0}
    BY <2>2, <2>3
  <2>6. EndOf(<< >>, 1) = 0
    BY <2>4, <2>5
  <2>7. 1 - 1 = 0 /\ 0 + 1 = 1
    OBVIOUS
  <2> QED
    BY <2>1, <2>6, <2>7, Zenon DEF Line
<1>2. SubSeq(<< >>, 1, 0) = << >>
  BY SubSeqEmpty
<1>3. Line(<< >>, 1) = << >>
  BY <1>1, <1>2
<1>4. 1 \in 1 .. 4
  OBVIOUS
<1> QED
  BY <1>3, <1>4 DEF Loadable

\* What the lines of a file are that goes into its last line.
LEMMA LinesOfCut ==
  ASSUME NEW s \in Secrets, NEW n \in 0 .. End4, End3 < n
  PROVE  /\ Line(Cut(s, n), 1) = SubSeq(Cut(s, n), 1, End1)
         /\ Line(Cut(s, n), 2) = SubSeq(Cut(s, n), End1 + 1, End2)
         /\ Line(Cut(s, n), 3) = SubSeq(Cut(s, n), End2 + 1, End3)
         /\ Line(Cut(s, n), 4) = SubSeq(Cut(s, n), End3 + 1, n)
<1>1. /\ EndOf(Cut(s, n), 0) = 0 /\ EndOf(Cut(s, n), 1) = End1
      /\ EndOf(Cut(s, n), 2) = End2 /\ EndOf(Cut(s, n), 3) = End3
      /\ EndOf(Cut(s, n), 4) = n
  <2>1. End1 <= n /\ End2 <= n /\ End3 <= n
    BY Layout
  <2> QED
    BY <2>1, EndsOfCut
<1>2. 1 - 1 = 0 /\ 2 - 1 = 1 /\ 3 - 1 = 2 /\ 4 - 1 = 3 /\ 0 + 1 = 1
  OBVIOUS
<1> QED
  BY <1>1, <1>2, Zenon DEF Line

\* The private key's line.
LEMMA FirstLine ==
  ASSUME NEW s \in Secrets, NEW n \in 0 .. End4, End3 < n
  PROVE  Bytes(Line(Cut(s, n), 1), KeyLen.prv) = s.prv
<1> DEFINE line == SubSeq(Cut(s, n), 1, End1)
<1>1. /\ Cut(s, n) \in Seq(Char) /\ Len(Cut(s, n)) = n
      /\ \A i \in 1 .. n : Cut(s, n)[i] = Text(s)[i]
  BY CutIs
<1>2. /\ Len(line) = End1 - 1 + 1
      /\ \A i \in 1 .. End1 - 1 + 1 : line[i] = Cut(s, n)[1 + i - 1]
  BY <1>1, PartIs, Layout
<1>3. Line(Cut(s, n), 1) = line
  BY LinesOfCut
<1> HIDE DEF line
<1>4. ASSUME NEW i \in 1 .. 2 * KeyLen.prv PROVE line[i] = Hex(s.prv)[i]
  <2>1. i \in 1 .. End1 - 1 + 1 /\ 1 + i - 1 = i /\ i \in 1 .. n
    BY Layout DEF End1
  <2> QED
    BY <1>1, <1>2, <2>1, TextIs
<1>5. Len(line) \in Nat /\ 2 * KeyLen.prv <= Len(line) /\ KeyLen.prv \in Nat
  BY <1>2, Layout DEF End1
<1> QED
  BY <1>3, <1>4, <1>5, SecretIs, BytesBack

\* The identifier's line, without its newline.
LEMMA SecondLine ==
  ASSUME NEW s \in Secrets, NEW n \in 0 .. End4, End3 < n
  PROVE  Chomp(Line(Cut(s, n), 2)) = IdText(s)
<1> DEFINE line == SubSeq(Cut(s, n), End1 + 1, End2)
           id   == SubSeq(line, 1, 2)
<1>1. /\ Cut(s, n) \in Seq(Char) /\ Len(Cut(s, n)) = n
      /\ \A i \in 1 .. n : Cut(s, n)[i] = Text(s)[i]
  BY CutIs
<1>2. End2 - (End1 + 1) + 1 = 3 /\ End1 + 1 <= End2 + 1 /\ End2 <= n
  BY Layout DEF End2
<1>3. /\ line \in Seq(Char) /\ Len(line) = 3
      /\ \A i \in 1 .. 3 : line[i] = Cut(s, n)[End1 + 1 + i - 1]
  BY <1>1, <1>2, PartIs, Layout
<1>4. Line(Cut(s, n), 2) = line
  BY LinesOfCut
<1> HIDE DEF line
<1>5. line[1] = Letter /\ line[2] = s.id
  <2>1. /\ End1 + 1 + 1 - 1 = End1 + 1 /\ End1 + 1 + 2 - 1 = End1 + 2
        /\ End1 + 1 \in 1 .. n /\ End1 + 2 \in 1 .. n
    BY <1>2, Layout DEF End2
  <2> QED
    BY <1>1, <1>3, <2>1, TextIs
<1>6. /\ id \in Seq(Char) /\ Len(id) = 2
      /\ \A i \in 1 .. 2 : id[i] = line[i]
  <2>1. /\ id \in Seq(Char) /\ Len(id) = 2 - 1 + 1
        /\ \A i \in 1 .. 2 - 1 + 1 : id[i] = line[1 + i - 1]
    <3>1. 1 \in Nat /\ 2 \in Nat /\ 1 <= 1 /\ 1 <= 2 + 1 /\ 2 <= Len(line)
      BY <1>3
    <3> QED
      BY <1>3, <3>1, PartIs, Zenon
  <2>2. 2 - 1 + 1 = 2 /\ \A i \in 1 .. 2 : 1 + i - 1 = i
    OBVIOUS
  <2> QED
    BY <2>1, <2>2
<1>7. Chomp(line) = id
  BY <1>3 DEF Chomp
<1> HIDE DEF id
<1>8. id[1] = Letter /\ id[2] = s.id
  BY <1>5, <1>6
<1>9. /\ IdText(s) \in Seq(Char) /\ Len(IdText(s)) = 2
      /\ IdText(s)[1] = Letter /\ IdText(s)[2] = s.id
  BY Layout, SecretIs DEF IdText
<1>10. \A i \in 1 .. Len(id) : id[i] = IdText(s)[i]
  BY <1>6, <1>8, <1>9
<1>11. id = IdText(s)
  BY <1>6, <1>9, <1>10, SeqEqual
<1> QED
  BY <1>4, <1>7, <1>11

\* The public key's line: its digits, and the key.
LEMMA ThirdLine ==
  ASSUME NEW s \in Secrets, NEW n \in 0 .. End4, End3 < n
  PROVE  /\ Chomp(Line(Cut(s, n), 3)) = Hex(s.pub)
         /\ Bytes(Line(Cut(s, n), 3), KeyLen.pub) = s.pub
<1> DEFINE line == SubSeq(Cut(s, n), End2 + 1, End3)
           m    == 2 * KeyLen.pub
           hex  == SubSeq(line, 1, m)
<1>1. /\ Cut(s, n) \in Seq(Char) /\ Len(Cut(s, n)) = n
      /\ \A i \in 1 .. n : Cut(s, n)[i] = Text(s)[i]
  BY CutIs
<1>2. /\ m \in Nat /\ m > 0 /\ End3 - (End2 + 1) + 1 = m + 1
      /\ End2 + 1 <= End3 + 1 /\ End3 <= n /\ KeyLen.pub \in Nat
  BY Layout DEF End3
<1>3. /\ line \in Seq(Char) /\ Len(line) = m + 1
      /\ \A i \in 1 .. m + 1 : line[i] = Cut(s, n)[End2 + 1 + i - 1]
  BY <1>1, <1>2, PartIs, Layout
<1>4. Line(Cut(s, n), 3) = line
  BY LinesOfCut
<1> HIDE DEF line
<1>5. ASSUME NEW i \in 1 .. m PROVE line[i] = Hex(s.pub)[i]
  <2>1. /\ i \in 1 .. m + 1 /\ End2 + 1 + i - 1 = End2 + i /\ End2 + i \in 1 .. n
    BY <1>2, Layout
  <2>2. Text(s)[End2 + i] = Hex(s.pub)[i]
    BY TextIs
  <2> QED
    BY <1>1, <1>3, <2>1, <2>2
<1>6. Hex(s.pub) \in Seq(Char) /\ Len(Hex(s.pub)) = m
  <2>1. Hex(s.pub) \in Seq(Digits) /\ Len(Hex(s.pub)) = m
    BY <1>2, SecretIs, HexIs
  <2> QED
    BY <2>1, Layout, SeqMonotonic
<1>7. Bytes(line, KeyLen.pub) = s.pub
  <2>1. Len(line) \in Nat /\ m <= Len(line)
    BY <1>2, <1>3
  <2> QED
    BY <1>2, <1>5, <2>1, SecretIs, BytesBack
<1> HIDE DEF m
<1>8. /\ hex \in Seq(Char) /\ Len(hex) = m
      /\ \A i \in 1 .. m : hex[i] = line[i]
  <2>1. 1 <= m + 1 /\ m <= Len(line) /\ m - 1 + 1 = m /\ \A i \in 1 .. m : 1 + i - 1 = i
    BY <1>2, <1>3
  <2>2. /\ hex \in Seq(Char) /\ Len(hex) = m - 1 + 1
        /\ \A i \in 1 .. m - 1 + 1 : hex[i] = line[1 + i - 1]
    BY <1>2, <1>3, <2>1, PartIs
  <2> QED
    BY <2>1, <2>2
<1>9. Chomp(line) = hex
  <2>1. Len(line) - 1 = m
    BY <1>2, <1>3
  <2> QED
    BY <2>1, Zenon DEF Chomp, hex
<1> HIDE DEF hex
<1>10. hex = Hex(s.pub)
  <2>1. \A i \in 1 .. Len(hex) : hex[i] = Hex(s.pub)[i]
    BY <1>5, <1>8 DEF m
  <2> QED
    BY <1>6, <1>8, <2>1, SeqEqual
<1> QED
  BY <1>4, <1>7, <1>9, <1>10

\* The HMAC key's line: as many of its digits as there are.
LEMMA FourthLine ==
  ASSUME NEW s \in Secrets, NEW n \in 0 .. End4, End3 < n
  PROVE  Line(Cut(s, n), 4) = SubSeq(Hex(s.hmac), 1, n - End3)
<1> DEFINE line == SubSeq(Cut(s, n), End3 + 1, n)
           m    == n - End3
           hex  == SubSeq(Hex(s.hmac), 1, m)
<1>1. /\ Cut(s, n) \in Seq(Char) /\ Len(Cut(s, n)) = n
      /\ \A i \in 1 .. n : Cut(s, n)[i] = Text(s)[i]
  BY CutIs
<1>2. /\ m \in Nat /\ m <= 2 * KeyLen.hmac /\ n - (End3 + 1) + 1 = m /\ n \in Nat
      /\ End3 + 1 <= n + 1 /\ End3 + 1 \in Nat /\ 1 <= End3 + 1
  BY Layout DEF End4
<1>3. /\ line \in Seq(Char) /\ Len(line) = m
      /\ \A i \in 1 .. m : line[i] = Cut(s, n)[End3 + 1 + i - 1]
  BY <1>1, <1>2, PartIs
<1>4. Line(Cut(s, n), 4) = line
  BY LinesOfCut
<1> HIDE DEF line
<1>5. ASSUME NEW i \in 1 .. m PROVE line[i] = Hex(s.hmac)[i]
  <2>1. /\ i \in 1 .. 2 * KeyLen.hmac /\ End3 + 1 + i - 1 = End3 + i /\ End3 + i \in 1 .. n
    BY <1>2, Layout
  <2>2. Text(s)[End3 + i] = Hex(s.hmac)[i]
    BY <2>1, TextIs
  <2> QED
    BY <1>1, <1>3, <2>1, <2>2
<1>6. Hex(s.hmac) \in Seq(Char) /\ Len(Hex(s.hmac)) = 2 * KeyLen.hmac
  <2>1. Hex(s.hmac) \in Seq(Digits) /\ Len(Hex(s.hmac)) = 2 * KeyLen.hmac
    BY Layout, SecretIs, HexIs
  <2> QED
    BY <2>1, Layout, SeqMonotonic
<1> HIDE DEF m
<1>7. /\ hex \in Seq(Char) /\ Len(hex) = m
      /\ \A i \in 1 .. m : hex[i] = Hex(s.hmac)[i]
  <2>1. 1 <= m + 1 /\ m <= Len(Hex(s.hmac)) /\ m - 1 + 1 = m /\ \A i \in 1 .. m : 1 + i - 1 = i
    BY <1>2, <1>6
  <2>2. /\ hex \in Seq(Char) /\ Len(hex) = m - 1 + 1
        /\ \A i \in 1 .. m - 1 + 1 : hex[i] = Hex(s.hmac)[1 + i - 1]
    BY <1>2, <1>6, <2>1, PartIs
  <2> QED
    BY <2>1, <2>2
<1> HIDE DEF hex
<1>8. line = hex
  <2>1. \A i \in 1 .. Len(line) : line[i] = hex[i]
    BY <1>3, <1>5, <1>7
  <2> QED
    BY <1>3, <1>7, <2>1, SeqEqual
<1> QED
  BY <1>4, <1>8 DEF hex, m

\* The whole text, and what is read out of its last line.
LEMMA WholeText ==
  ASSUME NEW s \in Secrets
  PROVE  /\ Cut(s, End4) = Text(s)
         /\ Line(Text(s), 4) = Hex(s.hmac)
         /\ Bytes(Line(Text(s), 4), KeyLen.hmac) = s.hmac
<1>1. Text(s) \in Seq(Char) /\ Len(Text(s)) = End4
  BY TextIs
<1>2. Cut(s, End4) = Text(s)
  <2>1. SubSeq(Text(s), 1, Len(Text(s))) = Text(s)
    BY <1>1, SubSeqFull
  <2> QED
    BY <1>1, <2>1, Zenon DEF Cut
<1>3. End4 \in 0 .. End4 /\ End3 < End4 /\ End4 - End3 = 2 * KeyLen.hmac /\ KeyLen.hmac \in Nat
  BY Layout DEF End4
<1>4. Hex(s.hmac) \in Seq(Digits) /\ Len(Hex(s.hmac)) = 2 * KeyLen.hmac
  BY <1>3, SecretIs, HexIs
<1>5. Line(Text(s), 4) = Hex(s.hmac)
  <2>1. Line(Cut(s, End4), 4) = SubSeq(Hex(s.hmac), 1, End4 - End3)
    BY <1>3, FourthLine
  <2>2. SubSeq(Hex(s.hmac), 1, Len(Hex(s.hmac))) = Hex(s.hmac)
    BY <1>4, SubSeqFull
  <2> QED
    BY <1>2, <1>3, <1>4, <2>1, <2>2
<1>6. Len(Hex(s.hmac)) \in Nat /\ 2 * KeyLen.hmac <= Len(Hex(s.hmac))
  BY <1>3, <1>4
<1>7. Bytes(Hex(s.hmac), KeyLen.hmac) = s.hmac
  BY <1>3, <1>6, SecretIs, BytesBack
<1> QED
  BY <1>2, <1>5, <1>7

-----------------------------------------------------------------------------
(* The invariant. *)

\* A file, or a copy of it: empty, or the text of some of the secrets, cut.
FileOf(t, some) == t = << >> \/ \E s \in some : \E n \in 0 .. End4 : t = Cut(s, n)

\* What QR_encoder shows of a file.
Code(t) ==
  [id |-> Chomp(Line(t, 2)), pub |-> Chomp(Line(t, 3)), sym |-> Line(t, 4), from |-> t]

\* The programs, and a flag that is set only in the loop.
Programs ==
  /\ stage \in [Device -> Stage] /\ signalled \in [Device -> Stage]
  /\ running \in [Device -> BOOLEAN]
  /\ \A d \in Device : running[d] => stage[d] \in {"loop", "turn"}

\* The files, wherever the generator has stopped.
Files ==
  /\ made \subseteq Secrets
  /\ writing = {} \/ \E s \in made : writing = {s}
  /\ FileOf(text, made)
  /\ DOMAIN copy = Device /\ \A d \in Device : FileOf(copy[d], made)

\* Only a file that goes into its last line is loaded.
Told ==
  /\ DOMAIN info = Device
  /\ \A d \in Device :
       info[d] = {} \/ \E s \in made : \E n \in 0 .. End4 :
                         End3 < n /\ info[d] = {Loaded(Cut(s, n))}

\* The code is that of a file the controller has read.
Shown == qr = {} \/ \E t : FileOf(t, made) /\ qr = {Code(t)}

IInv == Programs /\ Files /\ Told /\ Shown

\* The start.
LEMMA InitInv == Init => IInv
<1> SUFFICES ASSUME Init PROVE IInv
  OBVIOUS
<1>1. Programs
  BY DEF Init, Programs, Stage
<1>2. Files
  BY DEF Init, Files, FileOf
<1>3. Told
  BY DEF Init, Told
<1>4. Shown
  BY DEF Init, Shown
<1> QED
  BY <1>1, <1>2, <1>3, <1>4 DEF IInv

\* Secrets that are added take no file away.
LEMMA FilesStay ==
  ASSUME IInv, made \subseteq made'
  PROVE  /\ \A t : FileOf(t, made) => FileOf(t, made')
         /\ info' = info => Told'
         /\ qr' = qr => Shown'
<1>1. \A t : FileOf(t, made) => FileOf(t, made')
  BY DEF FileOf
<1>2. info' = info => Told'
  <2> SUFFICES ASSUME info' = info PROVE Told'
    OBVIOUS
  <2> QED
    BY DEF IInv, Told
<1>3. qr' = qr => Shown'
  BY <1>1 DEF IInv, Shown
<1> QED
  BY <1>1, <1>2, <1>3

\* The generator, the user and QR_encoder.
LEMMA FileSteps ==
  ASSUME IInv, GenerateOpens \/ GenerateCloses \/ EncodeQR \/ (\E d \in Device : Copy(d))
  PROVE  IInv'
<1>1. UNCHANGED device /\ made \subseteq made'
  BY DEF GenerateOpens, GenerateCloses, EncodeQR, Copy, files
<1>2. Programs' /\ Told'
  <2>1. Programs'
    BY <1>1 DEF IInv, Programs, device
  <2>2. Told'
    BY <1>1, FilesStay DEF device
  <2> QED
    BY <2>1, <2>2
<1>3. CASE GenerateOpens
  <2>1. PICK s \in Secrets \ made : writing' = {s} /\ made' = made \cup {s}
    BY <1>3 DEF GenerateOpens
  <2>2. text' = << >> /\ copy' = copy /\ qr' = qr
    BY <1>3 DEF GenerateOpens
  <2>3. \A t : FileOf(t, made) => FileOf(t, made')
    BY <1>1, FilesStay
  <2>4. FileOf(text', made')
    BY <2>2 DEF FileOf
  <2>5. Files'
    BY <2>1, <2>2, <2>3, <2>4 DEF IInv, Files
  <2>6. Shown'
    BY <1>1, <2>2, FilesStay
  <2> QED
    BY <1>2, <2>5, <2>6 DEF IInv
<1>4. CASE GenerateCloses
  <2>1. PICK s \in writing : \E n \in 0 .. Len(Text(s)) : text' = SubSeq(Text(s), 1, n)
    BY <1>4 DEF GenerateCloses
  <2>2. writing' = {} /\ made' = made /\ copy' = copy /\ qr' = qr
    BY <1>4 DEF GenerateCloses
  <2>3. s \in made /\ s \in Secrets
    BY <2>1 DEF IInv, Files
  <2>4. Len(Text(s)) = End4
    BY <2>3, TextIs
  <2>5. FileOf(text', made')
    BY <2>1, <2>2, <2>3, <2>4 DEF FileOf, Cut
  <2>6. Files'
    BY <2>2, <2>5 DEF IInv, Files
  <2>7. Shown'
    BY <1>1, <2>2, FilesStay
  <2> QED
    BY <1>2, <2>6, <2>7 DEF IInv
<1>5. CASE EncodeQR
  <2>1. UNCHANGED <<made, writing, text, copy>> /\ qr' = {Code(text)}
    BY <1>5, Zenon DEF EncodeQR, Code
  <2>2. Files'
    BY <2>1 DEF IInv, Files
  <2>3. Shown'
    BY <2>1 DEF IInv, Files, Shown
  <2> QED
    BY <1>2, <2>2, <2>3 DEF IInv
<1>6. ASSUME NEW d \in Device, Copy(d) PROVE IInv'
  <2>1. UNCHANGED <<made, writing, text, qr>> /\ copy' = [copy EXCEPT ![d] = text]
    BY <1>6 DEF Copy
  <2>2. Files'
    BY <2>1 DEF IInv, Files
  <2>3. Shown'
    BY <1>1, <2>1, FilesStay
  <2> QED
    BY <1>2, <2>2, <2>3 DEF IInv
<1> QED
  BY <1>3, <1>4, <1>5, <1>6

\* A file that load_bootstrapping_info accepts.
LEMMA LoadTells ==
  ASSUME IInv, NEW d \in Device, Loadable(copy[d])
  PROVE  \E s \in made : \E n \in 0 .. End4 : End3 < n /\ copy[d] = Cut(s, n)
<1>1. copy[d] # << >>
  BY EmptyIsRefused
<1>2. PICK s \in made : \E n \in 0 .. End4 : copy[d] = Cut(s, n)
  BY <1>1 DEF IInv, Files, FileOf
<1>3. PICK n \in 0 .. End4 : copy[d] = Cut(s, n)
  BY <1>2
<1>4. s \in Secrets /\ Loadable(Cut(s, n))
  BY <1>3 DEF IInv, Files
<1>5. End3 < n
  BY <1>4, LoadableCut
<1> QED
  BY <1>3, <1>5

\* A device program: its main and its signals.
LEMMA ProgramSteps ==
  ASSUME IInv, NEW d \in Device, Launch(d) \/ Main(d) \/ Signal(d)
  PROVE  IInv'
<1>1. UNCHANGED files
  BY DEF Launch, Main, InstallHandlers, Load, SetUp, EnterLoop, Turn, Leave, Signal
<1>2. Files' /\ Shown'
  <2>1. Files'
    BY <1>1 DEF IInv, Files, files
  <2>2. Shown'
    BY <1>1, FilesStay DEF files
  <2> QED
    BY <2>1, <2>2
<1>3. Told'
  <2>1. CASE Load(d)
    <3>1. CASE Loadable(copy[d])
      <4>1. info' = [info EXCEPT ![d] = {Loaded(copy[d])}]
        BY <2>1, <3>1 DEF Load
      <4>2. PICK s \in made : \E n \in 0 .. End4 : End3 < n /\ copy[d] = Cut(s, n)
        BY <3>1, LoadTells
      <4>3. PICK n \in 0 .. End4 : End3 < n /\ copy[d] = Cut(s, n)
        BY <4>2
      <4>4. info' = [info EXCEPT ![d] = {Loaded(Cut(s, n))}]
        BY <4>1, <4>3
      <4>5. made' = made
        BY <1>1 DEF files
      <4> QED
        BY <4>3, <4>4, <4>5 DEF IInv, Told
    <3>2. CASE ~Loadable(copy[d])
      <4>1. info' = info
        BY <2>1, <3>2 DEF Load
      <4> QED
        BY <1>1, <4>1, FilesStay DEF files
    <3> QED
      BY <3>1, <3>2
  <2>2. CASE ~Load(d)
    <3>1. info' = info
      BY <2>2 DEF Launch, Main, InstallHandlers, SetUp, EnterLoop, Turn, Leave, Signal
    <3> QED
      BY <1>1, <3>1, FilesStay DEF files
  <2> QED
    BY <2>1, <2>2
<1>4. Programs'
  <2> USE DEF IInv, Programs, Stage, Before, Over, Goes
  <2>1. CASE Launch(d)
    BY <2>1 DEF Launch
  <2>2. CASE InstallHandlers(d)
    BY <2>2 DEF InstallHandlers
  <2>3. CASE Load(d)
    BY <2>3 DEF Load
  <2>4. CASE SetUp(d)
    BY <2>4 DEF SetUp
  <2>5. CASE EnterLoop(d)
    BY <2>5 DEF EnterLoop
  <2>6. CASE Turn(d)
    BY <2>6 DEF Turn
  <2>7. CASE Leave(d)
    BY <2>7 DEF Leave
  <2>8. CASE Signal(d)
    BY <2>8 DEF Signal, SignalHandler
  <2> QED
    BY <2>1, <2>2, <2>3, <2>4, <2>5, <2>6, <2>7, <2>8 DEF Main
<1> QED
  BY <1>2, <1>3, <1>4 DEF IInv

\* The invariant of the device programs and their files holds throughout.
THEOREM InvariantHolds == Spec => []IInv
<1>1. ASSUME IInv, [Next]_vars PROVE IInv'
  <2>1. CASE Next
    BY <1>1, <2>1, FileSteps, ProgramSteps DEF Next
  <2>2. CASE UNCHANGED vars
    <3>1. UNCHANGED files /\ UNCHANGED device
      BY <2>2 DEF vars
    <3>2. Files' /\ Programs'
      BY <1>1, <3>1 DEF IInv, Files, Programs, files, device
    <3>3. Told' /\ Shown'
      BY <1>1, <3>1, FilesStay DEF files, device
    <3> QED
      BY <3>2, <3>3 DEF IInv
  <2> QED
    BY <1>1, <2>1, <2>2
<1> QED
  BY InitInv, <1>1, PTL DEF Spec

-----------------------------------------------------------------------------
(* The properties. *)

\* The variables of the files and the device programs have their types, at most
\* one set of secrets waits in the generator, and the flag of the main loop is
\* set only in it.
THEOREM TypeCorrect == Spec => []TypeOK
<1>1. ASSUME IInv PROVE TypeOK
  <2>0. \A S : S = {} \/ (\E x : S = {x}) => Cardinality(S) <= 1
    BY FS_EmptySet, FS_Singleton
  <2>1. made \subseteq Secrets /\ writing \subseteq made
    BY <1>1 DEF IInv, Files
  <2>2. Cardinality(writing) <= 1
    <3>1. writing = {} \/ \E s : writing = {s}
      BY <1>1 DEF IInv, Files
    <3> QED
      BY <2>0, <3>1
  <2>3. ASSUME NEW t, FileOf(t, made) PROVE \A i \in DOMAIN t : t[i] \in Char
    <3>1. CASE t = << >>
      BY <3>1
    <3>2. ASSUME NEW s \in made, NEW n \in 0 .. End4, t = Cut(s, n)
          PROVE  \A i \in DOMAIN t : t[i] \in Char
      <4>1. t \in Seq(Char)
        BY <2>1, <3>2, CutIs
      <4> QED
        BY <4>1, LenProperties, ElementOfSeq
    <3> QED
      BY <2>3, <3>1, <3>2 DEF FileOf
  <2>4. \A t \in {text} \cup {copy[d] : d \in Device} : \A i \in DOMAIN t : t[i] \in Char
    BY <1>1, <2>3 DEF IInv, Files
  <2>5. Cardinality(qr) <= 1
    <3>1. qr = {} \/ \E c : qr = {c}
      BY <1>1 DEF IInv, Shown
    <3> QED
      BY <2>0, <3>1
  <2>6. \A d \in Device : Cardinality(info[d]) <= 1
    <3>1. \A d \in Device : info[d] = {} \/ \E i : info[d] = {i}
      BY <1>1 DEF IInv, Told
    <3> QED
      BY <2>0, <3>1
  <2> QED
    BY <1>1, <2>1, <2>2, <2>4, <2>5, <2>6 DEF IInv, Programs, TypeOK
<1> QED
  BY <1>1, InvariantHolds, PTL

\* What a record of load_bootstrapping_info holds of a file that goes into its
\* last line.
LEMMA LoadedIs ==
  ASSUME NEW s \in Secrets, NEW n \in 0 .. End4, End3 < n
  PROVE  /\ Loaded(Cut(s, n)).prv = s.prv
         /\ Loaded(Cut(s, n)).id = IdText(s)
         /\ Loaded(Cut(s, n)).pub = s.pub
         /\ Loaded(Cut(s, n)).hmac = Bytes(SubSeq(Hex(s.hmac), 1, n - End3), KeyLen.hmac)
         /\ Loaded(Cut(s, n)).from = Cut(s, n)
<1>1. \A t : /\ Loaded(t).prv = Bytes(Line(t, 1), KeyLen.prv)
             /\ Loaded(t).id = Chomp(Line(t, 2))
             /\ Loaded(t).pub = Bytes(Line(t, 3), KeyLen.pub)
             /\ Loaded(t).hmac = Bytes(Line(t, 4), KeyLen.hmac)
             /\ Loaded(t).from = t
  BY DEF Loaded
<1> QED
  BY <1>1, FirstLine, SecondLine, ThirdLine, FourthLine

\* load_bootstrapping_info takes the private key, the identifier and the public
\* key of one run of the generator, whole, and of its HMAC key all the digits
\* there are, at least one, wherever the file has been cut.
THEOREM LoadedIsMade == Spec => []LoadedWasMade
<1>1. ASSUME IInv PROVE LoadedWasMade
  <2> SUFFICES ASSUME NEW d \in Device, NEW i \in info[d]
               PROVE  \E s \in made :
                        /\ i.prv = s.prv /\ i.id = IdText(s) /\ i.pub = s.pub
                        /\ \E n \in 1 .. 2 * KeyLen.hmac :
                             i.hmac = Bytes(SubSeq(Hex(s.hmac), 1, n), KeyLen.hmac)
    BY DEF LoadedWasMade
  <2>1. PICK s \in made, n \in 0 .. End4 : End3 < n /\ i = Loaded(Cut(s, n))
    BY <1>1 DEF IInv, Told
  <2>2. s \in Secrets
    BY <1>1 DEF IInv, Files
  <2>3. n - End3 \in 1 .. 2 * KeyLen.hmac
    BY <2>1, Layout DEF End4
  <2> QED
    BY <2>1, <2>2, <2>3, LoadedIs
<1> QED
  BY <1>1, InvariantHolds, PTL

\* A device and a QR code made from the same whole file agree on the
\* identifier, the public key and the shared secret.
THEOREM PairsAlike == Spec => []PairedAlike
<1>1. ASSUME IInv PROVE PairedAlike
  <2> SUFFICES ASSUME NEW d \in Device, NEW i \in info[d], NEW q \in qr,
                      i.from = q.from, NEW s \in made, i.from = Text(s)
               PROVE  q.id = i.id /\ q.pub = Hex(i.pub) /\ q.sym = Hex(i.hmac)
    BY DEF PairedAlike
  <2>1. s \in Secrets
    BY <1>1 DEF IInv, Files
  <2>2. i = Loaded(Text(s))
    <3>1. PICK r \in made, n \in 0 .. End4 : End3 < n /\ i = Loaded(Cut(r, n))
      BY <1>1 DEF IInv, Told
    <3>2. r \in Secrets
      BY <1>1 DEF IInv, Files
    <3>3. i.from = Cut(r, n)
      BY <3>1, <3>2, LoadedIs
    <3> QED
      BY <3>1, <3>3
  <2>3. /\ q.id = Chomp(Line(Text(s), 2)) /\ q.pub = Chomp(Line(Text(s), 3))
        /\ q.sym = Line(Text(s), 4)
    <3>1. PICK t : q = Code(t)
      BY <1>1 DEF IInv, Shown
    <3>2. /\ q.id = Chomp(Line(t, 2)) /\ q.pub = Chomp(Line(t, 3))
          /\ q.sym = Line(t, 4) /\ q.from = t
      BY <3>1 DEF Code
    <3>3. t = Text(s)
      BY <3>2
    <3> QED
      BY <3>2, <3>3
  <2>4. End4 \in 0 .. End4 /\ End3 < End4
    BY Layout
  <2>5. Cut(s, End4) = Text(s)
    BY <2>1, WholeText
  <2>6. /\ Chomp(Line(Text(s), 2)) = IdText(s) /\ Chomp(Line(Text(s), 3)) = Hex(s.pub)
        /\ Line(Text(s), 4) = Hex(s.hmac)
    BY <2>1, <2>4, <2>5, SecondLine, ThirdLine, WholeText
  <2>7. i.id = IdText(s) /\ i.pub = s.pub
    BY <2>1, <2>2, <2>4, <2>5, LoadedIs
  <2>8. i.hmac = s.hmac
    <3>1. i.hmac = Bytes(Line(Text(s), 4), KeyLen.hmac)
      BY <2>2 DEF Loaded
    <3> QED
      BY <2>1, <3>1, WholeText
  <2> QED
    BY <2>3, <2>6, <2>7, <2>8
<1> QED
  BY <1>1, InvariantHolds, PTL
=============================================================================
