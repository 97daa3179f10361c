---------------------------- MODULE DecodeProofs ----------------------------
(***************************************************************************)
(* The decoder, on every text: no byte is written outside the buffer nor   *)
(* one already written changed; what is accepted holds no foreign          *)
(* character; its two tiers, the scan by whole groups and the report by    *)
(* characters, agree on which texts are malformed; and the fault reported  *)
(* is the first of the text, at its place in it.                           *)
(* Every spelling of some data is decoded to that data, whatever else is   *)
(* scanned to its end was marked by what it was decoded to, and a text of  *)
(* block groups alone is accepted only as the one its bytes are encoded to.*)
(*                                                                         *)
(* The tiers are compared by a walk both of them make: from a token to the *)
(* next, TokenLen being the length of the one that begins at a position.   *)
(* The other decoders make that walk as well: in the second half what it   *)
(* says a text means, bytes or the fault of the first place no token       *)
(* begins, is shown to be what C, Rust, Go, TypeScript and Python return.  *)
(***************************************************************************)
EXTENDS Differential, WireProofs

-----------------------------------------------------------------------------
(* The walk.                                                               *)

\* The n characters of s after the first p are of the alphabet.
Clean(s, p, n) == \A i \in (p + 1)..(p + n) : s[i] \in AlphabetN

GroupOf(s, p) == SubSeq(s, p + 1, p + 5)
ValueAt(s, p) == WeighDigits(Values(GroupOf(s, p)))
Announced(s, p) == SplitDp(ValueAt(s, p) - DpSignalBase).len
AtSignal(s, p) == ValueAt(s, p) \in DpSignalBase..(FillSignalBase - 1)
LastOf(s, p) == SubSeq(s, p + 1, Len(s))

\* The length of the token of s that begins after its first p characters, or 0
\* where none does.
TokenLen(s, p) ==
  LET left == Len(s) - p
  IN  IF left >= 5
      THEN IF ~Clean(s, p, 5) \/ ValueAt(s, p) >= FutureSignalBase THEN 0
           ELSE IF ~AtSignal(s, p) THEN 5
           ELSE IF left - 5 >= Announced(s, p) /\ Clean(s, p + 5, Announced(s, p))
           THEN 5 + Announced(s, p) ELSE 0
      ELSE IF left > 1 /\ Clean(s, p, left) /\ TailAccepted(Values(LastOf(s, p)))
           THEN left ELSE 0

\* A set of positions of s that holds with each the end of its token.
Closed(s, S) ==
  /\ S \subseteq 0..Len(s)
  /\ \A p \in S : TokenLen(s, p) # 0 => p + TokenLen(s, p) \in S

\* What the walk reaches from q.
ReachFrom(s, q) ==
  {p \in 0..Len(s) : \A S \in SUBSET (0..Len(s)) : Closed(s, S) /\ q \in S => p \in S}

\* Where it cannot go on.
Stuck(s, p) == p < Len(s) /\ TokenLen(s, p) = 0

\* Characters of a text at a position.
LEMMA PartOf ==
  ASSUME NEW s \in Seq(Char), NEW p \in Nat, NEW n \in Nat, p + n <= Len(s)
  PROVE  /\ SubSeq(s, p + 1, p + n) \in Seq(Char)
         /\ Len(SubSeq(s, p + 1, p + n)) = n
         /\ \A i \in 1..n : SubSeq(s, p + 1, p + n)[i] = s[p + i]
BY PartIn

\* A character has one value.
LEMMA ValuesLength ==
  ASSUME NEW s \in Seq(Char)
  PROVE  Len(Values(s)) = Len(s)
<1>1. Len(s) \in Nat
  BY LenProperties
<1> DEFINE v == Values(s)
<1>2. DOMAIN v = 1..Len(s) /\ v = [i \in 1..Len(s) |-> v[i]]
  BY DEF Values
<1> HIDE DEF v
<1> QED BY <1>1, <1>2 DEF v

\* They are digits when they are clean.
LEMMA CleanPart ==
  ASSUME NEW s \in Seq(Char), NEW p \in Nat, NEW n \in Nat, p + n <= Len(s),
         NEW g, g = SubSeq(s, p + 1, p + n)
  PROVE  /\ Clean(s, p, n) <=> \A i \in 1..n : g[i] \in AlphabetN
         /\ Clean(s, p, n) <=> \A i \in 1..n : ValueOf(g[i]) # NoValue
         /\ Clean(s, p, n) => Values(g) \in Seq(Digit)
<1>1. g \in Seq(Char) /\ Len(g) = n /\ \A i \in 1..n : g[i] = s[p + i]
  BY PartOf
<1>2. (\A i \in 1..n : g[i] \in AlphabetN) <=> Clean(s, p, n)
  <2>1. \A i \in (p + 1)..(p + n) : i - p \in 1..n /\ p + (i - p) = i
    OBVIOUS
  <2>2. \A i \in 1..n : p + i \in (p + 1)..(p + n)
    OBVIOUS
  <2> QED BY <1>1, <2>1, <2>2 DEF Clean
<1>3. \A i \in 1..n : ValueOf(g[i]) # NoValue <=> g[i] \in AlphabetN
  <2>1. \A i \in 1..n : g[i] \in Char
    BY <1>1, ElementOfSeq
  <2> QED BY <2>1, ValueOfDigit
<1> QED BY <1>1, <1>2, <1>3, ValuesAreDigits

\* A clean group's value, weighed or read digit by digit.
LEMMA CleanValue ==
  ASSUME NEW s \in Seq(Char), NEW p \in Nat, p + 5 <= Len(s), Clean(s, p, 5)
  PROVE  ValueAt(s, p) \in Nat /\ ValueAt(s, p) = DigitsToValue(Values(GroupOf(s, p)))
<1> DEFINE h == GroupOf(s, p)
<1>1. h = SubSeq(s, p + 1, p + 5) /\ 5 \in Nat
  BY DEF GroupOf
<1> HIDE DEF h
<1>2. h \in Seq(Char) /\ Len(h) = 5
  BY <1>1, PartOf
<1>3. Values(h) \in Seq(Digit)
  BY <1>1, CleanPart
<1>4. Len(Values(h)) = 5
  BY <1>2, ValuesLength
<1> QED BY <1>3, <1>4, WeightIsNat, WeighAgrees DEF ValueAt, h

\* What a signal announces is at least a character.
LEMMA AnnouncedLength ==
  ASSUME NEW s \in Seq(Char), NEW p \in Nat, p + 5 <= Len(s), Clean(s, p, 5), AtSignal(s, p)
  PROVE  Announced(s, p) \in Nat \ {0}
<1>1. ValueAt(s, p) - DpSignalBase \in Nat
  BY CleanValue, RangeTypes DEF AtSignal
<1>2. 1..MaxDpSegment \subseteq Nat \ {0}
  BY ThresholdsAssumption
<1> QED BY <1>1, <1>2, SegmentLength DEF Announced

\* A token ends inside the text and is clean.
LEMMA TokenRange ==
  ASSUME NEW s \in Seq(Char), NEW p \in 0..Len(s)
  PROVE  /\ TokenLen(s, p) \in 0..(Len(s) - p)
         /\ Clean(s, p, TokenLen(s, p))
<1> DEFINE n == Len(s)  left == n - p
<1>1. n \in Nat /\ p \in Nat /\ left \in Nat
  BY LenProperties
<1>2. Clean(s, p, 0)
  BY <1>1 DEF Clean
<1>3. CASE left >= 5
  <2>1. CASE ~Clean(s, p, 5) \/ ValueAt(s, p) >= FutureSignalBase
    <3>1. TokenLen(s, p) = 0
      BY <1>3, <2>1 DEF TokenLen
    <3> QED BY <1>1, <1>2, <3>1
  <2>2. CASE Clean(s, p, 5) /\ ~(ValueAt(s, p) >= FutureSignalBase) /\ ~AtSignal(s, p)
    <3>1. TokenLen(s, p) = 5
      BY <1>3, <2>2 DEF TokenLen
    <3> QED BY <1>1, <1>3, <2>2, <3>1
  <2>3. CASE Clean(s, p, 5) /\ ~(ValueAt(s, p) >= FutureSignalBase) /\ AtSignal(s, p)
    <3> DEFINE a == Announced(s, p)
    <3>1. TokenLen(s, p) = IF left - 5 >= a /\ Clean(s, p + 5, a) THEN 5 + a ELSE 0
      BY <1>3, <2>3 DEF TokenLen
    <3>2. a \in Nat \ {0}
      BY <1>1, <1>3, <2>3, AnnouncedLength
    <3> HIDE DEF a
    <3>3. Clean(s, p, 5) /\ Clean(s, p + 5, a) => Clean(s, p, 5 + a)
      BY <1>1, <3>2 DEF Clean
    <3>4. CASE left - 5 >= a /\ Clean(s, p + 5, a)
      BY <1>1, <2>3, <3>1, <3>2, <3>3, <3>4
    <3>5. CASE ~(left - 5 >= a /\ Clean(s, p + 5, a))
      BY <1>1, <1>2, <3>1, <3>5
    <3> QED BY <3>4, <3>5
  <2> QED BY <2>1, <2>2, <2>3
<1>4. CASE ~(left >= 5)
  <2>1. TokenLen(s, p) = IF left > 1 /\ Clean(s, p, left) /\ TailAccepted(Values(LastOf(s, p)))
                         THEN left ELSE 0
    BY <1>4 DEF TokenLen
  <2> QED BY <1>1, <1>2, <2>1
<1> QED BY <1>3, <1>4

\* The walk reaches where it starts, and from where it is the end of a token.
LEMMA ReachStep ==
  ASSUME NEW s \in Seq(Char), NEW q \in 0..Len(s)
  PROVE  /\ q \in ReachFrom(s, q)
         /\ \A p \in ReachFrom(s, q) :
              TokenLen(s, p) # 0 => p + TokenLen(s, p) \in ReachFrom(s, q)
<1>1. \A p \in 0..Len(s) : p + TokenLen(s, p) \in 0..Len(s)
  <2> SUFFICES ASSUME NEW p \in 0..Len(s) PROVE p + TokenLen(s, p) \in 0..Len(s)
    OBVIOUS
  <2>1. TokenLen(s, p) \in 0..(Len(s) - p) /\ Len(s) \in Nat
    BY TokenRange, LenProperties
  <2> QED BY <2>1
<1> QED BY <1>1 DEF ReachFrom, Closed

\* What it reaches from a position is that position or reached from the end of
\* its token.
LEMMA ReachNext ==
  ASSUME NEW s \in Seq(Char), NEW q \in 0..Len(s), NEW r \in ReachFrom(s, q), r # q,
         NEW e, e = q + TokenLen(s, q)
  PROVE  TokenLen(s, q) # 0 /\ r \in ReachFrom(s, e)
<1>1. e \in 0..Len(s)
  <2>1. TokenLen(s, q) \in 0..(Len(s) - q) /\ Len(s) \in Nat
    BY TokenRange, LenProperties
  <2> QED BY <2>1
<1>2. TokenLen(s, q) # 0
  <2> SUFFICES ASSUME TokenLen(s, q) = 0 PROVE FALSE
    OBVIOUS
  <2>1. Closed(s, {q})
    BY DEF Closed
  <2> QED BY <2>1 DEF ReachFrom
<1>3. r \in ReachFrom(s, e)
  <2> DEFINE S == {q} \cup ReachFrom(s, e)
  <2>1. e \in ReachFrom(s, e)
        /\ \A p \in ReachFrom(s, e) : TokenLen(s, p) # 0 => p + TokenLen(s, p) \in ReachFrom(s, e)
    BY <1>1, ReachStep
  <2>2. S \in SUBSET (0..Len(s))
    BY DEF ReachFrom
  <2>3. \A p \in S : TokenLen(s, p) # 0 => p + TokenLen(s, p) \in S
    BY <2>1
  <2>4. Closed(s, S) /\ q \in S
    BY <2>2, <2>3 DEF Closed
  <2> HIDE DEF S
  <2>5. r \in S
    BY <2>2, <2>4 DEF ReachFrom
  <2> QED BY <2>5 DEF S
<1> QED BY <1>2, <1>3

-----------------------------------------------------------------------------
(* The inductive invariant.                                                *)

\* The buffer holds at least as many bytes as the scanned text has: a second
\* scan, of a shorter one, needs no more.
RoomKept == Scanning => Len(src) <= Len(out)

\* The substitution carried along is the one of its key.
TableSound == table = NoTable \/ table.map = DpTable(table.key[1], table.key[2])

\* What is scanned, and how far: a scan is on the walk, and all it has passed is
\* clean.
ScanSound ==
  /\ text \in Seq(Char)
  /\ tier = "scan" => src = Utf8(text)
  /\ tier \in {"rescan", "report", "error"} => src = WithoutSpace(Utf8(text))
  /\ Scanning => read = 0
  /\ Scanning \/ tier = "ok" => pos \in ReachFrom(src, 0) /\ Clean(src, 0, pos)
  /\ tier = "ok" => pos = Len(src)

\* A report is made where the scan has found a token missing; unless the text
\* holds characters that make the two walk on different ones, the report has that
\* place still ahead of it.
ReportSound ==
  /\ Reporting /\ Significant = src => \E r \in ReachFrom(src, read) : Stuck(src, r)
  /\ Clean(Significant, 0, read)
  /\ tier # "error" => verdict = NoVerdict

DecInv ==
  /\ TypeOK /\ RoomKept /\ TableSound /\ ScanSound /\ ReportSound
  /\ TiersAgree /\ FirstInvalidReported

-----------------------------------------------------------------------------
(* The buffer.                                                             *)

\* Zeros are as many bytes as asked for.
LEMMA ZerosAre ==
  ASSUME NEW n \in Nat
  PROVE  Zeros(n) \in Seq(Byte) /\ Len(Zeros(n)) = n
<1>1. 0 \in Byte
  BY WireAssumption, BytesAssumption
<1>2. Zeros(n) \in [1..n -> Byte]
  BY <1>1 DEF Zeros
<1>3. Zeros(n) \in Seq(Byte)
  BY <1>2, SeqDef
<1> QED BY <1>2, <1>3, LenProperties

\* Bytes put into a buffer leave its length and what is written before them.
LEMMA PutKeeps ==
  ASSUME w \in Nat, NEW buffer \in Seq(Byte), NEW b \in Seq(Byte)
  PROVE  /\ Put(buffer, b) \in Seq(Byte) /\ Len(Put(buffer, b)) = Len(buffer)
         /\ \A i \in 1..Len(buffer) : i <= w => Put(buffer, b)[i] = buffer[i]
<1> DEFINE n == Len(buffer)
<1>1. n \in Nat /\ Len(b) \in Nat /\ \A i \in 1..n : buffer[i] \in Byte
  BY LenProperties, ElementOfSeq
<1>2. \A i \in (w + 1)..(w + Len(b)) : b[i - w] \in Byte
  <2> TAKE i \in (w + 1)..(w + Len(b))
  <2>1. i - w \in 1..Len(b)
    BY <1>1
  <2> QED BY <2>1, ElementOfSeq
<1>3. Put(buffer, b) = [i \in 1..n |-> IF i \in (w + 1)..(w + Len(b)) THEN b[i - w] ELSE buffer[i]]
  BY DEF Put
<1> HIDE DEF n
<1>4. Put(buffer, b) \in [1..n -> Byte]
  BY <1>1, <1>2, <1>3
<1>5. Put(buffer, b) \in Seq(Byte) /\ Len(Put(buffer, b)) = n
  BY <1>1, <1>4, SeqDef, LenProperties
<1>6. \A i \in 1..n : i <= w => Put(buffer, b)[i] = buffer[i]
  BY <1>1, <1>3
<1> QED BY <1>5, <1>6 DEF n

\* A buffer grown has room for what it is grown for, and keeps what it has.
LEMMA ReservedHolds ==
  ASSUME out \in Seq(Byte), w \in 0..Len(out), NEW need \in Nat
  PROVE  /\ Reserved(need) \in Seq(Byte)
         /\ Len(Reserved(need)) >= Len(out) /\ Len(Reserved(need)) >= w + need
         /\ \A i \in 1..Len(out) : Reserved(need)[i] = out[i]
<1> DEFINE n == Len(out)  want == w + need
<1>1. n \in Nat /\ w \in Nat /\ w <= n /\ want \in Nat
  BY LenProperties
<1>2. CASE ~(need > n - w)
  <2>1. Reserved(need) = out
    BY <1>2 DEF Reserved
  <2> QED BY <1>1, <1>2, <2>1
<1>3. CASE need > n - w
  <2> DEFINE more == want + want \div 4 - n
  <2>1. want \div 4 \in Nat
    BY <1>1
  <2>2. more \in Nat /\ n + more >= want
    BY <1>1, <1>3, <2>1
  <2>3. Reserved(need) = out \o Zeros(more)
    BY <1>3 DEF Reserved
  <2> HIDE DEF more, want
  <2>4. Zeros(more) \in Seq(Byte) /\ Len(Zeros(more)) = more
    BY <2>2, ZerosAre
  <2>5. /\ out \o Zeros(more) \in Seq(Byte) /\ Len(out \o Zeros(more)) = n + more
        /\ \A i \in 1..(n + more) :
             (out \o Zeros(more))[i] = IF i <= n THEN out[i] ELSE Zeros(more)[i - n]
    BY <2>4, ConcatProperties
  <2>6. \A i \in 1..n : i \in 1..(n + more) /\ i <= n
    BY <1>1, <2>2
  <2> HIDE DEF n
  <2> QED BY <1>1, <2>2, <2>3, <2>5, <2>6 DEF n, want
<1> QED BY <1>2, <1>3

\* Writing what a token holds.
LEMMA EmitKeeps ==
  ASSUME DecInv, Scanning, NEW b \in Seq(Byte), NEW length \in 0..Remaining, Emit(b, length),
         UNCHANGED <<text, sent, tier, src, read, verdict>>, TableSound',
         pos + length \in ReachFrom(src, 0), Clean(src, pos, length)
  PROVE  DecInv' /\ w <= w' /\ SubSeq(out', 1, w) = Data
<1> DEFINE more == Reserved(Len(b))
<1>1. /\ out' = Put(more, b) /\ w' = w + Len(b) /\ pos' = pos + length
  BY DEF Emit
<1>2. /\ out \in Seq(Byte) /\ w \in 0..Len(out) /\ Len(out) \in Nat /\ Len(b) \in Nat
      /\ src \in Seq(Char) /\ pos \in 0..Len(src) /\ Len(src) \in Nat
  BY LenProperties DEF DecInv, TypeOK
<1>3. /\ more \in Seq(Byte) /\ Len(more) >= Len(out) /\ Len(more) >= w + Len(b)
      /\ \A i \in 1..Len(out) : more[i] = out[i]
  BY <1>2, ReservedHolds
<1> HIDE DEF more
<1>4. Len(more) \in Nat
  BY <1>3, LenProperties
<1>5. /\ out' \in Seq(Byte) /\ Len(out') = Len(more)
      /\ \A i \in 1..Len(more) : i <= w => out'[i] = more[i]
  <2>1. w \in Nat
    BY <1>2
  <2>2. /\ Put(more, b) \in Seq(Byte) /\ Len(Put(more, b)) = Len(more)
        /\ \A i \in 1..Len(more) : i <= w => Put(more, b)[i] = more[i]
    BY <1>3, <2>1, PutKeeps
  <2> QED BY <1>1, <2>2
<1>6. pos' \in 0..Len(src)
  BY <1>1, <1>2 DEF Remaining
<1>7. TypeOK' /\ RoomKept'
  <2>1. w' \in 0..Len(out') /\ Len(out') >= Len(out)
    BY <1>1, <1>2, <1>3, <1>4, <1>5
  <2>2. Significant' = Significant
    BY DEF Significant
  <2> QED BY <1>2, <1>4, <1>5, <1>6, <2>1, <2>2 DEF DecInv, TypeOK, RoomKept, Scanning
<1>8. ScanSound'
  <2>1. Clean(src, 0, pos + length)
    BY <1>2 DEF DecInv, ScanSound, Clean
  <2> QED BY <1>1, <2>1 DEF DecInv, ScanSound, Scanning
<1>9. ReportSound' /\ TiersAgree' /\ FirstInvalidReported'
  BY DEF DecInv, ReportSound, TiersAgree, FirstInvalidReported, Reporting, Scanning,
         Significant
<1>10. SubSeq(out', 1, w) = SubSeq(out, 1, w)
  <2>1. \A i \in 1..w : out'[i] = out[i] /\ out[i] \in Byte /\ out'[i] \in Byte
    <3> TAKE i \in 1..w
    <3>1. i \in 1..Len(out) /\ i \in 1..Len(more) /\ i <= w
      BY <1>2, <1>3, <1>4
    <3> QED BY <1>2, <1>3, <1>5, <3>1, ElementOfSeq
  <2>2. w \in Int /\ 1 \in Int
    BY <1>2
  <2>3. SubSeq(out', 1, w) \in Seq(Byte) /\ SubSeq(out, 1, w) \in Seq(Byte)
        /\ Len(SubSeq(out', 1, w)) = Len(SubSeq(out, 1, w))
        /\ \A i \in 1..(w - 1 + 1) : SubSeq(out', 1, w)[i] = out'[1 + i - 1]
                                     /\ SubSeq(out, 1, w)[i] = out[1 + i - 1]
    BY <2>1, <2>2, SubSeqProperties
  <2>4. Len(SubSeq(out, 1, w)) = w /\ w - 1 + 1 = w /\ \A i \in 1..w : 1 + i - 1 = i
    <3>1. Len(SubSeq(out, 1, w)) = IF 1 <= w THEN w - 1 + 1 ELSE 0
      BY <2>1, <2>2, SubSeqProperties
    <3> QED BY <1>2, <3>1
  <2>5. \A i \in 1..w : SubSeq(out', 1, w)[i] = SubSeq(out, 1, w)[i]
    BY <2>1, <2>3, <2>4
  <2> QED BY <2>3, <2>4, <2>5, SeqEqual
<1> QED BY <1>1, <1>2, <1>7, <1>8, <1>9, <1>10 DEF DecInv, Data

\* Giving a scan up, with whatever it has left in the buffer.
LEMMA RejectKeeps ==
  ASSUME DecInv, Scanning, NEW buffer \in Seq(Byte), Len(buffer) >= Len(out), Reject(buffer),
         \E r \in ReachFrom(src, 0) : Stuck(src, r)
  PROVE  DecInv' /\ tier' # tier
<1>1. /\ out' = buffer /\ pos' = 0 /\ w' = 0 /\ table' = NoTable
      /\ UNCHANGED <<text, sent, read, verdict>>
      /\ IF Retry THEN tier' = "rescan" /\ src' = WithoutSpace(src)
         ELSE tier' = "report" /\ src' = src
  BY DEF Reject
<1>2. /\ src \in Seq(Char) /\ text \in Seq(Char) /\ Len(src) \in Nat /\ Len(out) \in Nat
      /\ Len(buffer) \in Nat /\ Len(src) <= Len(out) /\ read = 0
      /\ tier \in {"scan", "rescan"} /\ verdict = NoVerdict
  BY LenProperties
     DEF DecInv, TypeOK, RoomKept, ScanSound, ReportSound, Scanning
<1>3. Significant' = Significant
  BY <1>1 DEF Significant
<1>4. /\ WithoutSpace(src) \in Seq(Char) /\ Len(WithoutSpace(src)) \in 0..Len(src)
      /\ (\A i \in 1..Len(src) : src[i] \notin Whitespace) => WithoutSpace(src) = src
      /\ \A j \in 1..Len(WithoutSpace(src)) : WithoutSpace(src)[j] \notin Whitespace
  BY <1>2, WithoutSpaceFacts
<1>5. src' \in Seq(Char) /\ Len(src') \in Nat /\ Len(src') <= Len(src)
  BY <1>1, <1>2, <1>4
<1>6. TypeOK' /\ RoomKept'
  <2>1. read' \in 0..Len(Significant')
    BY <1>1, <1>3 DEF DecInv, TypeOK
  <2>2. tier' \in {"rescan", "report"}
    BY <1>1
  <2> QED BY <1>1, <1>2, <1>5, <2>1, <2>2 DEF TypeOK, RoomKept
<1>7. TableSound'
  BY <1>1 DEF TableSound, NoTable
<1>8. src' = WithoutSpace(Utf8(text))
  <2>1. CASE Retry
    BY <1>1, <1>2, <2>1 DEF Retry, DecInv, ScanSound
  <2>2. CASE ~Retry /\ tier = "scan"
    BY <1>1, <1>4, <2>2 DEF Retry, DecInv, ScanSound
  <2>3. CASE ~Retry /\ tier = "rescan"
    BY <1>1, <2>3 DEF DecInv, ScanSound
  <2> QED BY <1>2, <2>1, <2>2, <2>3
<1>9. Clean(src', 0, 0) /\ 0 \in ReachFrom(src', 0)
  <2>1. 0 \in 0..Len(src')
    BY <1>5
  <2> QED BY <1>5, <2>1, ReachStep DEF Clean
<1>10. ScanSound'
  BY <1>1, <1>2, <1>8, <1>9 DEF ScanSound, Scanning
<1>11. ReportSound'
  <2>1. Reporting' => \E r \in ReachFrom(src', read') : Stuck(src', r)
    BY <1>1, <1>2 DEF Reporting
  <2>2. Clean(Significant', 0, read')
    BY <1>1, <1>3 DEF DecInv, ReportSound
  <2> QED BY <1>1, <1>2, <2>1, <2>2 DEF ReportSound
<1>12. TiersAgree' /\ FirstInvalidReported'
  BY <1>1, <1>2 DEF TiersAgree, FirstInvalidReported, NoVerdict
<1>13. tier' # tier
  BY <1>1, <1>2 DEF Retry
<1> QED BY <1>6, <1>7, <1>10, <1>11, <1>12, <1>13 DEF DecInv

\* The end of the text.
LEMMA AcceptKeeps ==
  ASSUME DecInv, Accept
  PROVE  DecInv' /\ tier' # tier
<1>1. /\ Scanning /\ Remaining = 0 /\ tier' = "ok" /\ out' = SubSeq(out, 1, w)
      /\ UNCHANGED <<text, sent, src, pos, w, table, read, verdict>>
  BY DEF Accept
<1>2. /\ src \in Seq(Char) /\ pos \in 0..Len(src) /\ Len(src) \in Nat
      /\ out \in Seq(Byte) /\ w \in 0..Len(out) /\ Len(out) \in Nat
  BY LenProperties DEF DecInv, TypeOK
<1>3. out' \in Seq(Byte) /\ Len(out') = w
  <2>1. \A i \in 1..w : out[i] \in Byte
    <3> TAKE i \in 1..w
    <3>1. i \in 1..Len(out)
      BY <1>2
    <3> QED BY <1>2, <3>1, ElementOfSeq
  <2>2. w \in Int /\ 1 \in Int
    BY <1>2
  <2>3. SubSeq(out, 1, w) \in Seq(Byte)
        /\ Len(SubSeq(out, 1, w)) = IF 1 <= w THEN w - 1 + 1 ELSE 0
    BY <2>1, <2>2, SubSeqProperties
  <2> QED BY <1>1, <1>2, <2>3
<1>4. pos = Len(src)
  BY <1>1, <1>2 DEF Remaining
<1>5. Significant' = Significant
  BY <1>1 DEF Significant
<1>6. TypeOK'
  BY <1>1, <1>2, <1>3, <1>5 DEF DecInv, TypeOK
<1>7. RoomKept' /\ TableSound' /\ ScanSound'
  BY <1>1, <1>4 DEF DecInv, RoomKept, TableSound, NoTable, ScanSound, Scanning
<1>8. ReportSound' /\ TiersAgree' /\ FirstInvalidReported' /\ tier' # tier
  BY <1>1, <1>5 DEF DecInv, ReportSound, TiersAgree, FirstInvalidReported, Reporting, Scanning
<1> QED BY <1>6, <1>7, <1>8 DEF DecInv

-----------------------------------------------------------------------------
(* The scan's steps.                                                       *)

\* A clean group that is not a signal, or one of the two Fills, is a token.
LEMMA PlainToken ==
  ASSUME NEW s \in Seq(Char), NEW p \in 0..Len(s), p + 5 <= Len(s), Clean(s, p, 5),
         \/ ValueAt(s, p) < DpSignalBase
         \/ ValueAt(s, p) >= FillSignalBase /\ ValueAt(s, p) < FutureSignalBase
  PROVE  TokenLen(s, p) = 5
<1>1. Len(s) \in Nat /\ Len(s) - p >= 5
  BY LenProperties
<1>2. ValueAt(s, p) \in Nat
  BY CleanValue
<1>3. ~(ValueAt(s, p) >= FutureSignalBase) /\ ~AtSignal(s, p)
  BY <1>2, RangeTypes, RangeOrder DEF AtSignal
<1> QED BY <1>1, <1>3 DEF TokenLen

\* A signal with its segment.
LEMMA SegmentToken ==
  ASSUME NEW s \in Seq(Char), NEW p \in 0..Len(s), p + 5 <= Len(s), Clean(s, p, 5),
         AtSignal(s, p)
  PROVE  TokenLen(s, p) =
           IF Len(s) - p - 5 >= Announced(s, p) /\ Clean(s, p + 5, Announced(s, p))
           THEN 5 + Announced(s, p) ELSE 0
<1>1. Len(s) \in Nat /\ Len(s) - p >= 5
  BY LenProperties
<1>2. ValueAt(s, p) \in Nat
  BY CleanValue
<1>3. ~(ValueAt(s, p) >= FutureSignalBase)
  BY <1>2, RangeTypes, RangeOrder DEF AtSignal
<1> QED BY <1>1, <1>3 DEF TokenLen

\* The position of the scan.
LEMMA Here ==
  ASSUME DecInv, Scanning
  PROVE  /\ src \in Seq(Char) /\ Len(src) \in Nat /\ pos \in 0..Len(src)
         /\ pos \in Nat /\ Remaining \in Nat /\ Remaining = Len(src) - pos
         /\ pos \in ReachFrom(src, 0) /\ 0 \in 0..Len(src)
  BY LenProperties DEF DecInv, TypeOK, ScanSound, Remaining

\* The token here, once it is one, is reached and clean; where there is none the
\* walk is stuck.
LEMMA TokenHere ==
  ASSUME DecInv, Scanning, NEW n, TokenLen(src, pos) = n
  PROVE  /\ n # 0 => n \in 0..Remaining /\ pos + n \in ReachFrom(src, 0) /\ Clean(src, pos, n)
         /\ n = 0 /\ Remaining > 0 => \E r \in ReachFrom(src, 0) : Stuck(src, r)
<1>1. /\ src \in Seq(Char) /\ Len(src) \in Nat /\ pos \in 0..Len(src)
      /\ Remaining = Len(src) - pos /\ pos \in ReachFrom(src, 0) /\ 0 \in 0..Len(src)
  BY Here
<1>2. n \in 0..Remaining /\ Clean(src, pos, n)
  BY <1>1, TokenRange
<1>3. n # 0 => pos + n \in ReachFrom(src, 0)
  BY <1>1, ReachStep
<1>4. n = 0 /\ Remaining > 0 => Stuck(src, pos)
  BY <1>1 DEF Stuck
<1> QED BY <1>1, <1>2, <1>3, <1>4

\* The k-th group from here.
LEMMA GroupIs ==
  ASSUME DecInv, Scanning, NEW k \in Nat \ {0}, NEW p, p = pos + 5 * (k - 1),
         5 * k <= Remaining
  PROVE  /\ p \in 0..Len(src) /\ p + 5 <= Len(src)
         /\ Group(k) = GroupOf(src, p) /\ GroupValue(k) = ValueAt(src, p)
         /\ GroupValid(k) <=> Clean(src, p, 5)
         /\ GroupValid(k) => GroupValue(k) \in Nat
<1>1. /\ src \in Seq(Char) /\ Len(src) \in Nat /\ pos \in 0..Len(src)
      /\ Remaining = Len(src) - pos
  BY Here
<1>2. p \in Nat /\ p \in 0..Len(src) /\ p + 5 <= Len(src)
  BY <1>1
<1>3. pos + 5 * k - 4 = p + 1 /\ pos + 5 * k = p + 5
  BY <1>1
<1>4. Group(k) = GroupOf(src, p)
  BY <1>3 DEF Group, GroupOf
<1>5. GroupValue(k) = ValueAt(src, p)
  BY <1>4 DEF GroupValue, ValueAt
<1>6. GroupValid(k) <=> Clean(src, p, 5)
  <2>1. Group(k) = SubSeq(src, p + 1, p + 5) /\ 5 \in Nat
    BY <1>4 DEF GroupOf
  <2>2. Clean(src, p, 5) <=> \A i \in 1..5 : ValueOf(Group(k)[i]) # NoValue
    BY <1>1, <1>2, <2>1, CleanPart
  <2> QED BY <2>2 DEF GroupValid
<1> QED BY <1>1, <1>2, <1>4, <1>5, <1>6, CleanValue

\* How many groups the run takes.
LEMMA RunFacts ==
  ASSUME DecInv, Scanning
  PROVE  /\ Run \in Nat /\ 5 * Run <= Remaining
         /\ Done \in 0..Run /\ \A j \in 1..Done : IsBlock(j)
         /\ Done = Run \/ ~IsBlock(Done + 1)
<1>1. Remaining \in Nat /\ Len(out) \in Nat /\ w \in 0..Len(out)
  BY Here, LenProperties DEF DecInv, TypeOK
<1>2. Remaining \div 5 \in Nat /\ 5 * (Remaining \div 5) <= Remaining
  BY <1>1
<1>3. (Len(out) - w) \div 4 \in Nat
  BY <1>1
<1>4. Run \in Nat /\ 5 * Run <= Remaining
  <2> DEFINE a == Remaining \div 5  b == (Len(out) - w) \div 4
  <2>1. Run = IF a <= b THEN a ELSE b
    BY DEF Run, Smaller
  <2> HIDE DEF a, b
  <2>2. a \in Nat /\ b \in Nat /\ 5 * a <= Remaining
    BY <1>2, <1>3 DEF a, b
  <2> QED BY <1>1, <2>1, <2>2
<1> DEFINE B == {k \in 0..Run : k = Run \/ ~IsBlock(k + 1)}
<1>5. B \in SUBSET Nat /\ Run \in B
  BY <1>4
<1>6. PICK m \in B : \A k \in B : m <= k
  <2> HIDE DEF B
  <2> QED BY <1>5, LeastNat
<1>7. ASSUME NEW j \in 1..m PROVE IsBlock(j)
  <2>1. m \in 0..Run /\ j - 1 \in 0..Run /\ j - 1 # Run /\ ~(m <= j - 1) /\ j - 1 + 1 = j
    BY <1>4
  <2>2. j - 1 \notin B
    BY <1>6, <2>1
  <2> QED BY <2>1, <2>2
<1> DEFINE P(k) == (k = Run \/ ~IsBlock(k + 1)) /\ \A j \in 1..k : IsBlock(j)
<1>8. \E k \in 0..Run : P(k)
  BY <1>6, <1>7
<1>9. Done = CHOOSE k \in 0..Run : P(k)
  BY DEF Done
<1> HIDE DEF P
<1>10. Done \in 0..Run /\ P(Done)
  BY <1>8, <1>9
<1> QED BY <1>4, <1>10 DEF P

\* The run's groups are tokens, one after the other.
LEMMA RunTokens ==
  ASSUME DecInv, Scanning
  PROVE  /\ Done \in Nat /\ 5 * Done \in 0..Remaining
         /\ \A j \in 1..Done : GroupValue(j) \in 0..(Radix_4 - 1)
         /\ pos + 5 * Done \in ReachFrom(src, 0) /\ Clean(src, pos, 5 * Done)
<1>1. /\ Run \in Nat /\ 5 * Run <= Remaining /\ Done \in 0..Run
      /\ \A j \in 1..Done : IsBlock(j)
  BY RunFacts
<1>2. Done \in Nat /\ 5 * Done \in 0..Remaining /\ Remaining \in Nat
  BY <1>1, Here
<1>3. ASSUME NEW j \in 1..Done, NEW p, p = pos + 5 * (j - 1)
      PROVE  /\ GroupValue(j) \in 0..(Radix_4 - 1)
             /\ p \in 0..Len(src) /\ Clean(src, p, 5) /\ TokenLen(src, p) = 5
  <2>1. j \in Nat \ {0} /\ 5 * j <= Remaining
    BY <1>2
  <2>2. GroupValid(j) /\ GroupValue(j) < DpSignalBase
    BY <1>1 DEF IsBlock
  <2>3. /\ p \in 0..Len(src) /\ p + 5 <= Len(src) /\ GroupValue(j) = ValueAt(src, p)
        /\ Clean(src, p, 5) /\ GroupValue(j) \in Nat
    BY <1>3, <2>1, <2>2, GroupIs
  <2>4. GroupValue(j) \in 0..(Radix_4 - 1)
    BY <2>2, <2>3, RangeTypes
  <2>5. src \in Seq(Char)
    BY Here
  <2> QED BY <2>2, <2>3, <2>4, <2>5, PlainToken
<1> DEFINE n == Done
           T == {j \in 0..n : pos + 5 * j \in ReachFrom(src, 0) /\ Clean(src, pos, 5 * j)}
<1>4. pos \in Nat /\ pos \in ReachFrom(src, 0) /\ src \in Seq(Char) /\ 0 \in 0..Len(src)
  BY Here
<1>5. 0 \in T
  <2>1. pos + 5 * 0 = pos /\ 5 * 0 = 0 /\ Clean(src, pos, 0)
    BY <1>4 DEF Clean
  <2> QED BY <1>2, <1>4, <2>1
<1> HIDE DEF n
<1>6. ASSUME NEW j \in 1..n, j - 1 \in T PROVE j \in T
  <2> DEFINE p == pos + 5 * (j - 1)
  <2>1. p \in 0..Len(src) /\ Clean(src, p, 5) /\ TokenLen(src, p) = 5
    BY <1>3 DEF n
  <2>2. p \in ReachFrom(src, 0) /\ Clean(src, pos, 5 * (j - 1))
    BY <1>6
  <2>3. p + 5 = pos + 5 * j /\ 5 * j = 5 * (j - 1) + 5 /\ p = pos + 5 * (j - 1)
    BY <1>4
  <2>4. Clean(src, pos, 5 * j)
    BY <1>4, <2>1, <2>2, <2>3 DEF Clean
  <2> HIDE DEF p
  <2>5. p + 5 \in ReachFrom(src, 0)
    BY <1>4, <2>1, <2>2, ReachStep
  <2>6. j \in 0..n
    BY <1>2 DEF n
  <2> QED BY <2>3, <2>4, <2>5, <2>6
<1> HIDE DEF T
<1>7. n \in T
  <2>1. n \in Nat
    BY <1>2 DEF n
  <2>2. \A j \in 0..n : j \in T
    BY <1>5, <1>6, <2>1, CountingUp
  <2> QED BY <2>1, <2>2
<1> QED BY <1>2, <1>3, <1>7 DEF T, n

\* Their bytes.
LEMMA RunBytes ==
  ASSUME DecInv, Scanning
  PROVE  FlattenSeq([k \in 1..Done |-> ValueToBytes(GroupValue(k))]) \in Seq(Byte)
<1> DEFINE n == Done
           ss == [k \in 1..n |-> ValueToBytes(GroupValue(k))]
<1>1. n \in Nat /\ \A k \in 1..n : GroupValue(k) \in 0..(Radix_4 - 1)
  BY RunTokens
<1> HIDE DEF n
<1>2. \A k \in 1..n : ValueToBytes(GroupValue(k)) \in Seq(Byte)
  BY <1>1, BlockBytes
<1>3. ss \in [1..n -> Seq(Byte)]
  BY <1>2
<1> HIDE DEF ss
<1>4. ss \in Seq(Seq(Byte))
  BY <1>1, <1>3, SeqDef
<1>5. FlattenSeq(ss) \in Seq(Byte)
  BY <1>4, FlattenType
<1> QED BY <1>5 DEF ss, n

\* A group read alone.
LEMMA AloneHere ==
  ASSUME DecInv, Alone
  PROVE  /\ Scanning /\ Remaining \in Nat /\ Remaining >= 5 /\ pos + 5 <= Len(src)
         /\ Clean(src, pos, 5) /\ GroupValue(1) = ValueAt(src, pos) /\ GroupValue(1) \in Nat
         /\ Group(1) = GroupOf(src, pos)
<1>1. Scanning /\ Remaining >= 5 /\ GroupValid(1)
  BY DEF Alone
<1>2. Remaining \in Nat /\ pos \in Nat
  BY <1>1, Here
<1> DEFINE k == 1
<1>3. k \in Nat \ {0} /\ pos = pos + 5 * (k - 1) /\ 5 * k <= Remaining
  BY <1>1, <1>2
<1> HIDE DEF k
<1>4. /\ pos + 5 <= Len(src) /\ GroupValue(k) = ValueAt(src, pos)
      /\ Group(k) = GroupOf(src, pos)
      /\ GroupValid(k) <=> Clean(src, pos, 5)
      /\ GroupValid(k) => GroupValue(k) \in Nat
  BY <1>1, <1>3, GroupIs
<1> QED BY <1>1, <1>2, <1>4 DEF k

\* One that is a token of its own, read as the bytes b.
LEMMA PlainKeeps ==
  ASSUME DecInv, Alone, NEW b \in Seq(Byte), Emit(b, 5),
         UNCHANGED <<text, sent, tier, src, table, read, verdict>>,
         \/ GroupValue(1) < DpSignalBase
         \/ GroupValue(1) >= FillSignalBase /\ GroupValue(1) < FutureSignalBase
  PROVE  DecInv' /\ w <= w' /\ SubSeq(out', 1, w) = Data
<1>1. /\ Scanning /\ Remaining >= 5 /\ pos + 5 <= Len(src) /\ Clean(src, pos, 5)
      /\ GroupValue(1) = ValueAt(src, pos)
  BY AloneHere
<1>2. TokenLen(src, pos) = 5
  BY <1>1, Here, PlainToken
<1>3. 5 \in 0..Remaining /\ pos + 5 \in ReachFrom(src, 0)
  BY <1>1, <1>2, TokenHere
<1>4. TableSound'
  BY DEF DecInv, TableSound, NoTable
<1> QED BY <1>1, <1>3, <1>4, EmitKeeps

\* Reading a run of blocks keeps the invariant and what is written.
LEMMA ReadBlocksKeeps ==
  ASSUME DecInv, ReadBlocks
  PROVE  DecInv' /\ w <= w' /\ SubSeq(out', 1, w) = Data
<1> DEFINE b == FlattenSeq([k \in 1..Done |-> ValueToBytes(GroupValue(k))])
           n == 5 * Done
<1>1. /\ Scanning /\ Emit(b, n)
      /\ UNCHANGED <<text, sent, tier, src, table, read, verdict>>
  BY DEF ReadBlocks
<1>2. b \in Seq(Byte)
  BY <1>1, RunBytes
<1>3. n \in 0..Remaining /\ pos + n \in ReachFrom(src, 0) /\ Clean(src, pos, n)
  BY <1>1, RunTokens
<1>4. TableSound'
  BY <1>1 DEF DecInv, TableSound, NoTable
<1> HIDE DEF b, n
<1> QED BY <1>1, <1>2, <1>3, <1>4, EmitKeeps

\* So does reading a block on its own.
LEMMA ReadLoneBlockKeeps ==
  ASSUME DecInv, ReadLoneBlock
  PROVE  DecInv' /\ w <= w' /\ SubSeq(out', 1, w) = Data
<1> DEFINE b == ValueToBytes(GroupValue(1))
<1>1. /\ Alone /\ GroupValue(1) < DpSignalBase /\ Emit(b, 5)
      /\ UNCHANGED <<text, sent, tier, src, table, read, verdict>>
  BY DEF ReadLoneBlock
<1>2. GroupValue(1) \in 0..(Radix_4 - 1)
  BY <1>1, AloneHere, RangeTypes
<1>3. b \in Seq(Byte)
  BY <1>2, BlockBytes
<1> HIDE DEF b
<1> QED BY <1>1, <1>3, PlainKeeps

\* So does reading zeros beside literal bytes.
LEMMA ReadTailKeeps ==
  ASSUME DecInv, ReadTail
  PROVE  DecInv' /\ w <= w' /\ SubSeq(out', 1, w) = Data
<1> DEFINE tail == SplitTail(GroupValue(1) - TailSignalBase)
           b == IF tail.order = 0 THEN Zeros(tail.zeros) \o tail.lit
                ELSE tail.lit \o Zeros(tail.zeros)
<1>1. /\ Alone /\ GroupValue(1) \in TailSignalBase..(FutureSignalBase - 1) /\ Emit(b, 5)
      /\ UNCHANGED <<text, sent, tier, src, table, read, verdict>>
  BY DEF ReadTail
<1>2. /\ GroupValue(1) - TailSignalBase \in Nat
      /\ GroupValue(1) >= FillSignalBase /\ GroupValue(1) < FutureSignalBase
  BY <1>1, AloneHere, RangeTypes, RangeOrder
<1>3. tail.zeros \in Nat /\ tail.lit \in Seq(Byte)
  <2>1. 1..MaxTailZeros \subseteq Nat
    BY ThresholdsAssumption
  <2> QED BY <1>2, <2>1, TailParts
<1> HIDE DEF tail
<1>4. Zeros(tail.zeros) \in Seq(Byte)
  BY <1>3, ZerosAre
<1>5. b \in Seq(Byte)
  BY <1>3, <1>4, ConcatProperties
<1> HIDE DEF b
<1> QED BY <1>1, <1>2, <1>5, PlainKeeps

\* So does reading a run.
LEMMA ReadFillKeeps ==
  ASSUME DecInv, ReadFill
  PROVE  DecInv' /\ w <= w' /\ SubSeq(out', 1, w) = Data
<1> DEFINE fill == SplitFill(GroupValue(1) - FillSignalBase)
           b == [i \in 1..fill.len |-> fill.byte]
<1>1. /\ Alone /\ GroupValue(1) \in FillSignalBase..(TailSignalBase - 1) /\ Emit(b, 5)
      /\ UNCHANGED <<text, sent, tier, src, table, read, verdict>>
  BY DEF ReadFill
<1>2. /\ GroupValue(1) - FillSignalBase \in 0..(FillSignalSpan - 1)
      /\ GroupValue(1) >= FillSignalBase /\ GroupValue(1) < FutureSignalBase
  BY <1>1, AloneHere, RangeTypes, RangeOrder
<1>3. fill.len \in Nat /\ fill.byte \in Byte
  <2>1. 1..MaxFill \subseteq Nat
    BY ThresholdsAssumption
  <2> QED BY <1>2, <2>1, FillParts
<1> HIDE DEF fill
<1>4. b \in [1..fill.len -> Byte]
  BY <1>3
<1> HIDE DEF b
<1>5. b \in Seq(Byte)
  BY <1>3, <1>4, SeqDef
<1> QED BY <1>1, <1>2, <1>5, PlainKeeps

\* A signal for a segment, and the segment if the text is long enough for it.
LEMMA SegmentIs ==
  ASSUME DecInv, SegmentHere
  PROVE  /\ Scanning /\ Remaining \in Nat /\ Remaining >= 5 /\ src \in Seq(Char)
         /\ Segment.len \in Nat \ {0} /\ Segment.mask \in SUBSET Byte
         /\ TokenLen(src, pos) = IF SegmentFits /\ Clean(src, pos + 5, Segment.len)
                                 THEN 5 + Segment.len ELSE 0
         /\ SegmentFits =>
              /\ Clean(src, pos + 5, Segment.len)
                   <=> \A j \in 1..Segment.len : SegmentChars[j] \in AlphabetN
              /\ SegmentChars \in Seq(Char) /\ Len(SegmentChars) = Segment.len
<1> DEFINE n == Segment.len
<1>1. Alone /\ GroupValue(1) \in DpSignalBase..(FillSignalBase - 1)
  BY DEF SegmentHere
<1>2. /\ Scanning /\ Remaining \in Nat /\ Remaining >= 5 /\ pos + 5 <= Len(src)
      /\ Clean(src, pos, 5) /\ GroupValue(1) = ValueAt(src, pos)
  BY <1>1, AloneHere
<1>3. /\ src \in Seq(Char) /\ pos \in 0..Len(src) /\ pos \in Nat /\ Len(src) \in Nat
      /\ Remaining = Len(src) - pos
  BY <1>2, Here
<1>4. AtSignal(src, pos) /\ n = Announced(src, pos)
  BY <1>1, <1>2 DEF AtSignal, Announced, Segment
<1>5. n \in Nat \ {0}
  BY <1>2, <1>3, <1>4, AnnouncedLength
<1>6. Segment.mask \in SUBSET Byte
  <2>1. RSetBytes \subseteq Byte
    BY BytesAssumption, ElementOfSeq DEF RSetBytes
  <2> QED BY <2>1 DEF Segment, SplitDp
<1>7. TokenLen(src, pos) = IF SegmentFits /\ Clean(src, pos + 5, n) THEN 5 + n ELSE 0
  <2>1. TokenLen(src, pos) = IF Len(src) - pos - 5 >= n /\ Clean(src, pos + 5, n)
                             THEN 5 + n ELSE 0
    BY <1>2, <1>3, <1>4, SegmentToken
  <2> QED BY <1>3, <2>1 DEF SegmentFits
<1>8. ASSUME SegmentFits
      PROVE  /\ Clean(src, pos + 5, n) <=> \A j \in 1..n : SegmentChars[j] \in AlphabetN
             /\ SegmentChars \in Seq(Char) /\ Len(SegmentChars) = n
  <2> DEFINE q == pos + 5
  <2>1. q \in Nat /\ q + n <= Len(src) /\ q + 1 = pos + 6
    BY <1>3, <1>5, <1>8 DEF SegmentFits
  <2>2. SegmentChars = SubSeq(src, q + 1, q + n)
    BY <2>1 DEF SegmentChars
  <2> HIDE DEF q, n
  <2>3. Clean(src, q, n) <=> \A j \in 1..n : SegmentChars[j] \in AlphabetN
    BY <1>3, <1>5, <2>1, <2>2, CleanPart
  <2>4. SegmentChars \in Seq(Char) /\ Len(SegmentChars) = n
    BY <1>3, <1>5, <2>1, <2>2, PartOf
  <2> QED BY <2>3, <2>4 DEF q
<1> HIDE DEF n
<1> QED BY <1>2, <1>3, <1>5, <1>6, <1>7, <1>8 DEF n

\* What a segment stands for.
LEMMA SegmentTableIs ==
  ASSUME DecInv, SegmentHere
  PROVE  /\ SegmentTable.map = DpTable(Segment.profile, Segment.mask)
         /\ SegmentTable.map \in [AlphabetN -> Byte]
         /\ SegmentTable.key = <<Segment.profile, Segment.mask>>
<1> DEFINE q == Segment.profile  m == Segment.mask
<1>1. m \in SUBSET Byte
  BY SegmentIs
<1>2. SegmentTable = IF table.key = <<q, m>> THEN table
                     ELSE [key |-> <<q, m>>, map |-> DpTable(q, m)]
  BY DEF SegmentTable
<1> HIDE DEF q, m
<1>3. SegmentTable.map = DpTable(q, m) /\ SegmentTable.key = <<q, m>>
  <2>1. CASE table.key = <<q, m>>
    <3>1. table # NoTable
      BY <2>1 DEF NoTable
    <3> QED BY <1>2, <2>1, <3>1 DEF DecInv, TableSound
  <2>2. CASE table.key # <<q, m>>
    BY <1>2, <2>2
  <2> QED BY <2>1, <2>2
<1> QED BY <1>1, <1>3, TableBytes DEF q, m

\* So does reading a segment.
LEMMA ReadSegmentKeeps ==
  ASSUME DecInv, ReadSegment
  PROVE  DecInv' /\ w <= w' /\ SubSeq(out', 1, w) = Data
<1> DEFINE n == Segment.len
           b == [j \in 1..n |-> table'.map[SegmentChars[j]]]
<1>1. /\ SegmentHere /\ SegmentFits /\ \A j \in 1..n : SegmentChars[j] \in AlphabetN
      /\ table' = SegmentTable /\ Emit(b, 5 + n)
      /\ UNCHANGED <<text, sent, tier, src, read, verdict>>
  BY DEF ReadSegment
<1>2. /\ Scanning /\ n \in Nat \ {0} /\ TokenLen(src, pos) = 5 + n
  BY <1>1, SegmentIs
<1>3. 5 + n \in 0..Remaining /\ pos + (5 + n) \in ReachFrom(src, 0) /\ Clean(src, pos, 5 + n)
  BY <1>2, TokenHere
<1>4. table'.map = DpTable(table'.key[1], table'.key[2]) /\ table'.map \in [AlphabetN -> Byte]
  BY <1>1, SegmentTableIs
<1>5. TableSound'
  BY <1>4 DEF TableSound
<1>6. b \in [1..n -> Byte]
  BY <1>1, <1>4
<1> HIDE DEF b, n
<1>7. b \in Seq(Byte)
  BY <1>2, <1>6, SeqDef
<1> QED BY <1>1, <1>2, <1>3, <1>5, <1>7, EmitKeeps

\* The group that ends the text is a token where it is valid.
LEMMA FinalIs ==
  ASSUME DecInv, TailHere
  PROVE  /\ Scanning /\ Remaining \in 1..4 /\ src \in Seq(Char)
         /\ TokenLen(src, pos) = IF TailValid THEN Remaining ELSE 0
         /\ TailValid => /\ Values(TailChars) \in Seq(Digit)
                         /\ Len(Values(TailChars)) = Remaining
<1>1. Scanning /\ Remaining \in 1..4
  BY DEF TailHere
<1>2. /\ src \in Seq(Char) /\ pos \in Nat /\ Len(src) \in Nat /\ Remaining = Len(src) - pos
  BY <1>1, Here
<1> DEFINE n == Remaining
<1>3. n \in Nat /\ pos + n = Len(src) /\ ~(n >= 5) /\ (n > 1 <=> n # 1)
  BY <1>1, <1>2
<1>4. TailChars = SubSeq(src, pos + 1, pos + n) /\ TailChars = LastOf(src, pos)
  BY <1>3 DEF TailChars, LastOf
<1>5. /\ Clean(src, pos, n) <=> \A i \in 1..n : TailChars[i] \in AlphabetN
      /\ Clean(src, pos, n) => Values(TailChars) \in Seq(Digit)
  <2> HIDE DEF n
  <2>1. n \in Nat /\ pos + n <= Len(src) /\ TailChars = SubSeq(src, pos + 1, pos + n)
    BY <1>2, <1>3, <1>4
  <2>2. Clean(src, pos, n) <=> \A i \in 1..n : TailChars[i] \in AlphabetN
    BY <1>2, <2>1, CleanPart
  <2>3. Clean(src, pos, n) => Values(TailChars) \in Seq(Digit)
    BY <1>2, <2>1, CleanPart
  <2> QED BY <2>2, <2>3
<1>6. TailChars \in Seq(Char) /\ Len(TailChars) = n
  <2> HIDE DEF n
  <2>1. pos + n <= Len(src)
    BY <1>2, <1>3
  <2>2. /\ SubSeq(src, pos + 1, pos + n) \in Seq(Char)
        /\ Len(SubSeq(src, pos + 1, pos + n)) = n
    BY <1>2, <1>3, <2>1, PartOf
  <2> QED BY <1>4, <2>2
<1>7. Len(Values(TailChars)) = n
  BY <1>6, ValuesLength
<1>8. TailValid <=> n > 1 /\ Clean(src, pos, n) /\ TailAccepted(Values(LastOf(src, pos)))
  BY <1>3, <1>4, <1>5 DEF TailValid
<1>9. TokenLen(src, pos) = IF TailValid THEN n ELSE 0
  BY <1>2, <1>3, <1>8 DEF TokenLen
<1> QED BY <1>1, <1>2, <1>5, <1>7, <1>8, <1>9

\* So does reading the last group.
LEMMA ReadFinalKeeps ==
  ASSUME DecInv, ReadFinal
  PROVE  DecInv' /\ w <= w' /\ SubSeq(out', 1, w) = Data
<1> DEFINE b == TailBytes(Values(TailChars))
<1>1. /\ TailHere /\ TailValid /\ Emit(b, Remaining)
      /\ UNCHANGED <<text, sent, tier, src, table, read, verdict>>
  BY DEF ReadFinal
<1>2. /\ Scanning /\ Remaining \in 1..4 /\ TokenLen(src, pos) = Remaining
      /\ Values(TailChars) \in Seq(Digit) /\ Len(Values(TailChars)) = Remaining
  BY <1>1, FinalIs
<1>3. Remaining # 1 /\ TailAccepted(Values(TailChars))
  BY <1>1 DEF TailValid
<1>4. b \in Seq(Byte)
  <2> DEFINE t == Values(TailChars)
  <2>1. t \in Seq(Digit) /\ Len(t) \in 2..4 /\ TailAccepted(t)
    BY <1>2, <1>3
  <2> HIDE DEF t
  <2>2. TailBytes(t) \in Seq(Byte)
    BY <2>1, FinalBytes
  <2> QED BY <2>2 DEF t
<1>5. /\ Remaining \in 0..Remaining /\ pos + Remaining \in ReachFrom(src, 0)
      /\ Clean(src, pos, Remaining)
  <2> DEFINE n == Remaining
  <2>1. n # 0 /\ TokenLen(src, pos) = n
    BY <1>2
  <2> HIDE DEF n
  <2>2. n \in 0..Remaining /\ pos + n \in ReachFrom(src, 0) /\ Clean(src, pos, n)
    BY <1>2, <2>1, TokenHere
  <2> QED BY <2>2 DEF n
<1>6. TableSound'
  BY <1>1 DEF DecInv, TableSound, NoTable
<1> HIDE DEF b
<1> QED BY <1>1, <1>2, <1>4, <1>5, <1>6, EmitKeeps

Rejection ==
  RejectGroup \/ RejectSignal \/ RejectShortSegment \/ RejectSegment \/ RejectFinal

\* Every way the scan gives a text up is at a place where the walk is stuck.
LEMMA RejectionIs ==
  ASSUME DecInv, Rejection
  PROVE  /\ Scanning /\ \E r \in ReachFrom(src, 0) : Stuck(src, r)
         /\ \E buffer \in Seq(Byte) : Len(buffer) >= Len(out) /\ Reject(buffer)
<1>1. out \in Seq(Byte) /\ Len(out) \in Nat /\ w \in Nat /\ w \in 0..Len(out)
  BY LenProperties DEF DecInv, TypeOK
<1>2. CASE RejectGroup
  <2> DEFINE b == FlattenSeq([k \in 1..Done |-> ValueToBytes(GroupValue(k))])
  <2>1. Scanning /\ Remaining >= 5 /\ Reject(Put(out, b))
        /\ (RunMeetsInvalid \/ (Done = 0 /\ ~GroupValid(1)))
    BY <1>2 DEF RejectGroup
  <2>2. b \in Seq(Byte)
    BY <2>1, RunBytes
  <2> HIDE DEF b
  <2>3. Put(out, b) \in Seq(Byte) /\ Len(Put(out, b)) >= Len(out)
    BY <1>1, <2>2, PutKeeps
  <2>4. /\ Run \in Nat /\ 5 * Run <= Remaining /\ Done \in Nat /\ Remaining \in Nat
        /\ pos + 5 * Done \in ReachFrom(src, 0) /\ src \in Seq(Char) /\ pos \in Nat
        /\ Remaining = Len(src) - pos /\ Len(src) \in Nat
    BY <2>1, RunFacts, RunTokens, Here
  <2> DEFINE k == Done + 1  p == pos + 5 * Done
  <2>5. ~GroupValid(k) /\ k \in Nat \ {0} /\ 5 * k <= Remaining /\ p = pos + 5 * (k - 1)
    BY <2>1, <2>4 DEF RunMeetsInvalid
  <2> HIDE DEF k, p
  <2>6. p \in 0..Len(src) /\ p + 5 <= Len(src) /\ ~Clean(src, p, 5)
    BY <2>1, <2>5, GroupIs
  <2>7. TokenLen(src, p) = 0 /\ p < Len(src)
    BY <2>4, <2>6 DEF TokenLen
  <2>8. Stuck(src, p) /\ p \in ReachFrom(src, 0)
    BY <2>4, <2>7 DEF Stuck, p
  <2> QED BY <2>1, <2>3, <2>8
<1>3. CASE RejectSignal
  <2>1. Alone /\ GroupValue(1) >= FutureSignalBase /\ Reject(out)
    BY <1>3 DEF RejectSignal
  <2>2. /\ Scanning /\ Remaining >= 5 /\ ValueAt(src, pos) >= FutureSignalBase
        /\ Remaining = Len(src) - pos
    BY <2>1, AloneHere, Here
  <2>3. TokenLen(src, pos) = 0
    BY <2>2 DEF TokenLen
  <2>4. \E r \in ReachFrom(src, 0) : Stuck(src, r)
    BY <2>2, <2>3, Here, TokenHere
  <2> QED BY <1>1, <2>1, <2>2, <2>4
<1>4. CASE RejectShortSegment
  <2>1. SegmentHere /\ ~SegmentFits /\ Reject(out)
    BY <1>4 DEF RejectShortSegment
  <2>2. Scanning /\ Remaining \in Nat /\ Remaining >= 5 /\ TokenLen(src, pos) = 0
    BY <2>1, SegmentIs
  <2>3. \E r \in ReachFrom(src, 0) : Stuck(src, r)
    BY <2>2, TokenHere
  <2> QED BY <1>1, <2>1, <2>2, <2>3
<1>5. CASE RejectSegment
  <2> DEFINE n == Segment.len
  <2>1. SegmentHere /\ SegmentFits
    BY <1>5 DEF RejectSegment
  <2>2. PICK bad \in 1..n :
          /\ SegmentChars[bad] \notin AlphabetN
          /\ \A j \in 1..(bad - 1) : SegmentChars[j] \in AlphabetN
          /\ Reject(Put(Reserved(n), [j \in 1..(bad - 1) |-> SegmentTable.map[SegmentChars[j]]]))
    BY <1>5 DEF RejectSegment
  <2> DEFINE b == [j \in 1..(bad - 1) |-> SegmentTable.map[SegmentChars[j]]]
  <2>3. /\ Scanning /\ Remaining \in Nat /\ Remaining >= 5 /\ n \in Nat
        /\ ~Clean(src, pos + 5, n) /\ TokenLen(src, pos) = 0
    BY <2>1, <2>2, SegmentIs
  <2>4. \E r \in ReachFrom(src, 0) : Stuck(src, r)
    BY <2>3, TokenHere
  <2>5. b \in [1..(bad - 1) -> Byte]
    BY <2>1, <2>2, SegmentTableIs
  <2>6. Reject(Put(Reserved(n), b))
    BY <2>2
  <2> HIDE DEF b, n
  <2>7. b \in Seq(Byte)
    <3>1. bad - 1 \in Nat
      BY <2>3
    <3> QED BY <2>5, <3>1, SeqDef
  <2>8. Reserved(n) \in Seq(Byte) /\ Len(Reserved(n)) >= Len(out)
    BY <1>1, <2>3, ReservedHolds
  <2>9. Put(Reserved(n), b) \in Seq(Byte) /\ Len(Put(Reserved(n), b)) >= Len(out)
    BY <1>1, <2>7, <2>8, PutKeeps
  <2> QED BY <2>3, <2>4, <2>6, <2>9
<1>6. CASE RejectFinal
  <2>1. TailHere /\ ~TailValid /\ Reject(out)
    BY <1>6 DEF RejectFinal
  <2>2. Scanning /\ Remaining \in 1..4 /\ TokenLen(src, pos) = 0
    BY <2>1, FinalIs
  <2>3. \E r \in ReachFrom(src, 0) : Stuck(src, r)
    <3>1. Remaining > 0
      BY <2>2
    <3> QED BY <2>2, <3>1, TokenHere
  <2> QED BY <1>1, <2>1, <2>2, <2>3
<1> QED BY <1>2, <1>3, <1>4, <1>5, <1>6 DEF Rejection

\* A rejection keeps it too, and leaves the tier.
LEMMA RejectionKeeps ==
  ASSUME DecInv, Rejection
  PROVE  DecInv' /\ tier' # tier
<1>1. PICK buffer \in Seq(Byte) : Len(buffer) >= Len(out) /\ Reject(buffer)
  BY RejectionIs
<1> QED BY <1>1, RejectionIs, RejectKeeps

\* A step of the scan keeps the invariant; while the scan goes on, what is
\* written only grows.
LEMMA ScanKeeps ==
  ASSUME DecInv, Scan
  PROVE  DecInv' /\ (tier' = tier => w <= w' /\ SubSeq(out', 1, w) = Data)
<1>1. CASE ReadBlocks
  BY <1>1, ReadBlocksKeeps
<1>2. CASE ReadLoneBlock
  BY <1>2, ReadLoneBlockKeeps
<1>3. CASE ReadTail
  BY <1>3, ReadTailKeeps
<1>4. CASE ReadFill
  BY <1>4, ReadFillKeeps
<1>5. CASE ReadSegment
  BY <1>5, ReadSegmentKeeps
<1>6. CASE ReadFinal
  BY <1>6, ReadFinalKeeps
<1>7. CASE Accept
  BY <1>7, AcceptKeeps
<1>8. CASE Rejection
  BY <1>8, RejectionKeeps
<1> QED BY <1>1, <1>2, <1>3, <1>4, <1>5, <1>6, <1>7, <1>8 DEF Scan, Rejection

-----------------------------------------------------------------------------
(* The report's steps.                                                     *)

\* Where a character of the text is among the significant ones.
LEMMA PlaceOf ==
  ASSUME text \in Seq(Char), NEW k \in 1..Len(Significant)
  PROVE  \E m \in 1..Len(text) :
           /\ text[m] \notin Whitespace /\ text[m] = Significant[k]
           /\ Offset(k) = Len(Utf8(SubSeq(text, 1, m - 1)))
           /\ \A j \in 1..(m - 1) :
                text[j] \in Whitespace \/ \E l \in 1..(k - 1) : Significant[l] = text[j]
           /\ \A i \in 1..Len(text) :
                (text[i] \notin Whitespace /\ KeptOf(text, i) = k) <=> i = m
<1> DEFINE n == Len(text)  K(i) == KeptOf(text, i)  W == Significant
<1>1. /\ K(0) = 0 /\ K(n) = Len(W) /\ \A i \in 0..n : K(i) \in Nat
      /\ \A i \in 1..n : IF text[i] \in Whitespace THEN K(i) = K(i - 1)
                         ELSE K(i) = K(i - 1) + 1 /\ K(i) <= Len(W) /\ W[K(i)] = text[i]
  BY KeptInOrder DEF Significant
<1>2. n \in Nat /\ Len(W) \in Nat /\ k \in Nat
  <2>1. n \in Nat
    BY LenProperties
  <2>2. n \in 0..n
    BY <2>1
  <2>3. Len(W) \in Nat
    BY <1>1, <2>2
  <2> QED BY <2>1, <2>3
<1>3. Offset(k) = LET i == CHOOSE i \in 1..n : text[i] \notin Whitespace /\ K(i) = k
                  IN  Len(Utf8(SubSeq(text, 1, i - 1)))
  BY DEF Offset, KeptOf
<1> HIDE DEF n, K, W
<1> DEFINE T == {i \in 0..n : K(i) >= k}
<1>4. T \in SUBSET Nat /\ n \in T
  BY <1>1, <1>2 DEF W
<1>5. PICK m \in T : \A i \in T : m <= i
  <2> HIDE DEF T
  <2> QED BY <1>4, LeastNat
<1>6. m \in 1..n /\ text[m] \notin Whitespace /\ K(m) = k
  <2>1. m \in 0..n /\ K(m) >= k /\ m # 0
    BY <1>1, <1>2
  <2>2. m \in 1..n /\ m - 1 \in 0..n /\ ~(m <= m - 1)
    BY <1>2, <2>1
  <2>3. ~(K(m - 1) >= k)
    BY <1>5, <2>2
  <2>4. K(m) \in Nat /\ K(m - 1) \in Nat
    BY <1>1, <2>1, <2>2
  <2>5. text[m] \notin Whitespace
    BY <1>1, <2>1, <2>2, <2>3
  <2>6. K(m) = K(m - 1) + 1
    BY <1>1, <2>2, <2>5
  <2> QED BY <1>2, <2>1, <2>2, <2>3, <2>4, <2>5, <2>6
<1>7. \A j \in 1..(m - 1) : j \in 1..n /\ K(j) < k
  <2> TAKE j \in 1..(m - 1)
  <2>1. j \in 1..n /\ j \in 0..n /\ ~(m <= j)
    BY <1>2, <1>6
  <2>2. ~(K(j) >= k) /\ K(j) \in Nat
    BY <1>1, <1>5, <2>1
  <2> QED BY <1>2, <2>1, <2>2
<1>8. ASSUME NEW i \in 1..n, text[i] \notin Whitespace, K(i) = k PROVE i = m
  <2> DEFINE U == {j \in 0..n : j >= m => K(j) >= k}
  <2>1. 0 \in U
    BY <1>2, <1>6
  <2>2. ASSUME NEW j \in 1..n, j - 1 \in U PROVE j \in U
    <3>1. j \in 0..n /\ j - 1 \in 0..n /\ K(j) \in Nat /\ K(j - 1) \in Nat
      BY <1>1, <1>2
    <3>2. K(j) >= K(j - 1)
      BY <1>1, <3>1
    <3>3. CASE j - 1 >= m
      BY <1>2, <2>2, <3>1, <3>2, <3>3
    <3>4. CASE ~(j - 1 >= m)
      <4>1. j < m \/ j = m
        BY <1>6, <3>4
      <4> QED BY <1>2, <1>6, <3>1, <4>1
    <3> QED BY <3>3, <3>4
  <2> HIDE DEF U
  <2>3. \A j \in 0..n : j \in U
    BY <1>2, <2>1, <2>2, CountingUp
  <2>4. i \in 0..n /\ i - 1 \in 0..n /\ K(i - 1) \in Nat /\ K(i) = K(i - 1) + 1
    BY <1>1, <1>2, <1>8
  <2>5. i \in T
    BY <1>2, <1>8, <2>4
  <2>6. i >= m
    BY <1>5, <2>5
  <2>7. ~(i - 1 >= m)
    <3>1. i - 1 \in U
      BY <2>3, <2>4
    <3> QED BY <1>2, <1>8, <2>4, <3>1 DEF U
  <2> QED BY <1>6, <2>4, <2>6, <2>7
<1>9. Offset(k) = Len(Utf8(SubSeq(text, 1, m - 1)))
  <2> DEFINE i == CHOOSE i \in 1..n : text[i] \notin Whitespace /\ K(i) = k
  <2>1. i \in 1..n /\ text[i] \notin Whitespace /\ K(i) = k
    BY <1>6
  <2> HIDE DEF i
  <2>2. i = m
    BY <1>8, <2>1
  <2> QED BY <1>3, <2>2 DEF i
<1>10. text[m] = W[k]
  BY <1>1, <1>6
<1>11. ASSUME NEW j \in 1..(m - 1), text[j] \notin Whitespace
       PROVE  \E l \in 1..(k - 1) : W[l] = text[j]
  <2>1. j \in 1..n /\ K(j) < k /\ j - 1 \in 0..n
    BY <1>2, <1>7
  <2>2. K(j - 1) \in Nat /\ K(j) = K(j - 1) + 1 /\ W[K(j)] = text[j]
    BY <1>1, <1>11, <2>1
  <2>3. K(j) \in 1..(k - 1)
    BY <1>2, <2>1, <2>2
  <2> QED BY <2>2, <2>3
<1>12. \A i \in 1..n : (text[i] \notin Whitespace /\ KeptOf(text, i) = k) <=> i = m
  BY <1>6, <1>8 DEF K
<1> QED BY <1>6, <1>9, <1>10, <1>11, <1>12 DEF n, W

\* The foreign characters of the text.
AllForeign == {i \in 1..Len(text) : text[i] \notin AlphabetN \cup Whitespace}

\* The first significant character that is foreign is the first of the text.
LEMMA FirstForeign ==
  ASSUME text \in Seq(Char), NEW k \in 1..Len(Significant), Foreign(k),
         \A j \in 1..(k - 1) : ~Foreign(j)
  PROVE  /\ AllForeign # {} /\ Significant[k] = text[Min(AllForeign)]
         /\ Offset(k) = Len(Utf8(SubSeq(text, 1, Min(AllForeign) - 1)))
         /\ \A i \in 1..Len(text) :
              (text[i] \notin Whitespace /\ KeptOf(text, i) = k) <=> i = Min(AllForeign)
<1>1. PICK m \in 1..Len(text) :
        /\ text[m] \notin Whitespace /\ text[m] = Significant[k]
        /\ Offset(k) = Len(Utf8(SubSeq(text, 1, m - 1)))
        /\ \A j \in 1..(m - 1) :
             text[j] \in Whitespace \/ \E l \in 1..(k - 1) : Significant[l] = text[j]
        /\ \A i \in 1..Len(text) :
             (text[i] \notin Whitespace /\ KeptOf(text, i) = k) <=> i = m
  BY PlaceOf
<1>2. m \in AllForeign
  BY <1>1 DEF AllForeign, Foreign
<1>3. \A j \in AllForeign : j \in 1..Len(text) /\ j \notin 1..(m - 1)
  BY <1>1 DEF AllForeign, Foreign
<1>4. \A j \in AllForeign : m <= j
  BY <1>3, LenProperties
<1>5. AllForeign \subseteq Nat
  BY <1>3
<1>6. Min(AllForeign) = m
  <2> DEFINE P(x) == \A y \in AllForeign : x <= y
             x == CHOOSE x \in AllForeign : P(x)
  <2>1. x \in AllForeign /\ P(x)
    BY <1>2, <1>4
  <2>2. x = Min(AllForeign)
    BY DEF Min
  <2> HIDE DEF x
  <2>3. x <= m /\ m <= x /\ x \in Nat /\ m \in Nat
    BY <1>2, <1>4, <1>5, <2>1
  <2> QED BY <2>2, <2>3
<1> QED BY <1>1, <1>2, <1>6

\* Where all significant characters are of the alphabet, the text has no others
\* but white space, and its bytes are its characters.
LEMMA AllClean ==
  ASSUME text \in Seq(Char), Clean(Significant, 0, Len(Significant))
  PROVE  AllForeign = {} /\ Utf8(text) = text
<1> DEFINE n == Len(text)
<1>1. n \in Nat
  BY LenProperties
<1>2. ASSUME NEW i \in 1..n, text[i] \notin Whitespace PROVE text[i] \in AlphabetN
  <2> DEFINE k == KeptOf(text, i)
  <2>1. i - 1 \in 0..n /\ KeptOf(text, i - 1) \in Nat
    BY <1>1, KeptInOrder
  <2>2. k = KeptOf(text, i - 1) + 1 /\ k <= Len(Significant) /\ Significant[k] = text[i]
    BY <1>2, KeptInOrder DEF Significant
  <2> HIDE DEF k
  <2>3. Len(Significant) \in Nat
    BY WithoutSpaceFacts, LenProperties DEF Significant
  <2>4. k \in (0 + 1)..(0 + Len(Significant))
    BY <2>1, <2>2, <2>3
  <2> QED BY <2>2, <2>4 DEF Clean
<1>3. AllForeign = {}
  BY <1>2 DEF AllForeign
<1>4. \A i \in 1..n : text[i] # WideChar
  <2>1. WideChar \notin Whitespace /\ WideChar \notin AlphabetN
    BY WireAssumption, BytesAssumption
  <2> QED BY <1>2, <2>1
<1> QED BY <1>3, <1>4, Utf8Facts

\* Where the report is.
LEMMA ReportHere ==
  ASSUME DecInv
  PROVE  /\ text \in Seq(Char) /\ src \in Seq(Char) /\ Significant \in Seq(Char)
         /\ Len(Significant) \in Nat /\ read \in 0..Len(Significant) /\ read \in Nat
         /\ Left = Len(Significant) - read /\ Left \in Nat
         /\ Clean(Significant, 0, read)
<1>1. /\ text \in Seq(Char) /\ src \in Seq(Char) /\ read \in 0..Len(Significant)
      /\ Clean(Significant, 0, read)
  BY DEF DecInv, TypeOK, ScanSound, ReportSound
<1>2. Significant \in Seq(Char)
  BY <1>1, WithoutSpaceFacts DEF Significant
<1> QED BY <1>1, <1>2, LenProperties DEF Left

\* Going on from a token to the next.
LEMMA PassKeeps ==
  ASSUME DecInv, Reporting, NEW n, n = TokenLen(Significant, read), n # 0, Pass(n)
  PROVE  DecInv'
<1>1. read' = read + n /\ UNCHANGED <<text, sent, tier, src, pos, out, w, table, verdict>>
  BY DEF Pass
<1>2. /\ Significant \in Seq(Char) /\ Len(Significant) \in Nat /\ read \in Nat
      /\ read \in 0..Len(Significant) /\ Clean(Significant, 0, read)
  BY ReportHere
<1>3. n \in 0..(Len(Significant) - read) /\ Clean(Significant, read, n)
  BY <1>2, TokenRange
<1>4. Significant' = Significant
  BY <1>1 DEF Significant
<1>5. read' \in 0..Len(Significant)
  BY <1>1, <1>2, <1>3
<1>6. TypeOK' /\ RoomKept' /\ TableSound'
  BY <1>1, <1>4, <1>5 DEF DecInv, TypeOK, RoomKept, TableSound, NoTable, Scanning
<1>7. ScanSound'
  BY <1>1 DEF DecInv, ScanSound, Scanning, Reporting
<1>8. Clean(Significant', 0, read')
  <2>1. Clean(Significant, 0, read + n)
    BY <1>2, <1>3 DEF Clean
  <2> QED BY <1>1, <1>4, <2>1
<1>9. ASSUME Significant = src PROVE \E r \in ReachFrom(src, read + n) : Stuck(src, r)
  <2>1. PICK r \in ReachFrom(src, read) : Stuck(src, r)
    BY <1>9 DEF DecInv, ReportSound
  <2>2. r # read
    BY <1>9, <2>1 DEF Stuck
  <2>3. r \in ReachFrom(src, read + n)
    BY <1>2, <1>9, <2>2, ReachNext
  <2> QED BY <2>1, <2>3
<1>10. ReportSound'
  BY <1>1, <1>4, <1>8, <1>9 DEF DecInv, ReportSound, Reporting
<1>11. TiersAgree' /\ FirstInvalidReported'
  BY <1>1 DEF DecInv, TiersAgree, FirstInvalidReported
<1> QED BY <1>6, <1>7, <1>10, <1>11 DEF DecInv

\* Naming a fault.
LEMMA BlameKeeps ==
  ASSUME DecInv, Reporting, NEW v, Blame(v), v.kind # "Disagreement",
         v.kind # "InvalidCharacter", v.kind = "InvalidFinalBlock" => AllForeign = {}
  PROVE  DecInv'
<1>1. tier' = "error" /\ verdict' = v /\ UNCHANGED <<text, sent, src, pos, out, w, table, read>>
  BY DEF Blame
<1>2. Significant' = Significant
  BY <1>1 DEF Significant
<1>3. TypeOK' /\ RoomKept' /\ TableSound' /\ ScanSound' /\ ReportSound'
  BY <1>1, <1>2 DEF DecInv, TypeOK, RoomKept, TableSound, NoTable, ScanSound, ReportSound,
                    Scanning, Reporting
<1>4. TiersAgree' /\ FirstInvalidReported'
  BY <1>1 DEF TiersAgree, FirstInvalidReported, AllForeign
<1> QED BY <1>3, <1>4 DEF DecInv

\* Naming the first foreign character of those from k to l, all before which are
\* clean.
LEMMA BlameFirstKeeps ==
  ASSUME DecInv, Reporting, NEW k \in Nat, NEW l \in 0..Len(Significant),
         Clean(Significant, 0, k), BlameFirst(ForeignIn(k + 1, l))
  PROVE  DecInv'
<1>1. PICK c \in ForeignIn(k + 1, l) :
        (\A j \in ForeignIn(k + 1, l) : c <= j) /\ Blame(InvalidCharacter(c))
  BY DEF BlameFirst
<1>2. /\ tier' = "error" /\ verdict' = InvalidCharacter(c)
      /\ UNCHANGED <<text, sent, src, pos, out, w, table, read>>
  BY <1>1 DEF Blame
<1>3. Significant' = Significant
  BY <1>2 DEF Significant
<1>4. Len(Significant) \in Nat /\ text \in Seq(Char)
  BY ReportHere
<1>5. c \in (k + 1)..l /\ c \in 1..Len(Significant) /\ Foreign(c)
  BY <1>1, <1>4 DEF ForeignIn
<1>6. \A j \in 1..(c - 1) : ~Foreign(j)
  <2> TAKE j \in 1..(c - 1)
  <2>1. CASE j <= k
    BY <1>5, <2>1 DEF Clean, Foreign
  <2>2. CASE j > k
    <3>1. j \in (k + 1)..l /\ ~(c <= j)
      BY <1>5, <2>2
    <3> QED BY <1>1, <3>1 DEF ForeignIn
  <2> QED BY <1>5, <2>1, <2>2
<1>7. /\ AllForeign # {} /\ Significant[c] = text[Min(AllForeign)]
      /\ Offset(c) = Len(Utf8(SubSeq(text, 1, Min(AllForeign) - 1)))
  BY <1>4, <1>5, <1>6, FirstForeign
<1>8. /\ verdict'.kind = "InvalidCharacter" /\ verdict'.character = Significant[c]
      /\ verdict'.position = Offset(c)
  BY <1>2 DEF InvalidCharacter
<1>9. TiersAgree' /\ FirstInvalidReported'
  BY <1>2, <1>7, <1>8 DEF TiersAgree, FirstInvalidReported, AllForeign
<1>10. TypeOK' /\ RoomKept' /\ TableSound' /\ ScanSound' /\ ReportSound'
  BY <1>2, <1>3 DEF DecInv, TypeOK, RoomKept, TableSound, NoTable, ScanSound, ReportSound,
                    Scanning, Reporting
<1> QED BY <1>9, <1>10 DEF DecInv

\* A group without foreign characters, and its value.
LEMMA CleanGroupIs ==
  ASSUME DecInv, CleanGroup
  PROVE  /\ Reporting /\ Left >= 5 /\ read + 5 <= Len(Significant)
         /\ Clean(Significant, read, 5) /\ Clean(Significant, 0, read + 5)
         /\ NextValue = ValueAt(Significant, read) /\ NextValue \in Nat
<1>1. /\ Significant \in Seq(Char) /\ Len(Significant) \in Nat /\ read \in Nat
      /\ Left = Len(Significant) - read /\ Clean(Significant, 0, read)
  BY ReportHere
<1>2. Reporting /\ Left >= 5 /\ ForeignIn(read + 1, read + 5) = {}
  BY DEF CleanGroup, FullGroup
<1>3. read + 5 <= Len(Significant)
  BY <1>1, <1>2
<1>4. Clean(Significant, read, 5)
  BY <1>2 DEF ForeignIn, Foreign, Clean
<1>5. Clean(Significant, 0, read + 5)
  BY <1>1, <1>4 DEF Clean
<1>6. NextGroup = GroupOf(Significant, read)
  BY DEF NextGroup, GroupOf
<1> QED BY <1>1, <1>2, <1>3, <1>4, <1>5, <1>6, CleanValue DEF NextValue

\* A signal for a segment.
LEMMA AtSegmentIs ==
  ASSUME DecInv, AtSegment
  PROVE  /\ NextSegment.len \in Nat \ {0}
         /\ TokenLen(Significant, read) =
              IF Left - 5 >= NextSegment.len /\ Clean(Significant, read + 5, NextSegment.len)
              THEN 5 + NextSegment.len ELSE 0
<1>1. CleanGroup /\ NextValue \in DpSignalBase..(FillSignalBase - 1)
  BY DEF AtSegment
<1>2. /\ read + 5 <= Len(Significant) /\ Clean(Significant, read, 5)
      /\ NextValue = ValueAt(Significant, read)
  BY <1>1, CleanGroupIs
<1>3. /\ Significant \in Seq(Char) /\ read \in 0..Len(Significant) /\ read \in Nat
      /\ Left = Len(Significant) - read
  BY ReportHere
<1>4. AtSignal(Significant, read) /\ NextSegment.len = Announced(Significant, read)
  BY <1>1, <1>2 DEF AtSignal, NextSegment, Announced
<1> QED BY <1>2, <1>3, <1>4, AnnouncedLength, SegmentToken

\* The end of the text.  Here the report must find a fault: its walk would
\* otherwise be the scan's and end, where the scan's is stuck.
LEMMA ReportEndKeeps ==
  ASSUME DecInv, ReportEnd
  PROVE  DecInv'
<1> DEFINE S == Significant  end == Len(Significant)
           bad == ForeignIn(read + 1, read + Left)
           rest == Values(SubSeq(S, read + 1, read + Left))
           short == Left = 1 \/ (Left > 1 /\ ~TailAccepted(rest))
           v == IF short THEN [kind |-> "InvalidFinalBlock", length |-> Left]
                ELSE [kind |-> "Disagreement"]
<1>1. /\ Reporting /\ Left \in 0..4
      /\ BlameFirst(bad) \/ (bad = {} /\ Blame(v))
  BY DEF ReportEnd
<1>2. /\ text \in Seq(Char) /\ S \in Seq(Char) /\ end \in Nat /\ read \in Nat
      /\ read \in 0..end /\ Left = end - read /\ Clean(S, 0, read) /\ read + Left = end
      /\ end \in 0..end
  BY ReportHere
<1>3. CASE BlameFirst(bad)
  BY <1>1, <1>2, <1>3, BlameFirstKeeps
<1>4. CASE bad = {} /\ Blame(v)
  <2>1. Clean(S, read, Left) /\ Clean(S, 0, end)
    <3>1. \A i \in (read + 1)..(read + Left) : S[i] \in AlphabetN
      BY <1>4 DEF ForeignIn, Foreign
    <3>2. Clean(S, read, Left)
      BY <3>1 DEF Clean
    <3>3. Clean(S, 0, end)
      BY <1>2, <3>1 DEF Clean
    <3> QED BY <3>2, <3>3
  <2>2. AllForeign = {} /\ Utf8(text) = text
    BY <1>2, <2>1, AllClean
  <2>3. src = S
    BY <1>1, <2>2 DEF DecInv, ScanSound, Reporting, Significant
  <2>4. PICK r \in ReachFrom(S, read) : Stuck(S, r)
    BY <1>1, <2>3 DEF DecInv, ReportSound
  <2>5. TokenLen(S, end) = 0
    BY <1>2 DEF TokenLen
  <2>6. r \notin ReachFrom(S, end)
    <3>1. r # end
      BY <2>4 DEF Stuck
    <3> QED BY <1>2, <2>5, <3>1, ReachNext
  <2>7. read # end
    BY <2>4, <2>6
  <2>8. short
    <3> SUFFICES ASSUME ~short PROVE FALSE
      OBVIOUS
    <3>1. Left > 1 /\ TailAccepted(rest) /\ ~(Left >= 5)
      BY <1>1, <1>2, <2>7
    <3>2. rest = Values(LastOf(S, read))
      BY <1>2 DEF LastOf
    <3>3. TokenLen(S, read) = Left
      BY <1>2, <2>1, <3>1, <3>2 DEF TokenLen
    <3>4. r # read
      BY <2>4, <3>1, <3>3 DEF Stuck
    <3>5. end = read + TokenLen(S, read)
      BY <1>2, <3>3
    <3>6. read \in 0..Len(S) /\ S \in Seq(Char) /\ r \in ReachFrom(S, read)
      BY <1>2, <2>4
    <3>7. r \in ReachFrom(S, end)
      <4> HIDE DEF S, end
      <4> QED BY <3>4, <3>5, <3>6, ReachNext
    <3> QED BY <2>6, <3>7
  <2>9. v.kind = "InvalidFinalBlock"
    BY <2>8
  <2>10. Blame(v)
    BY <1>4
  <2> HIDE DEF v
  <2> QED BY <1>1, <2>2, <2>9, <2>10, BlameKeeps
<1> QED BY <1>1, <1>3, <1>4

\* A step of the report keeps the invariant.
LEMMA ReportKeeps ==
  ASSUME DecInv, Report
  PROVE  DecInv'
<1>1. /\ Significant \in Seq(Char) /\ Len(Significant) \in Nat /\ read \in Nat
      /\ read \in 0..Len(Significant) /\ Left = Len(Significant) - read
      /\ Clean(Significant, 0, read)
  BY ReportHere
<1>2. CASE ReportGroup
  <2>1. Reporting /\ Left >= 5 /\ BlameFirst(ForeignIn(read + 1, read + 5))
    BY <1>2 DEF ReportGroup, FullGroup
  <2>2. read + 5 \in 0..Len(Significant)
    BY <1>1, <2>1
  <2> QED BY <1>1, <2>1, <2>2, BlameFirstKeeps
<1>3. CASE ReportSignal
  <2> DEFINE v == [kind |-> "UndefinedSignal", value |-> NextValue]
  <2>1. CleanGroup /\ Blame(v)
    BY <1>3 DEF ReportSignal
  <2>2. v.kind = "UndefinedSignal"
    OBVIOUS
  <2> HIDE DEF v
  <2> QED BY <2>1, <2>2, CleanGroupIs, BlameKeeps
<1>4. CASE PassGroup
  <2>1. /\ CleanGroup /\ Pass(5)
        /\ NextValue \in 0..(DpSignalBase - 1) \cup FillSignalBase..(FutureSignalBase - 1)
    BY <1>4 DEF PassGroup
  <2>2. /\ Reporting /\ read + 5 <= Len(Significant) /\ Clean(Significant, read, 5)
        /\ NextValue = ValueAt(Significant, read)
    BY <2>1, CleanGroupIs
  <2>3. \/ ValueAt(Significant, read) < DpSignalBase
        \/ ValueAt(Significant, read) >= FillSignalBase
           /\ ValueAt(Significant, read) < FutureSignalBase
    BY <2>1, <2>2, RangeTypes
  <2>4. TokenLen(Significant, read) = 5
    BY <1>1, <2>2, <2>3, PlainToken
  <2> QED BY <2>1, <2>2, <2>4, PassKeeps
<1>5. CASE ReportSegment
  <2> DEFINE n == NextSegment.len
  <2>1. AtSegment
        /\ IF Left - 5 < n THEN Blame([kind |-> "UnexpectedEndOfStream"])
           ELSE BlameFirst(ForeignIn(read + 6, read + 5 + n))
    BY <1>5 DEF ReportSegment
  <2>2. Reporting /\ n \in Nat /\ Clean(Significant, 0, read + 5)
    BY <2>1, AtSegmentIs, CleanGroupIs DEF AtSegment
  <2> HIDE DEF n
  <2>3. CASE Left - 5 < n
    <3> DEFINE v == [kind |-> "UnexpectedEndOfStream"]
    <3>1. Blame(v) /\ v.kind = "UnexpectedEndOfStream"
      BY <2>1, <2>3
    <3> HIDE DEF v
    <3> QED BY <2>2, <3>1, BlameKeeps
  <2>4. CASE ~(Left - 5 < n)
    <3> DEFINE k == read + 5  l == read + 5 + n
    <3>1. k \in Nat /\ l \in 0..Len(Significant) /\ k + 1 = read + 6
      BY <1>1, <2>2, <2>4
    <3>2. BlameFirst(ForeignIn(k + 1, l)) /\ Clean(Significant, 0, k)
      BY <2>1, <2>2, <2>4, <3>1
    <3> HIDE DEF k, l
    <3> QED BY <2>2, <3>1, <3>2, BlameFirstKeeps
  <2> QED BY <2>3, <2>4
<1>6. CASE PassSegment
  <2> DEFINE n == NextSegment.len
  <2>1. /\ AtSegment /\ Left - 5 >= n /\ Pass(5 + n)
        /\ ForeignIn(read + 6, read + 5 + n) = {}
    BY <1>6 DEF PassSegment
  <2>2. /\ Reporting /\ n \in Nat \ {0}
        /\ TokenLen(Significant, read) =
             IF Left - 5 >= n /\ Clean(Significant, read + 5, n) THEN 5 + n ELSE 0
    BY <2>1, AtSegmentIs, CleanGroupIs DEF AtSegment
  <2> HIDE DEF n
  <2>3. Clean(Significant, read + 5, n)
    <3>1. \A i \in (read + 6)..(read + 5 + n) : Significant[i] \in AlphabetN
      BY <2>1 DEF ForeignIn, Foreign
    <3>2. read + 5 + 1 = read + 6
      BY <1>1
    <3> QED BY <3>1, <3>2 DEF Clean
  <2>4. 5 + n = TokenLen(Significant, read) /\ 5 + n # 0
    BY <2>1, <2>2, <2>3
  <2> DEFINE m == 5 + n
  <2>5. m = TokenLen(Significant, read) /\ m # 0 /\ Pass(m)
    BY <2>1, <2>4
  <2> HIDE DEF m
  <2> QED BY <2>2, <2>5, PassKeeps
<1>7. CASE ReportEnd
  BY <1>7, ReportEndKeeps
<1> QED BY <1>2, <1>3, <1>4, <1>5, <1>6, <1>7 DEF Report

\* So does every step; and of what is written nothing changes while a scan goes
\* on.
LEMMA NextKeeps ==
  ASSUME DecInv, [Next]_vars
  PROVE  DecInv' /\ (tier' = tier /\ Scanning => w <= w' /\ SubSeq(out', 1, w) = Data)
<1>1. CASE UNCHANGED vars
  <2>1. UNCHANGED <<text, sent, tier, src, pos, out, w, table, read, verdict>>
    BY <1>1 DEF vars
  <2>2. Significant' = Significant
    BY <2>1 DEF Significant
  <2>3. TypeOK' /\ RoomKept' /\ TableSound' /\ ScanSound' /\ ReportSound'
    BY <2>1, <2>2 DEF DecInv, TypeOK, RoomKept, TableSound, NoTable, ScanSound, ReportSound,
                      Scanning, Reporting
  <2>4. TiersAgree' /\ FirstInvalidReported'
    BY <2>1 DEF DecInv, TiersAgree, FirstInvalidReported
  <2>5. w \in Nat
    BY LenProperties DEF DecInv, TypeOK
  <2> QED BY <2>1, <2>3, <2>4, <2>5 DEF DecInv, Data
<1>2. CASE Scan
  BY <1>2, ScanKeeps
<1>3. CASE Report
  <2>1. ~Scanning
    BY <1>3 DEF Report, ReportGroup, ReportSignal, PassGroup, ReportSegment, PassSegment,
                ReportEnd, CleanGroup, FullGroup, AtSegment, Reporting, Scanning
  <2> QED BY <1>3, <2>1, ReportKeeps
<1> QED BY <1>1, <1>2, <1>3 DEF Next

\* The initial states satisfy the invariant.
LEMMA InitDecInv == Init => DecInv
<1> SUFFICES ASSUME Init PROVE DecInv
  OBVIOUS
<1>1. PICK c \in Cases :
        /\ text = c.text /\ sent = c.sent
        /\ tier = "scan" /\ src = Utf8(c.text) /\ pos = 0
        /\ out = [i \in 1..Len(src) |-> 0] /\ w = 0
        /\ table = NoTable /\ read = 0 /\ verdict = NoVerdict
  BY DEF Init
<1>2. text \in Seq(Char)
  BY <1>1, CasesAssumption
<1>3. src = Utf8(text) /\ src \in Seq(Char) /\ Len(src) \in Nat
  BY <1>1, <1>2, Utf8Facts, LenProperties
<1>4. out \in Seq(Byte) /\ Len(out) = Len(src)
  BY <1>1, <1>3, ZerosAre DEF Zeros
<1>5. Significant \in Seq(Char) /\ Len(Significant) \in Nat
  BY <1>2, WithoutSpaceFacts, LenProperties DEF Significant
<1>6. TypeOK /\ RoomKept /\ TableSound
  BY <1>1, <1>3, <1>4, <1>5 DEF TypeOK, RoomKept, TableSound
<1>7. 0 \in ReachFrom(src, 0)
  <2>1. 0 \in 0..Len(src)
    BY <1>3
  <2> QED BY <1>3, <2>1, ReachStep
<1>8. ScanSound
  BY <1>1, <1>2, <1>3, <1>7 DEF ScanSound, Clean
<1>9. ReportSound
  BY <1>1 DEF ReportSound, Reporting, Clean
<1>10. TiersAgree /\ FirstInvalidReported
  BY <1>1 DEF TiersAgree, FirstInvalidReported, NoVerdict
<1> QED BY <1>6, <1>8, <1>9, <1>10 DEF DecInv

\* For every text: the invariant of the decoder's two tiers.
THEOREM DecInvariant == Spec => []DecInv
<1>1. DecInv /\ [Next]_vars => DecInv'
  BY NextKeeps
<1> QED BY InitDecInv, <1>1, PTL DEF Spec

\* Type correctness: the scan stays inside its text and its buffer, and a second
\* scan needs no room the first one did not have (the assertion in decode).
THEOREM DecTypeOK == Spec => []TypeOK
<1>1. DecInv => TypeOK
  BY DEF DecInv
<1> QED BY DecInvariant, <1>1, PTL

\* Whenever scan rejects a text, report_error finds a fault in it: the assertion
\* at its end never fails.
THEOREM DecTiersAgree == Spec => []TiersAgree
<1>1. DecInv => TiersAgree
  BY DEF DecInv
<1> QED BY DecInvariant, <1>1, PTL

\* The invalid character report_error names is the first of the text, at its
\* byte offset in it; and a malformed last group is only named where there is none.
THEOREM DecFirstInvalid == Spec => []FirstInvalidReported
<1>1. DecInv => FirstInvalidReported
  BY DEF DecInv
<1> QED BY DecInvariant, <1>1, PTL

\* What scan accepts holds no white space and no foreign character, which is why
\* decode may try it before it filters.
THEOREM DecAcceptedIsClean == Spec => []AcceptedIsClean
<1>1. DecInv => AcceptedIsClean
  <2> SUFFICES ASSUME DecInv, tier = "ok", NEW i \in 1..Len(src) PROVE src[i] \in AlphabetN
    BY DEF AcceptedIsClean
  <2>1. Clean(src, 0, Len(src)) /\ Len(src) \in Nat
    BY LenProperties DEF DecInv, ScanSound, TypeOK
  <2>2. i \in (0 + 1)..(0 + Len(src))
    BY <2>1
  <2> QED BY <2>1, <2>2 DEF Clean
<1> QED BY DecInvariant, <1>1, PTL

-----------------------------------------------------------------------------
(* What a token is decoded to.                                             *)

TokenBytes(s, p) ==
  LET segment == SplitDp(ValueAt(s, p) - DpSignalBase)
  IN  IF Len(s) - p < 5 THEN TailBytes(Values(LastOf(s, p)))
      ELSE IF AtSignal(s, p)
      THEN [j \in 1..segment.len |-> DpTable(segment.profile, segment.mask)[s[p + 5 + j]]]
      ELSE ValueBytes(ValueAt(s, p))

\* The characters c are in s after the first p.
Placed(s, p, c) ==
  p \in Nat /\ p + Len(c) <= Len(s) /\ \A j \in 1..Len(c) : s[p + j] = c[j]

\* A text of characters of the alphabet.
LEMMA AlphabetText ==
  ASSUME NEW c \in Seq(AlphabetN)
  PROVE  c \in Seq(Char)
<1>1. AlphabetN \subseteq Char
  BY OctetIsByte DEF Char
<1> QED BY <1>1, ElementOfSeq, LenProperties, SeqDef

\* Characters of the alphabet are clean.
LEMMA PlacedClean ==
  ASSUME NEW s \in Seq(Char), NEW p, NEW c \in Seq(AlphabetN), Placed(s, p, c),
         NEW i \in Nat, NEW n \in Nat, i + n <= Len(c)
  PROVE  Clean(s, p + i, n)
<1> SUFFICES ASSUME NEW x \in (p + i + 1)..(p + i + n) PROVE s[x] \in AlphabetN
  BY DEF Clean
<1>1. Len(c) \in Nat /\ p \in Nat
  BY LenProperties DEF Placed
<1> DEFINE j == x - p
<1>2. j \in 1..Len(c) /\ p + j = x
  BY <1>1
<1> HIDE DEF j
<1>3. s[p + j] = c[j] /\ c[j] \in AlphabetN
  BY <1>2, ElementOfSeq DEF Placed
<1> QED BY <1>2, <1>3

\* A part of the text that is a sequence placed there is that sequence.
LEMMA PlacedPart ==
  ASSUME NEW s \in Seq(Char), NEW p, NEW c \in Seq(AlphabetN), Placed(s, p, c)
  PROVE  SubSeq(s, p + 1, p + Len(c)) = c
<1>1. Len(c) \in Nat /\ p \in Nat /\ p + Len(c) <= Len(s)
  BY LenProperties DEF Placed
<1>2. /\ SubSeq(s, p + 1, p + Len(c)) \in Seq(Char) /\ Len(SubSeq(s, p + 1, p + Len(c))) = Len(c)
      /\ \A i \in 1..Len(c) : SubSeq(s, p + 1, p + Len(c))[i] = c[i]
  BY <1>1, PartOf DEF Placed
<1>3. c \in Seq(Char)
  BY AlphabetText
<1> QED BY <1>2, <1>3, SeqEqual

\* Where a signal begins what is placed, its value is there.
LEMMA PlacedSignal ==
  ASSUME NEW s \in Seq(Char), NEW p, NEW v \in 0..(Base_5 - 1), Placed(s, p, Signal(v))
  PROVE  ValueAt(s, p) = v /\ Clean(s, p, 5) /\ p \in 0..Len(s) /\ p + 5 <= Len(s)
<1>1. Signal(v) \in Seq(AlphabetN) /\ Len(Signal(v)) = 5 /\ WeighDigits(Values(Signal(v))) = v
  BY SignalRead
<1>2. p \in Nat /\ p + 5 <= Len(s) /\ Len(s) \in Nat
  BY <1>1, LenProperties DEF Placed
<1>3. GroupOf(s, p) = Signal(v)
  BY <1>1, PlacedPart DEF GroupOf
<1>4. Clean(s, p + 0, 5)
  <2>1. 0 \in Nat /\ 5 \in Nat /\ 0 + 5 <= Len(Signal(v))
    BY <1>1
  <2> QED BY <1>1, <2>1, PlacedClean
<1>5. p + 0 = p
  BY <1>2
<1> QED BY <1>1, <1>2, <1>3, <1>4, <1>5 DEF ValueAt

\* One that is no segment's is a token of its own.
LEMMA PlainPlaced ==
  ASSUME NEW s \in Seq(Char), NEW p, NEW v, NEW b, Plain(v, b), Placed(s, p, Signal(v))
  PROVE  TokenLen(s, p) = 5 /\ TokenBytes(s, p) = b
<1>1. v \in 0..(Base_5 - 1) /\ v \in 0..(FutureSignalBase - 1) /\ ValueBytes(v) = b
      /\ v \notin DpSignalBase..(FillSignalBase - 1)
  BY DEF Plain
<1>2. ValueAt(s, p) = v /\ Clean(s, p, 5) /\ p \in 0..Len(s) /\ p + 5 <= Len(s)
  BY <1>1, PlacedSignal
<1>3. \/ v < DpSignalBase
      \/ v >= FillSignalBase /\ v < FutureSignalBase
  BY <1>1, RangeTypes
<1>4. TokenLen(s, p) = 5
  BY <1>2, <1>3, PlainToken
<1>5. ~(Len(s) - p < 5) /\ ~AtSignal(s, p)
  <2>1. Len(s) \in Nat
    BY LenProperties
  <2> QED BY <1>1, <1>2, <2>1 DEF AtSignal
<1>6. TokenBytes(s, p) = b
  BY <1>1, <1>2, <1>5 DEF TokenBytes
<1> QED BY <1>4, <1>6

\* A segment's, with its segment, is one.
LEMMA SegmentPlaced ==
  ASSUME NEW s \in Seq(Char), NEW p, NEW d, NEW u, NEW b, Spelled(d, u, b),
         NEW q, NEW mask, NEW t, Segmented(d, u, b, q, mask, t), Placed(s, p, UnitChars(d, u))
  PROVE  TokenLen(s, p) = Len(UnitChars(d, u)) /\ TokenBytes(s, p) = b
<1> DEFINE len == u.len  c == UnitChars(d, u)  v == DpSignal(q, mask, u.len)
<1>0. SegmentRead(c, v, len, q, mask, t)
  BY SegmentedChars
<1>2. /\ b \in Seq(Byte) /\ Len(b) = len
      /\ \A j \in 1..len : DpTable(q, mask)[t[j]] = b[j]
  BY SpelledPart DEF Segmented
<1>3. Placed(s, p, c)
  OBVIOUS
<1> HIDE DEF c, v, len
<1>1. /\ v \in 0..(Base_5 - 1) /\ v \in DpSignalBase..(FillSignalBase - 1)
      /\ SplitDp(v - DpSignalBase) = [len |-> len, mask |-> mask, profile |-> q]
      /\ len \in Nat \ {0} /\ c \in Seq(AlphabetN) /\ Len(c) = 5 + len
      /\ \A j \in 1..5 : c[j] = Signal(v)[j]
      /\ \A j \in 1..len : c[5 + j] = t[j]
  BY <1>0 DEF SegmentRead
<1>7. p \in Nat /\ p + 5 + len <= Len(s) /\ Len(s) \in Nat
  BY <1>1, <1>3, LenProperties DEF Placed
<1>8. Placed(s, p, Signal(v))
  <2>0. Len(Signal(v)) = 5
    BY <1>1, SignalRead
  <2>1. \A j \in 1..5 : s[p + j] = c[j]
    <3>1. \A j \in 1..5 : j \in 1..Len(c)
      BY <1>1
    <3> QED BY <1>3, <3>1 DEF Placed
  <2>2. p + 5 <= Len(s)
    BY <1>1, <1>7
  <2> QED BY <1>1, <1>7, <2>0, <2>1, <2>2 DEF Placed
<1>9. ValueAt(s, p) = v /\ Clean(s, p, 5) /\ p \in 0..Len(s) /\ p + 5 <= Len(s)
  BY <1>1, <1>8, PlacedSignal
<1>10. AtSignal(s, p) /\ Announced(s, p) = len
  BY <1>1, <1>9 DEF AtSignal, Announced
<1>11. Clean(s, p + 5, len)
  <2>1. 5 \in Nat /\ len \in Nat /\ 5 + len <= Len(c)
    BY <1>1
  <2> QED BY <1>1, <1>3, <2>1, PlacedClean
<1>12. Len(s) - p - 5 >= len /\ ~(Len(s) - p < 5)
  BY <1>1, <1>7
<1>13. TokenLen(s, p) = 5 + len
  BY <1>9, <1>10, <1>11, <1>12, SegmentToken
<1>14. TokenBytes(s, p) = [j \in 1..len |-> DpTable(q, mask)[s[p + 5 + j]]]
  BY <1>1, <1>9, <1>10, <1>12 DEF TokenBytes
<1>15. \A j \in 1..len : s[p + 5 + j] = t[j]
  <2> SUFFICES ASSUME NEW j \in 1..len PROVE s[p + 5 + j] = t[j]
    OBVIOUS
  <2>1. 5 + j \in 1..Len(c) /\ p + 5 + j = p + (5 + j)
    BY <1>1, <1>7
  <2> QED BY <1>1, <1>3, <2>1 DEF Placed
<1>16. b = [j \in 1..len |-> b[j]]
  BY <1>2, LenProperties
<1>17. [j \in 1..len |-> DpTable(q, mask)[s[p + 5 + j]]] = [j \in 1..len |-> b[j]]
  BY <1>2, <1>15
<1> QED BY <1>1, <1>13, <1>14, <1>16, <1>17 DEF c

\* The characters of what is left at the end are the last.
LEMMA ShortPlaced ==
  ASSUME NEW s \in Seq(Char), NEW p, NEW g \in Seq(Digit), Len(g) \in 2..4, TailAccepted(g),
         Placed(s, p, Characters(g)), p + Len(g) = Len(s)
  PROVE  TokenLen(s, p) = Len(g) /\ TokenBytes(s, p) = TailBytes(g)
<1> DEFINE c == Characters(g)
<1>1. c \in Seq(AlphabetN) /\ Len(c) = Len(g) /\ Values(c) = g
  BY CharactersRead
<1>2. p \in Nat /\ Len(s) \in Nat /\ Len(s) - p = Len(g) /\ Len(g) \in Nat
  BY LenProperties DEF Placed
<1> HIDE DEF c
<1>3. Placed(s, p, c)
  BY DEF c
<1>4. LastOf(s, p) = c
  BY <1>1, <1>3, PlacedPart DEF LastOf
<1>5. Clean(s, p, Len(g))
  <2>1. Clean(s, p + 0, Len(g))
    BY <1>1, <1>2, <1>3, PlacedClean, 0 \in Nat
  <2>2. p + 0 = p
    BY <1>2
  <2> QED BY <2>1, <2>2
<1>6. Len(s) - p \in 2..4
  BY <1>2
<1>7. TokenLen(s, p) = Len(g)
  BY <1>1, <1>2, <1>4, <1>5, <1>6 DEF TokenLen
<1>8. TokenBytes(s, p) = TailBytes(g)
  BY <1>1, <1>4, <1>6 DEF TokenBytes
<1> QED BY <1>7, <1>8

\* A construct's characters are a token, and are decoded to what it stands for.
LEMMA UnitToken ==
  ASSUME NEW s \in Seq(Char), NEW p, NEW d, NEW u, NEW b, Spelled(d, u, b), NEW c,
         c = UnitChars(d, u), Placed(s, p, c), u.at + u.len = Len(d) => p + Len(c) = Len(s)
  PROVE  TokenLen(s, p) = Len(c) /\ TokenBytes(s, p) = b
<1>1. ASSUME \E v : Plain(v, b) /\ UnitChars(d, u) = Signal(v)
      PROVE  TokenLen(s, p) = Len(c) /\ TokenBytes(s, p) = b
  <2>1. PICK v : Plain(v, b) /\ c = Signal(v)
    BY <1>1
  <2>2. Len(Signal(v)) = 5
    BY <2>1, SignalRead DEF Plain
  <2> QED BY <2>1, <2>2, PlainPlaced
<1>2. CASE u.kind = "solid"
  BY <1>1, <1>2, SolidUnit
<1>3. CASE u.kind \in {"zerosFirst", "literalsFirst"}
  BY <1>1, <1>3, TailUnit
<1>4. CASE u.kind = "block" /\ u.len = 4
  BY <1>1, <1>4, GroupUnit
<1>5. CASE u.kind = "dp"
  <2>1. PICK q, mask, t : Segmented(d, u, b, q, mask, t)
    BY <1>5, SegmentUnit
  <2> QED BY <2>1, SegmentPlaced
<1>6. CASE u.kind = "block" /\ u.len # 4
  <2> DEFINE g == TailDigits(b)
  <2>1. /\ u.at + u.len = Len(d) /\ u.len \in 1..3 /\ c = Characters(g)
        /\ g \in Seq(Digit) /\ Len(g) = u.len + 1 /\ TailAccepted(g) /\ TailBytes(g) = b
    BY <1>6, ShortUnit
  <2> HIDE DEF g
  <2>2. Len(c) = Len(g) /\ Len(g) \in 2..4 /\ p + Len(g) = Len(s)
    BY <2>1, CharactersRead
  <2> QED BY <2>1, <2>2, ShortPlaced
<1>7. u.kind \in {"solid", "zerosFirst", "literalsFirst", "dp", "block"}
  BY DEF Spelled, StandsFor
<1> QED BY <1>2, <1>3, <1>4, <1>5, <1>6, <1>7

-----------------------------------------------------------------------------
(* A text that was written for some data.                                  *)

\* The token of s after p is decoded to the bytes of d after m, and S has where
\* both end.
MarkedStep(s, d, S, p, m) ==
  /\ TokenLen(s, p) # 0 /\ TokenBytes(s, p) \in Seq(Byte)
  /\ m + Len(TokenBytes(s, p)) <= Len(d)
  /\ \A j \in 1..Len(TokenBytes(s, p)) : TokenBytes(s, p)[j] = d[m + j]
  /\ <<p + TokenLen(s, p), m + Len(TokenBytes(s, p))>> \in S

\* S pairs places of s with places of d, so that s is decoded to d.
Marks(s, d, S) ==
  /\ <<0, 0>> \in S
  /\ \A p, m : <<p, m>> \in S =>
       /\ p \in 0..Len(s) /\ m \in 0..Len(d)
       /\ IF p = Len(s) THEN m = Len(d) ELSE MarkedStep(s, d, S, p, m)

\* What is written for data is of the alphabet, and is decoded to the data.
LEMMA WrittenMarks ==
  ASSUME NEW d \in Seq(Byte), NEW us, Spells(d, us), NEW s, s = Written(d, us)
  PROVE  s \in Seq(AlphabetN) /\ \E S : Marks(s, d, S)
<1> DEFINE n == Len(us)
           ss == [k \in 1..n |-> UnitChars(d, us[k])]
           at(k) == IF k = n THEN Len(d) ELSE us[k + 1].at
<1>1. n \in Nat /\ Len(d) \in Nat
  BY LenProperties DEF Spells
<1>2. \A k \in 1..n :
        /\ us[k].at \in 0..(Len(d) - 1) /\ us[k].len \in 1..(Len(d) - us[k].at)
        /\ us[k].at + us[k].len = at(k) /\ StandsFor(d, us[k])
  BY DEF Spells
<1>3. at(0) = 0
  <2>1. (IF n = 0 THEN Len(d) ELSE us[1].at) = 0
    BY DEF Spells
  <2>2. 0 + 1 = 1
    OBVIOUS
  <2> QED BY <1>1, <2>1, <2>2
<1>4. \A k \in 1..n : at(k - 1) = us[k].at
  <2> SUFFICES ASSUME NEW k \in 1..n PROVE at(k - 1) = us[k].at
    OBVIOUS
  <2>1. k - 1 # n /\ (k - 1) + 1 = k
    BY <1>1
  <2> QED BY <2>1
<1>5. \A k \in 0..n : at(k) \in 0..Len(d) /\ (at(k) = Len(d) => k = n)
  <2> SUFFICES ASSUME NEW k \in 0..n PROVE at(k) \in 0..Len(d) /\ (at(k) = Len(d) => k = n)
    OBVIOUS
  <2>1. CASE k = n
    BY <1>1, <2>1
  <2>2. CASE k # n
    <3>1. k + 1 \in 1..n
      BY <1>1, <2>2
    <3>2. us[k + 1].at \in 0..(Len(d) - 1) /\ at(k) = us[k + 1].at
      BY <1>2, <2>2, <3>1
    <3> HIDE DEF at
    <3> QED BY <1>1, <3>2
  <2> QED BY <2>1, <2>2
<1> DEFINE part(k) == SubSeq(d, us[k].at + 1, us[k].at + us[k].len)
<1>6. \A k \in 1..n : Spelled(d, us[k], part(k))
  BY <1>2 DEF Spelled
<1> HIDE DEF at, n, part
<1>7. \A k \in 1..n : /\ UnitChars(d, us[k]) \in Seq(AlphabetN)
                      /\ Len(UnitChars(d, us[k])) \in Nat \ {0}
  BY <1>6, UnitCharsAre
<1>8. /\ ss \in Seq(Seq(AlphabetN)) /\ Len(ss) = n /\ s = FlattenSeq(ss)
      /\ \A k \in 1..n : ss[k] = UnitChars(d, us[k])
  <2>1. ss \in [1..n -> Seq(AlphabetN)]
    BY <1>7
  <2>2. s = FlattenSeq(ss)
    BY DEF Written, n
  <2>3. \A k \in 1..n : ss[k] = UnitChars(d, us[k])
    OBVIOUS
  <2> HIDE DEF ss
  <2> QED BY <1>1, <2>1, <2>2, <2>3, SeqDef, LenProperties
<1> HIDE DEF ss
<1>9. s \in Seq(AlphabetN) /\ s \in Seq(Char) /\ Len(s) \in Nat
  BY <1>8, FlattenType, AlphabetText, LenProperties
<1>10. PICK e : Ends(e, ss)
  BY <1>8, FlattenEnds
<1>11. /\ e \in [0..n -> Nat] /\ e[0] = 0 /\ e[n] = Len(s)
       /\ \A k \in 1..n :
            /\ e[k] = e[k - 1] + Len(ss[k]) /\ e[k] <= Len(s)
            /\ \A j \in 1..Len(ss[k]) : s[e[k - 1] + j] = ss[k][j]
  BY <1>8, <1>10 DEF Ends
<1> DEFINE S == {<<e[k], at(k)>> : k \in 0..n}
<1>12. <<0, 0>> \in S
  <2>1. 0 \in 0..n
    BY <1>1
  <2>2. <<e[0], at(0)>> \in S
    BY <2>1
  <2> QED BY <1>3, <1>11, <2>2
<1>13. \A k \in 0..n : <<e[k], at(k)>> \in S
  OBVIOUS
<1>14. ASSUME NEW k \in 1..n
       PROVE  MarkedStep(s, d, S, e[k - 1], at(k - 1)) /\ e[k - 1] < Len(s)
  <2> DEFINE p == e[k - 1]  c == ss[k]  u == us[k]  b == part(k)  m == at(k - 1)
  <2>1. k \in 0..n /\ k - 1 \in 0..n
    BY <1>1
  <2>2. p \in Nat /\ e[k] = p + Len(c) /\ e[k] <= Len(s) /\ \A j \in 1..Len(c) : s[p + j] = c[j]
    BY <1>11, <2>1
  <2>3. c = UnitChars(d, u) /\ Spelled(d, u, b) /\ Len(c) \in Nat \ {0}
    BY <1>6, <1>7, <1>8
  <2>4. at(k) = u.at + u.len /\ m = u.at
    BY <1>2, <1>4
  <2>5. u.at + u.len = Len(d) => p + Len(c) = Len(s)
    BY <1>5, <1>11, <2>1, <2>2, <2>4
  <2> HIDE DEF p, c, u, b, m, S
  <2>6. Placed(s, p, c)
    BY <2>2 DEF Placed
  <2>7. TokenLen(s, p) = Len(c) /\ TokenBytes(s, p) = b
    BY <1>9, <2>3, <2>5, <2>6, UnitToken
  <2>8. b \in Seq(Byte) /\ Len(b) = u.len /\ m + u.len <= Len(d)
        /\ \A j \in 1..u.len : b[j] = d[m + j]
    BY <2>3, <2>4, SpelledPart
  <2>9. <<p + Len(c), m + u.len>> \in S
    BY <1>13, <2>1, <2>2, <2>4
  <2>10. TokenLen(s, p) # 0
    BY <2>3, <2>7
  <2>11. MarkedStep(s, d, S, p, m)
    BY <2>7, <2>8, <2>9, <2>10 DEF MarkedStep
  <2>12. p < Len(s)
    BY <1>9, <2>2, <2>3
  <2> QED BY <2>11, <2>12 DEF p, m
<1>15. ASSUME NEW p, NEW m, <<p, m>> \in S
       PROVE  /\ p \in 0..Len(s) /\ m \in 0..Len(d)
              /\ IF p = Len(s) THEN m = Len(d) ELSE MarkedStep(s, d, S, p, m)
  <2>1. PICK i \in 0..n : p = e[i] /\ m = at(i)
    BY <1>15
  <2> HIDE DEF S
  <2>2. m \in 0..Len(d) /\ e[i] \in Nat
    BY <1>5, <1>11, <2>1
  <2>3. CASE i = n
    <3>1. p = Len(s) /\ p \in 0..Len(s)
      BY <1>9, <1>11, <2>1, <2>2, <2>3
    <3>2. m = Len(d)
      BY <2>1, <2>3 DEF at
    <3> QED BY <2>2, <3>1, <3>2
  <2>4. CASE i # n
    <3> DEFINE k == i + 1
    <3>1. k \in 1..n /\ k - 1 = i
      BY <1>1, <2>4
    <3> HIDE DEF k
    <3>2. MarkedStep(s, d, S, e[k - 1], at(k - 1)) /\ e[k - 1] < Len(s)
      BY <1>14, <3>1
    <3>3. MarkedStep(s, d, S, p, m) /\ p < Len(s)
      BY <2>1, <3>1, <3>2
    <3> QED BY <1>9, <2>1, <2>2, <3>3
  <2> QED BY <2>3, <2>4
<1>16. Marks(s, d, S)
  <2> HIDE DEF S
  <2> QED BY <1>12, <1>15 DEF Marks
<1> QED BY <1>9, <1>16

-----------------------------------------------------------------------------
(* What is encoded is decoded.                                             *)

\* What a scan's step writes behind what is written, it finds there.
LEMMA EmitWrites ==
  ASSUME DecInv, NEW b \in Seq(Byte), NEW n, Emit(b, n)
  PROVE  /\ w' = w + Len(b) /\ pos' = pos + n
         /\ \A i \in 1..w : out'[i] = out[i]
         /\ \A j \in 1..Len(b) : out'[w + j] = b[j]
<1> DEFINE more == Reserved(Len(b))  size == Len(b)
<1>1. out' = Put(more, b) /\ w' = w + Len(b) /\ pos' = pos + n
  BY DEF Emit
<1>2. out \in Seq(Byte) /\ w \in 0..Len(out) /\ Len(out) \in Nat /\ Len(b) \in Nat
  BY LenProperties DEF DecInv, TypeOK
<1>3. /\ more \in Seq(Byte) /\ Len(more) >= Len(out) /\ Len(more) >= w + Len(b)
      /\ \A i \in 1..Len(out) : more[i] = out[i]
  BY <1>2, ReservedHolds
<1>4. Put(more, b) = [i \in 1..Len(more) |-> IF i \in (w + 1)..(w + Len(b)) THEN b[i - w] ELSE more[i]]
  BY DEF Put
<1>5. Len(more) \in Nat
  BY <1>3, LenProperties
<1> HIDE DEF more, size
<1>6. ASSUME NEW i \in 1..w PROVE out'[i] = out[i]
  <2>1. i \in 1..Len(more) /\ i \in 1..Len(out) /\ i \notin (w + 1)..(w + Len(b))
    BY <1>2, <1>3, <1>5
  <2> QED BY <1>1, <1>3, <1>4, <2>1
<1>7. ASSUME NEW j \in 1..Len(b) PROVE out'[w + j] = b[j]
  <2>1. w + j \in 1..Len(more) /\ w + j \in (w + 1)..(w + Len(b)) /\ (w + j) - w = j
    BY <1>2, <1>3, <1>5
  <2> QED BY <1>1, <1>4, <2>1
<1> QED BY <1>1, <1>6, <1>7

\* The step that reads the token at the scan's place.
ReadsOne == ReadLoneBlock \/ ReadTail \/ ReadFill \/ ReadSegment \/ ReadFinal

\* It writes that token's bytes and goes past its characters.
LEMMA ReadsToken ==
  ASSUME DecInv, ReadsOne
  PROVE  /\ Scanning /\ pos # Len(src)
         /\ UNCHANGED <<text, sent, tier, src>>
         /\ Emit(TokenBytes(src, pos), TokenLen(src, pos))
<1>1. ASSUME Alone
      PROVE  /\ Scanning /\ pos # Len(src) /\ ~(Len(src) - pos < 5)
             /\ GroupValue(1) = ValueAt(src, pos) /\ GroupValue(1) \in Nat
             /\ pos + 5 <= Len(src) /\ Clean(src, pos, 5) /\ src \in Seq(Char)
             /\ pos \in 0..Len(src)
  <2>1. /\ Scanning /\ Remaining \in Nat /\ Remaining >= 5 /\ pos + 5 <= Len(src)
        /\ Clean(src, pos, 5) /\ GroupValue(1) = ValueAt(src, pos) /\ GroupValue(1) \in Nat
    BY <1>1, AloneHere
  <2>2. /\ src \in Seq(Char) /\ Len(src) \in Nat /\ pos \in 0..Len(src) /\ pos \in Nat
    BY <2>1, Here
  <2> QED BY <2>1, <2>2
<1>2. ASSUME Alone, GroupValue(1) \notin DpSignalBase..(FillSignalBase - 1),
             GroupValue(1) < FutureSignalBase
      PROVE  TokenLen(src, pos) = 5 /\ TokenBytes(src, pos) = ValueBytes(GroupValue(1))
  <2>1. \/ ValueAt(src, pos) < DpSignalBase
        \/ ValueAt(src, pos) >= FillSignalBase /\ ValueAt(src, pos) < FutureSignalBase
    BY <1>1, <1>2, RangeTypes
  <2>2. TokenLen(src, pos) = 5
    BY <1>1, <1>2, <2>1, PlainToken
  <2>3. ~AtSignal(src, pos)
    BY <1>1, <1>2 DEF AtSignal
  <2> QED BY <1>1, <1>2, <2>2, <2>3 DEF TokenBytes
<1>3. CASE ReadLoneBlock
  <2>1. /\ Alone /\ GroupValue(1) < DpSignalBase /\ Emit(ValueToBytes(GroupValue(1)), 5)
        /\ UNCHANGED <<text, sent, tier, src>>
    BY <1>3 DEF ReadLoneBlock
  <2>2. /\ GroupValue(1) \notin DpSignalBase..(FillSignalBase - 1)
        /\ GroupValue(1) < FutureSignalBase
    BY <1>1, <2>1, RangeTypes, RangeOrder
  <2>3. ValueBytes(GroupValue(1)) = ValueToBytes(GroupValue(1))
    BY <2>1 DEF ValueBytes
  <2> QED BY <1>1, <1>2, <2>1, <2>2, <2>3
<1>4. CASE ReadTail
  <2> DEFINE v == GroupValue(1)
             tail == SplitTail(v - TailSignalBase)
             b == IF tail.order = 0 THEN Zeros(tail.zeros) \o tail.lit
                  ELSE tail.lit \o Zeros(tail.zeros)
  <2>1. /\ Alone /\ v \in TailSignalBase..(FutureSignalBase - 1) /\ Emit(b, 5)
        /\ UNCHANGED <<text, sent, tier, src>>
    BY <1>4 DEF ReadTail
  <2>2. /\ v \notin DpSignalBase..(FillSignalBase - 1) /\ v < FutureSignalBase
        /\ ~(v < DpSignalBase) /\ ~(v < TailSignalBase)
    BY <1>1, <2>1, RangeTypes, RangeOrder
  <2>3. ValueBytes(v) = b
    BY <2>2 DEF ValueBytes, Zeros
  <2> HIDE DEF b
  <2> QED BY <1>1, <1>2, <2>1, <2>2, <2>3
<1>5. CASE ReadFill
  <2> DEFINE v == GroupValue(1)
             fill == SplitFill(v - FillSignalBase)
             b == [i \in 1..fill.len |-> fill.byte]
  <2>1. /\ Alone /\ v \in FillSignalBase..(TailSignalBase - 1) /\ Emit(b, 5)
        /\ UNCHANGED <<text, sent, tier, src>>
    BY <1>5 DEF ReadFill
  <2>2. /\ v \notin DpSignalBase..(FillSignalBase - 1) /\ v < FutureSignalBase
        /\ ~(v < DpSignalBase) /\ v < TailSignalBase
    BY <1>1, <2>1, RangeTypes, RangeOrder
  <2>3. ValueBytes(v) = b
    BY <2>2 DEF ValueBytes
  <2> HIDE DEF b
  <2> QED BY <1>1, <1>2, <2>1, <2>2, <2>3
<1>6. CASE ReadSegment
  <2> DEFINE n == Segment.len
             map == DpTable(Segment.profile, Segment.mask)
             b == [j \in 1..n |-> map[SegmentChars[j]]]
             c == [j \in 1..n |-> map[src[pos + 5 + j]]]
  <2>1. /\ SegmentHere /\ SegmentFits /\ \A j \in 1..n : SegmentChars[j] \in AlphabetN
        /\ table' = SegmentTable
        /\ Emit([j \in 1..n |-> table'.map[SegmentChars[j]]], 5 + n)
        /\ UNCHANGED <<text, sent, tier, src>>
    BY <1>6 DEF ReadSegment
  <2>2. Alone /\ GroupValue(1) \in DpSignalBase..(FillSignalBase - 1)
    BY <2>1 DEF SegmentHere
  <2>3. TokenLen(src, pos) = 5 + n /\ n \in Nat
    BY <2>1, SegmentIs
  <2>4. SegmentTable.map = map
    BY <2>1, SegmentTableIs
  <2>5. Emit(b, 5 + n)
    BY <2>1, <2>4
  <2>6. AtSignal(src, pos) /\ Segment = SplitDp(ValueAt(src, pos) - DpSignalBase)
    BY <1>1, <2>2 DEF AtSignal, Segment
  <2>7. TokenBytes(src, pos) = c
    BY <1>1, <2>2, <2>6 DEF TokenBytes
  <2>8. \A j \in 1..n : SegmentChars[j] = src[pos + 5 + j]
    <3>1. pos + 5 \in Nat /\ pos + 5 + n <= Len(src) /\ (pos + 5) + 1 = pos + 6
      <4>1. pos \in Nat /\ Len(src) \in Nat /\ Remaining = Len(src) - pos
        BY <1>1, <2>2, Here
      <4>2. Len(src) - pos - 5 >= n
        BY <2>1, <4>1 DEF SegmentFits
      <4> HIDE DEF n
      <4> QED BY <2>3, <4>1, <4>2
    <3>2. SegmentChars = SubSeq(src, (pos + 5) + 1, (pos + 5) + n)
      BY <3>1 DEF SegmentChars
    <3> HIDE DEF n
    <3> QED BY <1>1, <2>2, <2>3, <3>1, <3>2, PartOf
  <2>9. b = c
    BY <2>8
  <2> HIDE DEF b, c, n
  <2> QED BY <1>1, <2>1, <2>2, <2>3, <2>5, <2>7, <2>9
<1>7. CASE ReadFinal
  <2>1. /\ TailHere /\ TailValid /\ Emit(TailBytes(Values(TailChars)), Remaining)
        /\ UNCHANGED <<text, sent, tier, src>>
    BY <1>7 DEF ReadFinal
  <2>2. Scanning /\ Remaining \in 1..4 /\ TokenLen(src, pos) = Remaining
    BY <2>1, FinalIs
  <2>3. Remaining = Len(src) - pos /\ Len(src) \in Nat /\ pos \in Nat
    BY <2>2, Here
  <2>4. TailChars = LastOf(src, pos)
    BY DEF TailChars, LastOf
  <2>5. TokenBytes(src, pos) = TailBytes(Values(TailChars))
    BY <2>2, <2>3, <2>4 DEF TokenBytes
  <2>6. pos # Len(src)
    BY <2>2, <2>3
  <2> QED BY <2>1, <2>2, <2>5, <2>6
<1> QED BY <1>3, <1>4, <1>5, <1>6, <1>7 DEF ReadsOne

\* A step writes what comes next in d.
Delivers(d, S) ==
  \E b \in Seq(Byte), n \in Nat :
    /\ Emit(b, n) /\ w + Len(b) <= Len(d)
    /\ \A j \in 1..Len(b) : b[j] = d[w + j]
    /\ <<pos + n, w + Len(b)>> \in S

\* Where the text marks data, a token read at a mark delivers the bytes up to another.
LEMMA ReadsOneDelivers ==
  ASSUME DecInv, ReadsOne, NEW d, NEW S, Marks(src, d, S), <<pos, w>> \in S
  PROVE  Delivers(d, S)
<1>1. Scanning /\ pos # Len(src) /\ Emit(TokenBytes(src, pos), TokenLen(src, pos))
  BY ReadsToken
<1>2. MarkedStep(src, d, S, pos, w)
  BY <1>1 DEF Marks
<1>3. TokenLen(src, pos) \in Nat
  BY <1>1, Here, TokenRange
<1> QED BY <1>1, <1>2, <1>3 DEF Delivers, MarkedStep

\* So does a run of blocks.
LEMMA ReadBlocksDelivers ==
  ASSUME DecInv, ReadBlocks, NEW d \in Seq(Byte), NEW S, Marks(src, d, S), <<pos, w>> \in S
  PROVE  Delivers(d, S)
<1> DEFINE n == Done
           ss == [k \in 1..n |-> ValueToBytes(GroupValue(k))]
           b == FlattenSeq(ss)
<1>1. Scanning /\ Emit(b, 5 * n)
  BY DEF ReadBlocks
<1>2. /\ n \in Nat /\ 5 * n \in 0..Remaining
      /\ \A j \in 1..n : GroupValue(j) \in 0..(Radix_4 - 1)
  BY <1>1, RunTokens
<1>3. /\ src \in Seq(Char) /\ Len(src) \in Nat /\ pos \in 0..Len(src) /\ pos \in Nat
      /\ Remaining = Len(src) - pos /\ Remaining \in Nat
  BY <1>1, Here
<1>4. w \in Nat /\ Len(d) \in Nat
  BY LenProperties DEF DecInv, TypeOK
<1> HIDE DEF n, b
<1>5. /\ \A k \in 1..n : ValueToBytes(GroupValue(k)) \in Seq(Byte)
                         /\ Len(ValueToBytes(GroupValue(k))) = 4
  BY <1>2, BlockBytes
<1>6. ss \in Seq(Seq(Byte)) /\ Len(ss) = n /\ \A k \in 1..n : ss[k] = ValueToBytes(GroupValue(k))
  <2>1. ss \in [1..n -> Seq(Byte)] /\ \A k \in 1..n : ss[k] = ValueToBytes(GroupValue(k))
    BY <1>5
  <2> HIDE DEF ss
  <2> QED BY <1>2, <2>1, SeqDef, LenProperties
<1> HIDE DEF ss
<1>7. b \in Seq(Byte) /\ Len(b) = 4 * n
      /\ \A k \in 1..n, j \in 1..4 : b[4 * (k - 1) + j] = ss[k][j]
  <2>1. \A k \in 1..Len(ss) : Len(ss[k]) = 4
    BY <1>5, <1>6
  <2>2. /\ Len(FlattenSeq(ss)) = 4 * Len(ss)
        /\ \A k \in 1..Len(ss), j \in 1..4 : FlattenSeq(ss)[4 * (k - 1) + j] = ss[k][j]
    BY <1>6, <2>1, FlattenFours
  <2>3. FlattenSeq(ss) \in Seq(Byte)
    BY <1>6, FlattenType
  <2> QED BY <1>6, <2>2, <2>3 DEF b
<1>8. ASSUME NEW k \in 1..n, NEW p, p = pos + 5 * (k - 1)
      PROVE  /\ p # Len(src) /\ TokenLen(src, p) = 5
             /\ TokenBytes(src, p) = ss[k]
  <2>1. k \in Nat \ {0} /\ 5 * k <= Remaining
    BY <1>2, <1>3
  <2>2. /\ p \in 0..Len(src) /\ p + 5 <= Len(src) /\ GroupValue(k) = ValueAt(src, p)
        /\ GroupValid(k) <=> Clean(src, p, 5)
    BY <1>1, <1>8, <2>1, GroupIs
  <2>3. Clean(src, p, 5)
    <3>1. IsBlock(k)
      BY <1>1, RunFacts DEF n
    <3> QED BY <2>2, <3>1 DEF IsBlock
  <2>4. GroupValue(k) < DpSignalBase /\ GroupValue(k) \in Nat
    BY <1>2, RangeTypes
  <2>5. TokenLen(src, p) = 5
    BY <1>3, <2>2, <2>3, <2>4, PlainToken
  <2>6. ~AtSignal(src, p) /\ ~(Len(src) - p < 5) /\ p # Len(src)
    BY <1>3, <2>2, <2>4, RangeTypes DEF AtSignal
  <2>7. TokenBytes(src, p) = ValueToBytes(GroupValue(k))
    BY <2>2, <2>4, <2>6 DEF TokenBytes, ValueBytes
  <2> QED BY <1>6, <2>5, <2>6, <2>7
<1> DEFINE T == {k \in 0..n : /\ <<pos + 5 * k, w + 4 * k>> \in S
                              /\ \A i \in 1..(4 * k) : b[i] = d[w + i]}
<1>9. 0 \in T
  <2>1. pos + 5 * 0 = pos /\ w + 4 * 0 = w /\ 1..(4 * 0) = {}
    BY <1>3, <1>4
  <2>2. 0 \in 0..n
    BY <1>2
  <2> QED BY <2>1, <2>2
<1>10. ASSUME NEW k \in 1..n, k - 1 \in T PROVE k \in T
  <2> DEFINE p == pos + 5 * (k - 1)  m == w + 4 * (k - 1)
  <2>1. <<p, m>> \in S /\ \A i \in 1..(4 * (k - 1)) : b[i] = d[w + i]
    BY <1>10
  <2>2. p # Len(src) /\ TokenLen(src, p) = 5 /\ TokenBytes(src, p) = ss[k]
    BY <1>8
  <2>3. p + 5 = pos + 5 * k /\ m + 4 = w + 4 * k
    BY <1>2, <1>3, <1>4
  <2>4. MarkedStep(src, d, S, p, m)
    <3> HIDE DEF p, m
    <3> QED BY <2>1, <2>2 DEF Marks
  <2>5. Len(ss[k]) = 4
    BY <1>5, <1>6
  <2>6. /\ \A j \in 1..4 : ss[k][j] = d[m + j]
        /\ <<p + 5, m + 4>> \in S
    <3> HIDE DEF p, m
    <3> QED BY <2>2, <2>4, <2>5 DEF MarkedStep
  <2>7. ASSUME NEW i \in 1..(4 * k) PROVE b[i] = d[w + i]
    <3>1. CASE i \in 1..(4 * (k - 1))
      BY <2>1, <3>1
    <3>2. CASE i \notin 1..(4 * (k - 1))
      <4> DEFINE j == i - 4 * (k - 1)
      <4>1. j \in 1..4 /\ 4 * (k - 1) + j = i /\ m + j = w + i
        BY <1>2, <1>4, <3>2
      <4> HIDE DEF j, m, p
      <4>2. b[4 * (k - 1) + j] = ss[k][j] /\ ss[k][j] = d[m + j]
        BY <1>7, <2>6, <4>1
      <4> QED BY <4>1, <4>2
    <3> QED BY <3>1, <3>2
  <2>8. k \in 0..n
    BY <1>2
  <2> QED BY <2>3, <2>6, <2>7, <2>8
<1> HIDE DEF T
<1>11. n \in T
  <2>1. \A k \in 0..n : k \in T
    BY <1>2, <1>9, <1>10, CountingUp
  <2> QED BY <1>2, <2>1
<1>12. <<pos + 5 * n, w + Len(b)>> \in S /\ \A i \in 1..Len(b) : b[i] = d[w + i]
  BY <1>7, <1>11 DEF T
<1>13. w + Len(b) <= Len(d)
  <2> DEFINE p == pos + 5 * n  m == w + Len(b)
  <2>1. <<p, m>> \in S
    BY <1>12
  <2> HIDE DEF p, m
  <2>2. m \in 0..Len(d)
    BY <2>1 DEF Marks
  <2> QED BY <1>4, <2>2 DEF m
<1>14. 5 * n \in Nat
  BY <1>2
<1> QED BY <1>1, <1>7, <1>12, <1>13, <1>14 DEF Delivers

\* What a step writes is what comes next.
LEMMA DeliversOn ==
  ASSUME DecInv, NEW d, NEW S, Delivers(d, S), \A i \in 1..w : out[i] = d[i]
  PROVE  <<pos', w'>> \in S /\ \A i \in 1..w' : out'[i] = d[i]
<1>1. PICK b \in Seq(Byte), n \in Nat :
        /\ Emit(b, n) /\ w + Len(b) <= Len(d)
        /\ \A j \in 1..Len(b) : b[j] = d[w + j]
        /\ <<pos + n, w + Len(b)>> \in S
  BY DEF Delivers
<1>2. /\ w' = w + Len(b) /\ pos' = pos + n
      /\ \A i \in 1..w : out'[i] = out[i]
      /\ \A j \in 1..Len(b) : out'[w + j] = b[j]
  BY <1>1, EmitWrites
<1>3. w \in Nat /\ Len(b) \in Nat
  BY LenProperties DEF DecInv, TypeOK
<1>4. ASSUME NEW i \in 1..w' PROVE out'[i] = d[i]
  <2>1. CASE i \in 1..w
    BY <1>2, <2>1
  <2>2. CASE i \notin 1..w
    <3> DEFINE j == i - w
    <3>1. j \in 1..Len(b) /\ w + j = i
      BY <1>2, <1>3, <2>2
    <3> HIDE DEF j
    <3> QED BY <1>1, <1>2, <3>1
  <2> QED BY <2>1, <2>2
<1> QED BY <1>1, <1>2, <1>4

\* A scan is where S pairs it, and what it has written is the beginning of d.
Follows(d, S) ==
  /\ tier \in {"scan", "rescan", "ok"}
  /\ Scanning /\ src = Significant => <<pos, w>> \in S
  /\ (Scanning /\ src = Significant) \/ tier = "ok" => \A i \in 1..w : out[i] = d[i]
  /\ tier = "ok" => w = Len(d)

\* The decoder of a text that was written for what was sent.
SentSound ==
  sent \in Seq(Byte) =>
    /\ Clean(Significant, 0, Len(Significant))
    /\ \E S : Marks(Significant, sent, S) /\ Follows(sent, S)

\* A text whose significant characters are all of the alphabet, once it is
\* scanned to its end, was scanned as those; one that is not them is scanned
\* first and has white space.
LEMMA CleanSource ==
  ASSUME DecInv, Clean(Significant, 0, Len(Significant)), tier \in {"scan", "rescan", "ok"}
  PROVE  /\ tier = "rescan" => src = Significant
         /\ tier = "scan" => WithoutSpace(src) = Significant
         /\ Clean(src, 0, Len(src)) /\ Scanning => src = Significant
         /\ (\A i \in 1..Len(src) : src[i] \notin Whitespace) /\ Scanning => src = Significant
<1>1. Utf8(text) = text
  BY AllClean DEF DecInv, ScanSound
<1>2. /\ tier = "rescan" => src = Significant
      /\ tier = "scan" => src = text
      /\ src \in Seq(Char) /\ Len(src) \in Nat
  BY <1>1, LenProperties DEF DecInv, ScanSound, TypeOK, Significant
<1>3. (\A i \in 1..Len(src) : src[i] \notin Whitespace) /\ tier = "scan" => src = Significant
  BY <1>2, WithoutSpaceFacts DEF Significant
<1>4. Clean(src, 0, Len(src)) => \A i \in 1..Len(src) : src[i] \notin Whitespace
  <2> SUFFICES ASSUME Clean(src, 0, Len(src)), NEW i \in 1..Len(src) PROVE src[i] \notin Whitespace
    OBVIOUS
  <2>1. i \in (0 + 1)..(0 + Len(src))
    BY <1>2
  <2>2. src[i] \in AlphabetN
    BY <2>1 DEF Clean
  <2> QED BY <2>2, WireAssumption
<1> QED BY <1>2, <1>3, <1>4 DEF Scanning, Significant

\* What is written is never stuck.
LEMMA MarksNeverStuck ==
  ASSUME NEW s \in Seq(Char), NEW d, NEW S, Marks(s, d, S)
  PROVE  ~ \E r \in ReachFrom(s, 0) : Stuck(s, r)
<1> SUFFICES ASSUME NEW r \in ReachFrom(s, 0), Stuck(s, r) PROVE FALSE
  OBVIOUS
<1> DEFINE P == {p \in 0..Len(s) : \E m : <<p, m>> \in S}
<1>1. 0 \in P
  <2>1. <<0, 0>> \in S
    BY DEF Marks
  <2>2. 0 \in 0..Len(s)
    BY LenProperties
  <2> QED BY <2>1, <2>2
<1>2. ASSUME NEW p \in P, TokenLen(s, p) # 0 PROVE p + TokenLen(s, p) \in P
  <2>1. PICK m : <<p, m>> \in S
    OBVIOUS
  <2>2. p # Len(s)
    <3>1. TokenLen(s, p) \in 0..(Len(s) - p) /\ Len(s) \in Nat
      BY TokenRange, LenProperties
    <3> QED BY <1>2, <3>1
  <2>3. <<p + TokenLen(s, p), m + Len(TokenBytes(s, p))>> \in S
    BY <2>1, <2>2 DEF Marks, MarkedStep
  <2>4. p + TokenLen(s, p) \in 0..Len(s)
    BY <2>3 DEF Marks
  <2> QED BY <2>3, <2>4
<1>3. Closed(s, P)
  BY <1>2 DEF Closed
<1>4. P \in SUBSET (0..Len(s))
  OBVIOUS
<1>5. r \in P
  <2> HIDE DEF P
  <2> QED BY <1>1, <1>3, <1>4 DEF ReachFrom
<1>6. PICK m : <<r, m>> \in S
  BY <1>5
<1>7. r # Len(s) /\ TokenLen(s, r) = 0
  <2>1. r < Len(s) /\ Len(s) \in Nat /\ r \in 0..Len(s)
    BY <1>5, LenProperties DEF Stuck
  <2> QED BY <2>1 DEF Stuck
<1> QED BY <1>6, <1>7 DEF Marks, MarkedStep

\* The beginning of the buffer.
LEMMA BeginOf ==
  ASSUME out \in Seq(Byte), w \in 0..Len(out)
  PROVE  /\ SubSeq(out, 1, w) \in Seq(Byte) /\ Len(SubSeq(out, 1, w)) = w
         /\ \A i \in 1..w : SubSeq(out, 1, w)[i] = out[i]
<1>1. 0 \in Nat /\ w \in Nat /\ 0 + w <= Len(out) /\ 0 + 1 = 1 /\ 0 + w = w
      /\ \A i \in 1..w : 0 + i = i
  BY LenProperties
<1>2. /\ SubSeq(out, 0 + 1, 0 + w) \in Seq(Byte) /\ Len(SubSeq(out, 0 + 1, 0 + w)) = w
      /\ \A i \in 1..w : SubSeq(out, 0 + 1, 0 + w)[i] = out[0 + i]
  BY <1>1, PartIn
<1> QED BY <1>1, <1>2

\* What is decoded stays what it is; only a report follows a report.
LEMMA StaysSent ==
  ASSUME Scan \/ Report
  PROVE  /\ UNCHANGED <<text, sent>>
         /\ Report => Reporting
<1>1. CASE Scan
  <2>1. Rejection => UNCHANGED <<text, sent>>
    BY DEF Rejection, RejectGroup, RejectSignal, RejectShortSegment, RejectSegment, RejectFinal,
           Reject
  <2>2. UNCHANGED <<text, sent>>
    BY <1>1, <2>1 DEF Scan, Rejection, ReadBlocks, ReadLoneBlock, ReadTail, ReadFill, ReadSegment,
                      ReadFinal, Accept
  <2> QED BY <2>2 DEF Report, ReportGroup, ReportSignal, PassGroup, ReportSegment,
                      PassSegment, ReportEnd, AtSegment, CleanGroup, FullGroup
<1>2. CASE Report
  BY <1>2 DEF Report, ReportGroup, ReportSignal, PassGroup, ReportSegment, PassSegment, ReportEnd,
              AtSegment, CleanGroup, FullGroup, Blame, BlameFirst, Pass
<1> QED BY <1>1, <1>2

\* A step that reads keeps the scan on what was sent.
LEMMA ReadFollows ==
  ASSUME DecInv, ReadBlocks \/ ReadsOne, sent \in Seq(Byte), NEW S, Marks(Significant, sent, S),
         Follows(sent, S)
  PROVE  Follows(sent, S)' /\ Significant' = Significant /\ sent' = sent
<1>1. Scanning /\ UNCHANGED <<text, sent, tier, src>>
  <2>1. ReadBlocks => Scanning /\ UNCHANGED <<text, sent, tier, src>>
    BY DEF ReadBlocks
  <2> QED BY <2>1, ReadsToken
<1>2. Significant' = Significant /\ Scanning' /\ tier' # "ok"
  BY <1>1 DEF Significant, Scanning
<1>3. ASSUME src = Significant
      PROVE  <<pos', w'>> \in S /\ \A i \in 1..w' : out'[i] = sent[i]
  <2>1. Marks(src, sent, S) /\ <<pos, w>> \in S /\ \A i \in 1..w : out[i] = sent[i]
    BY <1>1, <1>3 DEF Follows
  <2>2. Delivers(sent, S)
    BY <2>1, ReadsOneDelivers, ReadBlocksDelivers
  <2> QED BY <2>1, <2>2, DeliversOn
<1> QED BY <1>1, <1>2, <1>3 DEF Follows

\* The scan of a spelling goes from mark to mark, and is never rejected.
LEMMA ScanFollows ==
  ASSUME DecInv, DecInv', Scan, sent \in Seq(Byte), Clean(Significant, 0, Len(Significant)),
         NEW S, Marks(Significant, sent, S), Follows(sent, S)
  PROVE  Follows(sent, S)' /\ Significant' = Significant /\ sent' = sent
<1>1. CASE ReadBlocks \/ ReadsOne
  BY <1>1, ReadFollows
<1>2. tier \in {"scan", "rescan", "ok"} /\ Significant \in Seq(Char)
  <2>1. text \in Seq(Char)
    BY DEF DecInv, ScanSound
  <2> QED BY <2>1, WithoutSpaceFacts DEF Follows, Significant
<1>3. CASE Accept
  <2>1. /\ Scanning /\ Remaining = 0 /\ tier' = "ok" /\ out' = SubSeq(out, 1, w)
        /\ UNCHANGED <<text, sent, src, pos, w>>
    BY <1>3 DEF Accept
  <2>2. /\ pos = Len(src) /\ Len(src) \in Nat /\ out \in Seq(Byte) /\ w \in 0..Len(out)
        /\ Len(out) \in Nat
    <3>1. Len(src) \in Nat /\ pos \in 0..Len(src) /\ Len(out) \in Nat
      BY LenProperties DEF DecInv, TypeOK
    <3> QED BY <2>1, <3>1 DEF Remaining, DecInv, TypeOK
  <2>3. Clean(src, 0, Len(src))
    BY <2>1, <2>2 DEF DecInv, ScanSound
  <2>4. src = Significant
    BY <1>2, <2>1, <2>3, CleanSource
  <2>5. <<pos, w>> \in S /\ \A i \in 1..w : out[i] = sent[i]
    BY <2>1, <2>4 DEF Follows
  <2>6. w = Len(sent)
    BY <2>2, <2>4, <2>5 DEF Marks
  <2>7. \A i \in 1..w : out'[i] = out[i]
    BY <2>1, <2>2, BeginOf
  <2>8. Significant' = Significant /\ ~Scanning'
    BY <2>1 DEF Significant, Scanning
  <2> QED BY <2>1, <2>5, <2>6, <2>7, <2>8 DEF Follows
<1>4. CASE Rejection
  <2>1. Scanning /\ \E r \in ReachFrom(src, 0) : Stuck(src, r)
    BY <1>4, RejectionIs
  <2>2. PICK buffer : Reject(buffer)
    BY <1>4, RejectionIs
  <2>3. src # Significant
    BY <1>2, <2>1, MarksNeverStuck
  <2>4. tier = "scan" /\ WithoutSpace(src) = Significant /\ \E i \in 1..Len(src) : src[i] \in Whitespace
    BY <1>2, <2>1, <2>3, CleanSource DEF Scanning
  <2>5. Retry
    BY <2>4 DEF Retry
  <2>6. /\ tier' = "rescan" /\ src' = Significant /\ pos' = 0 /\ w' = 0
        /\ UNCHANGED <<text, sent>>
    BY <2>2, <2>4, <2>5 DEF Reject
  <2>7. Significant' = Significant
    BY <2>6 DEF Significant
  <2>8. <<pos', w'>> \in S
    BY <2>6 DEF Marks
  <2> QED BY <2>6, <2>7, <2>8 DEF Follows
<1> QED BY <1>1, <1>3, <1>4 DEF Scan, ReadsOne, Rejection

\* Every step keeps what is known of a text sent.
LEMMA NextSentSound ==
  ASSUME DecInv, DecInv', SentSound, [Next]_vars
  PROVE  SentSound'
<1> SUFFICES ASSUME sent' \in Seq(Byte)
             PROVE  /\ Clean(Significant', 0, Len(Significant'))
                    /\ \E S : Marks(Significant', sent', S) /\ Follows(sent, S)'
  BY DEF SentSound
<1>1. CASE UNCHANGED vars
  <2>1. UNCHANGED <<text, sent, tier, src, pos, out, w>>
    BY <1>1 DEF vars
  <2>2. Significant' = Significant
    BY <2>1 DEF Significant
  <2>3. PICK S : Marks(Significant, sent, S) /\ Follows(sent, S)
    BY <2>1 DEF SentSound
  <2>4. Follows(sent, S)'
    BY <2>1, <2>2, <2>3 DEF Follows, Scanning
  <2> QED BY <2>1, <2>2, <2>3, <2>4 DEF SentSound
<1>2. CASE Scan
  <2>1. sent' = sent
    BY <1>2, StaysSent
  <2>2. Clean(Significant, 0, Len(Significant))
    BY <2>1 DEF SentSound
  <2>3. PICK S : Marks(Significant, sent, S) /\ Follows(sent, S)
    BY <2>1 DEF SentSound
  <2>4. Follows(sent, S)' /\ Significant' = Significant
    BY <1>2, <2>1, <2>2, <2>3, ScanFollows
  <2> QED BY <2>1, <2>2, <2>3, <2>4
<1>3. CASE Report
  <2>1. Reporting /\ sent' = sent
    BY <1>3, StaysSent
  <2> QED BY <2>1 DEF SentSound, Follows, Reporting
<1> QED BY <1>1, <1>2, <1>3 DEF Next

\* That is so at the start.
LEMMA InitSentSound ==
  ASSUME Init
  PROVE  SentSound
<1>1. PICK c \in Cases :
        /\ text = c.text /\ sent = c.sent /\ tier = "scan" /\ pos = 0 /\ w = 0
  BY DEF Init
<1> SUFFICES ASSUME sent \in Seq(Byte)
             PROVE  /\ Clean(Significant, 0, Len(Significant))
                    /\ \E S : Marks(Significant, sent, S) /\ Follows(sent, S)
  BY DEF SentSound
<1>2. sent # CutShort /\ sent # Garbled
  <2>1. -1 \notin Byte /\ -2 \notin Byte
    BY OctetIsByte DEF Octet
  <2>2. \A i \in 1..Len(sent) : sent[i] \in Byte
    BY ElementOfSeq
  <2>3. ASSUME NEW x, x \notin Byte, sent = <<x>> PROVE FALSE
    <3>1. Len(sent) = 1 /\ sent[1] = x
      BY <2>3
    <3>2. 1 \in 1..Len(sent)
      BY <3>1
    <3> QED BY <2>2, <2>3, <3>1, <3>2
  <2> QED BY <2>1, <2>3 DEF CutShort, Garbled
<1>3. Spells(sent, c.units) /\ Significant = Written(sent, c.units)
  BY <1>1, <1>2, CasesAssumption DEF Significant
<1>4. Significant \in Seq(AlphabetN) /\ \E S : Marks(Significant, sent, S)
  BY <1>3, WrittenMarks
<1>5. Clean(Significant, 0, Len(Significant))
  <2>1. \A i \in 1..Len(Significant) : Significant[i] \in AlphabetN
    BY <1>4, ElementOfSeq
  <2>2. Len(Significant) \in Nat
    BY <1>4, LenProperties
  <2> QED BY <2>1, <2>2 DEF Clean
<1>6. PICK S : Marks(Significant, sent, S)
  BY <1>4
<1>7. Follows(sent, S)
  BY <1>1, <1>6 DEF Follows, Marks
<1> QED BY <1>5, <1>6, <1>7

\* For every text that was written for some bytes, by whatever choice of
\* constructs and with white space wherever it was put: those bytes are what it is
\* decoded to, and no scan gives it up but the first, which does not know of white
\* space.
THEOREM DecRoundTrip == Spec => []RoundTrip
<1>1. DecInv /\ DecInv' /\ SentSound /\ [Next]_vars => SentSound'
  BY NextSentSound
<1>2. DecInv /\ SentSound => RoundTrip
  <2> SUFFICES ASSUME DecInv, SentSound, Answered, sent \in Seq(Byte)
               PROVE  tier = "ok" /\ Data = sent
    BY DEF RoundTrip
  <2>1. PICK S : Follows(sent, S)
    BY DEF SentSound
  <2>2. tier = "ok" /\ w = Len(sent) /\ \A i \in 1..w : out[i] = sent[i]
    BY <2>1 DEF Follows, Answered
  <2>3. out \in Seq(Byte) /\ w \in 0..Len(out)
    BY DEF DecInv, TypeOK
  <2>4. /\ SubSeq(out, 1, w) \in Seq(Byte) /\ Len(SubSeq(out, 1, w)) = w
        /\ \A i \in 1..w : SubSeq(out, 1, w)[i] = out[i]
    BY <2>3, BeginOf
  <2>5. SubSeq(out, 1, w) = sent
    BY <2>2, <2>4, SeqEqual
  <2> QED BY <2>2, <2>5 DEF Data
<1>3. Init => SentSound
  BY InitSentSound
<1> QED BY DecInvariant, <1>1, <1>2, <1>3, PTL DEF Spec

-----------------------------------------------------------------------------
(* A text that ends inside a segment.                                      *)

\* A character that is not ASCII is found in the bytes of the text.
LEMMA WideStays ==
  ASSUME NEW s \in Seq(Char), NEW i \in 1..Len(s), s[i] = WideChar
  PROVE  \E j \in 1..Len(Utf8(s)) : Utf8(s)[j] = WideChar
<1> DEFINE n == Len(s)
           ss == [k \in 1..n |-> IF s[k] = WideChar THEN <<WideChar, WideChar>> ELSE <<s[k]>>]
<1>1. n \in Nat /\ \A k \in 1..n : s[k] \in Char
  BY LenProperties, ElementOfSeq
<1>2. Utf8(s) = FlattenSeq(ss)
  BY DEF Utf8
<1>3. ss \in [1..n -> Seq(Char)] /\ ss[i] = <<WideChar, WideChar>>
  <2>1. \A c \in Char : <<c>> \in Seq(Char) /\ <<c, c>> \in Seq(Char)
    OBVIOUS
  <2>2. WideChar \in Char
    BY DEF Char
  <2> HIDE DEF n
  <2> QED BY <1>1, <2>1, <2>2 DEF n
<1> HIDE DEF ss
<1>4. ss \in Seq(Seq(Char)) /\ Len(ss) = n
  BY <1>1, <1>3, SeqDef, LenProperties
<1>5. PICK e : Ends(e, ss)
  BY <1>4, FlattenEnds
<1>6. Len(ss[i]) = 2 /\ ss[i][1] = WideChar
  BY <1>3
<1>7. /\ e[i - 1] \in Nat /\ e[i] = e[i - 1] + 2 /\ e[i] <= Len(Utf8(s))
      /\ Utf8(s)[e[i - 1] + 1] = WideChar
  <2>1. i \in 1..Len(ss) /\ i - 1 \in 0..Len(ss) /\ 1 \in 1..Len(ss[i])
    BY <1>1, <1>4, <1>6
  <2> QED BY <1>2, <1>5, <1>6, <2>1 DEF Ends
<1>8. Len(Utf8(s)) \in Nat
  BY Utf8Facts, LenProperties
<1>9. e[i - 1] + 1 \in 1..Len(Utf8(s))
  BY <1>7, <1>8
<1> QED BY <1>7, <1>9

\* What is not white space is left where it is left out.
LEMMA OtherStays ==
  ASSUME NEW s \in Seq(Char), NEW i \in 1..Len(s), s[i] \notin Whitespace
  PROVE  \E j \in 1..Len(WithoutSpace(s)) : WithoutSpace(s)[j] = s[i]
<1>1. Len(s) \in Nat /\ Len(WithoutSpace(s)) \in Nat /\ i - 1 \in 0..Len(s)
  BY WithoutSpaceFacts, LenProperties
<1>2. /\ KeptOf(s, i - 1) \in Nat /\ KeptOf(s, i) = KeptOf(s, i - 1) + 1
      /\ KeptOf(s, i) <= Len(WithoutSpace(s))
      /\ WithoutSpace(s)[KeptOf(s, i)] = s[i]
  BY <1>1, KeptInOrder
<1>3. KeptOf(s, i) \in 1..Len(WithoutSpace(s))
  BY <1>1, <1>2
<1> QED BY <1>2, <1>3

\* A scan that finds no fault reads the significant characters.
LEMMA AcceptedSource ==
  ASSUME DecInv, Scanning, Clean(src, 0, Len(src))
  PROVE  src = Significant
<1>1. /\ src \in Seq(Char) /\ Len(src) \in Nat /\ text \in Seq(Char)
      /\ src = Utf8(text) \/ src = WithoutSpace(Utf8(text))
  BY LenProperties DEF DecInv, ScanSound, TypeOK, Scanning
<1>2. \A j \in 1..Len(src) : src[j] \in AlphabetN
  BY <1>1 DEF Clean
<1>3. WideChar \notin AlphabetN /\ WideChar \notin Whitespace /\ Whitespace \cap AlphabetN = {}
  BY WireAssumption, BytesAssumption
<1>4. Utf8(text) = text
  <2>1. ASSUME NEW i \in 1..Len(text), text[i] = WideChar PROVE FALSE
    <3>1. PICK j \in 1..Len(Utf8(text)) : Utf8(text)[j] = WideChar
      BY <1>1, <2>1, WideStays
    <3>2. CASE src = Utf8(text)
      BY <1>2, <1>3, <3>1, <3>2
    <3>3. CASE src = WithoutSpace(Utf8(text))
      <4>1. Utf8(text) \in Seq(Char)
        BY <1>1, Utf8Facts
      <4>2. PICK k \in 1..Len(src) : src[k] = WideChar
        BY <1>3, <3>1, <3>3, <4>1, OtherStays
      <4> QED BY <1>2, <1>3, <4>2
    <3> QED BY <1>1, <3>2, <3>3
  <2> QED BY <1>1, <2>1, Utf8Facts
<1>5. src = text => WithoutSpace(text) = text
  BY <1>1, <1>2, <1>3, WithoutSpaceFacts
<1> QED BY <1>1, <1>4, <1>5 DEF Significant

\* s begins with the signal of a segment longer than what is left of it.
CutOff(s) ==
  /\ Len(s) >= 5 /\ Clean(s, 0, 5) /\ AtSignal(s, 0)
  /\ Announced(s, 0) > Len(s) - 5

\* Nothing but the end of the text is ever found wrong with one.
CutSound ==
  sent = CutShort =>
    /\ CutOff(Significant) /\ tier # "ok"
    /\ Reporting => read = 0
    /\ tier = "error" => verdict.kind = "UnexpectedEndOfStream"

\* No token begins at a segment cut short.
LEMMA CutHasNoToken ==
  ASSUME NEW s \in Seq(Char), CutOff(s)
  PROVE  TokenLen(s, 0) = 0 /\ 0 \in 0..Len(s) /\ Len(s) # 0
         /\ Announced(s, 0) \in Nat /\ Len(s) \in Nat
<1>1. Len(s) \in Nat /\ Len(s) >= 5 /\ 0 \in 0..Len(s) /\ 0 + 5 <= Len(s)
  BY LenProperties DEF CutOff
<1>2. Announced(s, 0) \in Nat \ {0}
  BY <1>1, AnnouncedLength DEF CutOff
<1>3. ~(Len(s) - 0 - 5 >= Announced(s, 0))
  BY <1>1, <1>2 DEF CutOff
<1>4. TokenLen(s, 0) = 0
  BY <1>1, <1>3, SegmentToken DEF CutOff
<1> QED BY <1>1, <1>2, <1>4

\* A text that was cut short is one at the start.
LEMMA InitCutSound ==
  ASSUME Init
  PROVE  CutSound
<1> SUFFICES ASSUME sent = CutShort PROVE CutOff(Significant) /\ tier = "scan"
  BY DEF CutSound, Reporting
<1>1. PICK c \in Cases : text = c.text /\ sent = c.sent /\ tier = "scan"
  BY DEF Init
<1> DEFINE s == Significant
<1>2. /\ c.sent # Garbled /\ c.sent \notin Seq(Byte)
  <2>1. Len(CutShort) = 1 /\ CutShort[1] = -1 /\ Garbled[1] = -2 /\ 1 \in 1..Len(CutShort)
    BY DEF CutShort, Garbled
  <2>2. -1 \notin Byte
    BY OctetIsByte DEF Octet
  <2>3. CutShort # Garbled
    BY <2>1
  <2>4. CutShort \notin Seq(Byte)
    BY <2>1, <2>2, ElementOfSeq
  <2> QED BY <1>1, <2>3, <2>4
<1>3. s \in Seq(Char) /\ Len(s) \in Nat
  BY <1>1, CasesAssumption, WithoutSpaceFacts, LenProperties DEF Significant
<1>4. \E q \in ProfileIds, mask \in SUBSET RSetBytes, len \in 1..MaxDpSegment :
        SubSeq(s, 1, 5) = Signal(DpSignal(q, mask, len)) /\ Len(s) \in 5..(4 + len)
  BY <1>1, <1>2, CasesAssumption DEF Significant
<1>5. PICK q \in ProfileIds, mask \in SUBSET RSetBytes, len \in 1..MaxDpSegment :
        SubSeq(s, 1, 5) = Signal(DpSignal(q, mask, len)) /\ Len(s) \in 5..(4 + len)
  BY <1>4
<1> DEFINE v == DpSignal(q, mask, len)
<1> HIDE DEF s
<1>6. /\ v \in DpSignalBase..(FillSignalBase - 1)
      /\ SplitDp(v - DpSignalBase).len = len
  <2>1. /\ v \in DpSignalBase..(FillSignalBase - 1)
        /\ SplitDp(v - DpSignalBase) = [len |-> len, mask |-> mask, profile |-> q]
    BY DpSignalRead
  <2> QED BY <2>1
<1> HIDE DEF v
<1>7. v \in 0..(Base_5 - 1)
  BY <1>6, RangesFit, RangeTypes, RangeOrder
<1>8. GroupOf(s, 0) = Signal(v) /\ Signal(v) \in Seq(AlphabetN) /\ Len(Signal(v)) = 5
      /\ ValueAt(s, 0) = v
  <2>1. 0 + 1 = 1 /\ 0 + 5 = 5
    OBVIOUS
  <2>2. GroupOf(s, 0) = Signal(v)
    BY <1>5, <2>1 DEF GroupOf, v
  <2> QED BY <1>7, <2>2, SignalRead DEF ValueAt
<1>9. Clean(s, 0, 5)
  <2>1. 0 \in Nat /\ 5 \in Nat /\ 0 + 5 <= Len(s)
    BY <1>3, <1>5
  <2>2. \A i \in 1..5 : GroupOf(s, 0)[i] = s[0 + i]
    BY <1>3, <2>1, PartOf DEF GroupOf
  <2>3. \A i \in 1..5 : Signal(v)[i] \in AlphabetN
    BY <1>8, ElementOfSeq
  <2>4. \A i \in 1..5 : 0 + i = i
    OBVIOUS
  <2> QED BY <1>8, <2>2, <2>3, <2>4 DEF Clean
<1>10. AtSignal(s, 0) /\ Announced(s, 0) = len
  BY <1>6, <1>8 DEF AtSignal, Announced
<1>11. CutOff(s)
  <2>1. len \in Nat
    BY ThresholdsAssumption
  <2> QED BY <1>3, <1>5, <1>9, <1>10, <2>1 DEF CutOff
<1> QED BY <1>1, <1>11 DEF s

\* Every step keeps that, and the report of one says so.
LEMMA NextCutSound ==
  ASSUME DecInv, DecInv', CutSound, [Next]_vars
  PROVE  CutSound'
<1> SUFFICES ASSUME sent' = CutShort
             PROVE  /\ CutOff(Significant)' /\ tier' # "ok"
                    /\ Reporting' => read' = 0
                    /\ tier' = "error" => verdict'.kind = "UnexpectedEndOfStream"
  BY DEF CutSound
<1>1. UNCHANGED <<text, sent>>
  <2>1. CASE UNCHANGED vars
    BY <2>1 DEF vars
  <2> QED BY <2>1, StaysSent DEF Next
<1>2. Significant' = Significant
  BY <1>1 DEF Significant
<1>3. /\ CutOff(Significant) /\ tier # "ok"
      /\ Reporting => read = 0
      /\ tier = "error" => verdict.kind = "UnexpectedEndOfStream"
  BY <1>1 DEF CutSound
<1>4. /\ TokenLen(Significant, 0) = 0 /\ 0 \in 0..Len(Significant) /\ Len(Significant) # 0
      /\ Announced(Significant, 0) \in Nat /\ Len(Significant) \in Nat
      /\ Significant \in Seq(Char)
  <2>1. Significant \in Seq(Char)
    BY WithoutSpaceFacts DEF DecInv, ScanSound, Significant
  <2> QED BY <1>3, <2>1, CutHasNoToken
<1>5. CutOff(Significant)'
  BY <1>2, <1>3
<1>6. CASE UNCHANGED vars
  BY <1>3, <1>5, <1>6 DEF vars, Reporting
<1>7. CASE Scan
  <2>1. Scanning /\ read' = read /\ read = 0
    <3>1. Rejection => Scanning /\ read' = read
      BY RejectionIs DEF Reject
    <3>2. ReadsOne => Scanning
      BY ReadsToken
    <3>3. Scanning /\ read' = read
      BY <1>7, <3>1, <3>2 DEF Scan, Rejection, ReadsOne, ReadBlocks, ReadLoneBlock, ReadTail,
                              ReadFill, ReadSegment, ReadFinal, Accept
    <3> QED BY <3>3 DEF DecInv, ScanSound
  <2>2. ~Accept
    <3> SUFFICES ASSUME Accept PROVE FALSE
      OBVIOUS
    <3>1. Remaining = 0 /\ pos \in ReachFrom(src, 0) /\ Clean(src, 0, pos)
      BY <2>1, Here DEF Accept, DecInv, ScanSound
    <3>2. pos = Len(src)
      BY <2>1, <3>1, Here
    <3>3. src = Significant
      BY <2>1, <3>1, <3>2, AcceptedSource
    <3> QED BY <1>4, <3>1, <3>2, <3>3, ReachNext
  <2>3. tier' # "ok" /\ tier' # "error"
    <3>1. Rejection => tier' \in {"rescan", "report"}
      BY RejectionIs DEF Reject
    <3>2. ~Rejection => tier' = tier
      BY <1>7, <2>2 DEF Scan, Rejection, ReadBlocks, ReadLoneBlock, ReadTail, ReadFill,
                        ReadSegment, ReadFinal
    <3> QED BY <2>1, <3>1, <3>2 DEF Scanning
  <2> QED BY <1>5, <2>1, <2>3
<1>8. CASE Report
  <2>1. Reporting /\ read = 0
    BY <1>3, <1>8, StaysSent
  <2>2. Left = Len(Significant) /\ Left >= 5
    BY <1>3, <1>4, <2>1, ReportHere DEF CutOff
  <2>3. ForeignIn(read + 1, read + 5) = {}
    <3>1. read + 1 = 0 + 1 /\ read + 5 = 0 + 5
      BY <2>1
    <3> QED BY <1>3, <3>1 DEF CutOff, Clean, ForeignIn, Foreign
  <2>4. CleanGroup
    BY <2>1, <2>2, <2>3 DEF CleanGroup, FullGroup
  <2>5. NextValue \in DpSignalBase..(FillSignalBase - 1)
    BY <1>3, <2>1, <2>4, CleanGroupIs DEF CutOff, AtSignal
  <2>6. AtSegment /\ NextSegment.len = Announced(Significant, 0)
    BY <2>1, <2>4, <2>5, CleanGroupIs DEF AtSegment, NextSegment, Announced
  <2>7. Left - 5 < NextSegment.len /\ ~(Left - 5 >= NextSegment.len)
    BY <1>3, <1>4, <2>2, <2>6 DEF CutOff
  <2>8. ReportSegment
    <3>1. ~ReportGroup
      BY <2>3 DEF ReportGroup, BlameFirst
    <3>2. ~ReportSignal /\ ~PassGroup
      BY <2>5, RangeTypes, RangeOrder DEF ReportSignal, PassGroup
    <3>3. ~PassSegment
      BY <2>7 DEF PassSegment
    <3>4. ~ReportEnd
      BY <2>2 DEF ReportEnd
    <3> QED BY <1>8, <3>1, <3>2, <3>3, <3>4 DEF Report
  <2>9. Blame([kind |-> "UnexpectedEndOfStream"])
    BY <2>7, <2>8 DEF ReportSegment
  <2>10. tier' = "error" /\ verdict'.kind = "UnexpectedEndOfStream"
    BY <2>9 DEF Blame
  <2> QED BY <1>5, <2>10 DEF Reporting
<1> QED BY <1>6, <1>7, <1>8 DEF Next

\* A text that ends inside a segment is reported as that, and not as whatever may
\* be wrong with the characters of the segment that did arrive.
THEOREM DecCutSegments == Spec => []CutSegmentsReported
<1>1. DecInv /\ DecInv' /\ CutSound /\ [Next]_vars => CutSound'
  BY NextCutSound
<1>2. CutSound => CutSegmentsReported
  BY DEF CutSound, CutSegmentsReported, Answered
<1>3. Init => CutSound
  BY InitCutSound
<1> QED BY DecInvariant, <1>1, <1>2, <1>3, PTL DEF Spec

-----------------------------------------------------------------------------
(* What a scan makes of any text.                                          *)

\* Where its text stands for d the scan is on the way to d.
Reads(d, S) ==
  /\ Scanning => <<pos, w>> \in S
  /\ Scanning \/ tier = "ok" => \A i \in 1..w : out[i] = d[i]
  /\ tier = "ok" => w = Len(d)

SourceSound == \A d \in Seq(Byte) : \A S : Marks(src, d, S) => Reads(d, S)

\* Whatever data a text marks, its scan writes that.
LEMMA ScanReads ==
  ASSUME DecInv, Scan, SourceSound
  PROVE  SourceSound'
<1> SUFFICES ASSUME NEW d \in Seq(Byte), NEW S, Marks(src', d, S) PROVE Reads(d, S)'
  BY DEF SourceSound
<1>1. CASE ReadBlocks \/ ReadsOne
  <2>1. Scanning /\ UNCHANGED <<tier, src>>
    <3>1. ReadBlocks => Scanning /\ UNCHANGED <<tier, src>>
      BY DEF ReadBlocks
    <3> QED BY <1>1, <3>1, ReadsToken
  <2>2. Marks(src, d, S) /\ <<pos, w>> \in S /\ \A i \in 1..w : out[i] = d[i]
    BY <2>1 DEF SourceSound, Reads
  <2>3. Delivers(d, S)
    BY <1>1, <2>2, ReadsOneDelivers, ReadBlocksDelivers
  <2>4. <<pos', w'>> \in S /\ \A i \in 1..w' : out'[i] = d[i]
    BY <2>2, <2>3, DeliversOn
  <2> QED BY <2>1, <2>4 DEF Reads, Scanning
<1>2. CASE Accept
  <2>1. /\ Scanning /\ Remaining = 0 /\ tier' = "ok" /\ out' = SubSeq(out, 1, w)
        /\ UNCHANGED <<src, pos, w>>
    BY <1>2 DEF Accept
  <2>2. Marks(src, d, S) /\ <<pos, w>> \in S /\ \A i \in 1..w : out[i] = d[i]
    BY <2>1 DEF SourceSound, Reads
  <2>3. pos = Len(src)
    BY <2>1, Here
  <2>4. w = Len(d)
    BY <2>2, <2>3 DEF Marks
  <2>5. \A i \in 1..w : out'[i] = out[i]
    BY <2>1, BeginOf DEF DecInv, TypeOK
  <2> QED BY <2>1, <2>2, <2>4, <2>5 DEF Reads, Scanning
<1>3. CASE Rejection
  <2>1. PICK buffer : Reject(buffer)
    BY <1>3, RejectionIs
  <2>2. pos' = 0 /\ w' = 0 /\ tier' # "ok"
    BY <2>1 DEF Reject
  <2>3. <<pos', w'>> \in S
    BY <2>2 DEF Marks
  <2> QED BY <2>2, <2>3 DEF Reads
<1> QED BY <1>1, <1>2, <1>3 DEF Scan, ReadsOne, Rejection

\* Every step keeps what the scan of a text that marks data has written.
LEMMA NextSourceSound ==
  ASSUME DecInv, SourceSound, [Next]_vars
  PROVE  SourceSound'
<1>1. CASE UNCHANGED vars
  BY <1>1 DEF vars, SourceSound, Reads, Scanning
<1>2. CASE Scan
  BY <1>2, ScanReads
<1>3. CASE Report
  <2>1. Reporting /\ tier' \in {"report", "error"}
    BY <1>3, StaysSent
       DEF Report, ReportGroup, ReportSignal, PassGroup, ReportSegment, PassSegment, ReportEnd,
           Reporting, Blame, BlameFirst, Pass
  <2> QED BY <2>1 DEF SourceSound, Reads, Scanning
<1> QED BY <1>1, <1>2, <1>3 DEF Next

\* At the start it has written nothing.
LEMMA InitSourceSound == Init => SourceSound
<1> SUFFICES ASSUME Init, NEW d \in Seq(Byte), NEW S, Marks(src, d, S) PROVE Reads(d, S)
  BY DEF SourceSound
<1>1. tier = "scan" /\ pos = 0 /\ w = 0
  BY DEF Init
<1>2. <<pos, w>> \in S
  BY <1>1 DEF Marks
<1> QED BY <1>1, <1>2 DEF Reads

-----------------------------------------------------------------------------
(* Texts of block groups alone.                                            *)

BlockGroups(s) ==
  \A k \in 1..(Len(s) \div 5) : WeighDigits(Values(SubSeq(s, 5 * k - 4, 5 * k))) < DpSignalBase

Groups(s) == Len(s) \div 5
RestLen(s) == Len(s) - 5 * Groups(s)
RestValues(s) == Values(LastOf(s, 5 * Groups(s)))

\* Each group is a token.
LEMMA BlockTokens ==
  ASSUME NEW s \in Seq(Char), Clean(s, 0, Len(s)), BlockGroups(s),
         NEW k \in 1..(Len(s) \div 5), NEW p, p = 5 * (k - 1)
  PROVE  /\ p \in 0..Len(s) /\ p + 5 <= Len(s)
         /\ GroupOf(s, p) = SubSeq(s, 5 * k - 4, 5 * k)
         /\ GroupOf(s, p) \in Seq(Char) /\ Len(GroupOf(s, p)) = 5
         /\ \A i \in 1..5 : GroupOf(s, p)[i] = s[p + i] /\ s[p + i] \in AlphabetN
         /\ Values(GroupOf(s, p)) \in Seq(Digit) /\ Len(Values(GroupOf(s, p))) = 5
         /\ ValueAt(s, p) \in 0..(Radix_4 - 1)
         /\ TokenLen(s, p) = 5 /\ TokenBytes(s, p) = ValueToBytes(ValueAt(s, p))
<1>1. Len(s) \in Nat
  BY LenProperties
<1>2. p \in 0..Len(s) /\ p \in Nat /\ p + 5 <= Len(s) /\ p + 1 = 5 * k - 4 /\ p + 5 = 5 * k
  BY <1>1
<1>3. Clean(s, p, 5)
  BY <1>1, <1>2 DEF Clean
<1>4. GroupOf(s, p) = SubSeq(s, 5 * k - 4, 5 * k)
  BY <1>2 DEF GroupOf
<1>5. /\ GroupOf(s, p) \in Seq(Char) /\ Len(GroupOf(s, p)) = 5
      /\ \A i \in 1..5 : GroupOf(s, p)[i] = s[p + i]
  BY <1>2, PartOf, 5 \in Nat DEF GroupOf
<1>6. \A i \in 1..5 : s[p + i] \in AlphabetN
  BY <1>2, <1>3 DEF Clean
<1>7. Values(GroupOf(s, p)) \in Seq(Digit)
  BY <1>2, <1>3, CleanPart, 5 \in Nat DEF GroupOf
<1>8. Len(Values(GroupOf(s, p))) = 5
  BY <1>5, ValuesLength
<1>9. ValueAt(s, p) < DpSignalBase
  BY <1>4 DEF BlockGroups, ValueAt
<1>10. ValueAt(s, p) \in 0..(Radix_4 - 1)
  BY <1>2, <1>3, <1>9, CleanValue, RangeTypes
<1>11. TokenLen(s, p) = 5
  BY <1>2, <1>3, <1>9, PlainToken
<1>12. TokenBytes(s, p) = ValueToBytes(ValueAt(s, p))
  <2>1. ~AtSignal(s, p) /\ ~(Len(s) - p < 5)
    BY <1>1, <1>2, <1>9, <1>10, RangeTypes DEF AtSignal
  <2> QED BY <1>9, <2>1 DEF TokenBytes, ValueBytes
<1> HIDE DEF GroupOf
<1> QED BY <1>2, <1>4, <1>5, <1>6, <1>7, <1>8, <1>10, <1>11, <1>12

\* And so is what is left after them, once the text is read to its end.
LEMMA BlockRest ==
  ASSUME NEW s \in Seq(Char), Clean(s, 0, Len(s)), BlockGroups(s), Len(s) \in ReachFrom(s, 0),
         RestLen(s) # 0
  PROVE  LET p == 5 * Groups(s)
         IN  /\ RestLen(s) \in 2..4
             /\ LastOf(s, p) \in Seq(Char) /\ Len(LastOf(s, p)) = RestLen(s)
             /\ \A i \in 1..RestLen(s) : LastOf(s, p)[i] = s[p + i] /\ s[p + i] \in AlphabetN
             /\ RestValues(s) \in Seq(Digit) /\ Len(RestValues(s)) = RestLen(s)
             /\ TailAccepted(RestValues(s))
             /\ TokenLen(s, p) = RestLen(s) /\ TokenBytes(s, p) = TailBytes(RestValues(s))
<1> DEFINE g == Groups(s)  r == RestLen(s)  t == RestValues(s)
<1>1. g = Len(s) \div 5 /\ r = Len(s) - 5 * g /\ t = Values(LastOf(s, 5 * g))
  BY DEF Groups, RestLen, RestValues
<1>2. r # 0
  OBVIOUS
<1> HIDE DEF g, r, t
<1>3. Len(s) \in Nat /\ g \in Nat /\ r \in 1..4 /\ 5 * g + r = Len(s) /\ 5 * g \in Nat
  BY <1>1, <1>2, LenProperties
<1> DEFINE p == 5 * g
           P == {5 * k : k \in 0..g}
<1>4. p \in Nat /\ p \in 0..Len(s) /\ p + r = Len(s) /\ Len(s) - p = r
  BY <1>3
<1>5. Clean(s, p, r)
  BY <1>3, <1>4 DEF Clean
<1>6. TokenLen(s, p) # 0
  <2> SUFFICES ASSUME TokenLen(s, p) = 0 PROVE FALSE
    OBVIOUS
  <2>1. P \in SUBSET (0..Len(s)) /\ 0 \in P /\ Len(s) \notin P
    <3>1. \A k \in 0..g : 5 * k \in 0..Len(s) /\ 5 * k # Len(s)
      BY <1>3
    <3>2. 0 \in 0..g /\ 5 * 0 = 0
      BY <1>3
    <3> QED BY <3>1, <3>2
  <2>2. ASSUME NEW q \in P, TokenLen(s, q) # 0 PROVE q + TokenLen(s, q) \in P
    <3>1. PICK k \in 0..g : q = 5 * k
      OBVIOUS
    <3>2. k # g
      BY <2>2, <3>1
    <3>3. k + 1 \in 1..g /\ q = 5 * ((k + 1) - 1) /\ k + 1 \in 0..g
      BY <1>3, <3>1, <3>2
    <3>4. TokenLen(s, q) = 5
      BY <1>1, <3>3, BlockTokens
    <3>5. q + 5 = 5 * (k + 1)
      BY <3>1
    <3> QED BY <3>3, <3>4, <3>5
  <2>3. Closed(s, P)
    <3> HIDE DEF P
    <3> QED BY <2>1, <2>2 DEF Closed
  <2>4. Len(s) \in P
    <3> HIDE DEF P
    <3> QED BY <2>1, <2>3 DEF ReachFrom
  <2> QED BY <2>1, <2>4
<1>7. t = Values(LastOf(s, p))
  BY <1>1
<1>8. r > 1 /\ TailAccepted(t) /\ TokenLen(s, p) = r
  BY <1>3, <1>4, <1>6, <1>7 DEF TokenLen
<1>9. LastOf(s, p) = SubSeq(s, p + 1, p + r)
  BY <1>4 DEF LastOf
<1> HIDE DEF p, P
<1>10. /\ LastOf(s, p) \in Seq(Char) /\ Len(LastOf(s, p)) = r
      /\ \A i \in 1..r : LastOf(s, p)[i] = s[p + i]
  <2>1. r \in Nat /\ p + r <= Len(s)
    BY <1>3, <1>4
  <2>2. /\ SubSeq(s, p + 1, p + r) \in Seq(Char) /\ Len(SubSeq(s, p + 1, p + r)) = r
        /\ \A i \in 1..r : SubSeq(s, p + 1, p + r)[i] = s[p + i]
    BY <1>4, <2>1, PartOf
  <2> QED BY <1>9, <2>2
<1>11. \A i \in 1..r : s[p + i] \in AlphabetN
  BY <1>3, <1>4, <1>5 DEF Clean
<1>12. t \in Seq(Digit) /\ Len(t) = r
  <2>1. r \in Nat /\ p + r <= Len(s)
    BY <1>3, <1>4
  <2>2. t \in Seq(Digit)
    BY <1>4, <1>5, <1>9, <1>7, <2>1, CleanPart
  <2> QED BY <1>10, <1>7, <2>2, ValuesLength
<1>13. TokenBytes(s, p) = TailBytes(t)
  BY <1>3, <1>4, <1>7 DEF TokenBytes
<1>14. r \in 2..4
  BY <1>3, <1>8
<1> QED BY <1>3, <1>8, <1>10, <1>11, <1>12, <1>13, <1>14 DEF p, g, r, t

\* The bytes d are those of the groups, one after the other.
BlocksOf(s, d) ==
  LET g == Groups(s)  r == RestLen(s)
  IN  /\ Len(d) = 4 * g + (IF r = 0 THEN 0 ELSE r - 1)
      /\ \A k \in 1..g, j \in 1..4 :
           d[4 * (k - 1) + j] = ValueToBytes(ValueAt(s, 5 * (k - 1)))[j]
      /\ \A j \in 1..(r - 1) : d[4 * g + j] = TailBytes(RestValues(s))[j]

\* A text of blocks that is walked to its end is the blocks of some bytes.
LEMMA BlocksStand ==
  ASSUME NEW s \in Seq(Char), Clean(s, 0, Len(s)), BlockGroups(s), Len(s) \in ReachFrom(s, 0)
  PROVE  \E d \in Seq(Byte) : BlocksOf(s, d)
<1> DEFINE g == Groups(s)  r == RestLen(s)
<1> DEFINE t == RestValues(s)
           ss == [k \in 1..g |-> ValueToBytes(ValueAt(s, 5 * (k - 1)))]
           body == FlattenSeq(ss)
           rest == IF r = 0 THEN <<>> ELSE TailBytes(t)
<1>1. Len(s) \in Nat /\ g \in Nat /\ r \in 0..4
  BY LenProperties DEF Groups, RestLen
<1>2. \A k \in 1..g : ValueToBytes(ValueAt(s, 5 * (k - 1))) \in Seq(Byte)
                      /\ Len(ValueToBytes(ValueAt(s, 5 * (k - 1)))) = 4
  BY BlockTokens, BlockBytes DEF Groups
<1>3. /\ ss \in Seq(Seq(Byte)) /\ Len(ss) = g
      /\ \A k \in 1..g : ss[k] = ValueToBytes(ValueAt(s, 5 * (k - 1))) /\ Len(ss[k]) = 4
  <2>1. ss \in [1..g -> Seq(Byte)]
    BY <1>2
  <2>2. \A k \in 1..g : ss[k] = ValueToBytes(ValueAt(s, 5 * (k - 1)))
    OBVIOUS
  <2> HIDE DEF ss
  <2>3. ss \in Seq(Seq(Byte)) /\ Len(ss) = g
    BY <1>1, <2>1, SeqDef, LenProperties
  <2> QED BY <1>2, <2>2, <2>3
<1> HIDE DEF ss
<1>4. /\ body \in Seq(Byte) /\ Len(body) = 4 * g
      /\ \A k \in 1..g, j \in 1..4 : body[4 * (k - 1) + j] = ss[k][j]
  <2>1. /\ Len(FlattenSeq(ss)) = 4 * Len(ss)
        /\ \A k \in 1..Len(ss), j \in 1..4 : FlattenSeq(ss)[4 * (k - 1) + j] = ss[k][j]
    <3>1. ss \in Seq(Seq(Byte)) /\ \A k \in 1..Len(ss) : Len(ss[k]) = 4
      BY <1>3
    <3> QED BY <3>1, FlattenFours
  <2>2. FlattenSeq(ss) \in Seq(Byte)
    BY <1>3, FlattenType
  <2> QED BY <1>3, <2>1, <2>2
<1>5. /\ rest \in Seq(Byte) /\ Len(rest) = IF r = 0 THEN 0 ELSE r - 1
      /\ r # 0 => rest = TailBytes(t)
  <2>1. CASE r = 0
    BY <2>1
  <2>2. CASE r # 0
    <3>1. t \in Seq(Digit) /\ Len(t) = r /\ r \in 2..4 /\ TailAccepted(t)
      BY <2>2, BlockRest
    <3> HIDE DEF t
    <3> QED BY <2>2, <3>1, FinalBytes
  <2> QED BY <2>1, <2>2
<1> HIDE DEF body, rest, t, g, r
<1> DEFINE d == body \o rest
<1>6. /\ d \in Seq(Byte) /\ Len(d) = Len(body) + Len(rest)
      /\ \A i \in 1..Len(body) : d[i] = body[i]
      /\ \A i \in 1..Len(rest) : d[Len(body) + i] = rest[i]
  <2>1. /\ body \o rest \in Seq(Byte) /\ Len(body \o rest) = Len(body) + Len(rest)
        /\ \A i \in 1..(Len(body) + Len(rest)) :
             (body \o rest)[i] = IF i <= Len(body) THEN body[i] ELSE rest[i - Len(body)]
    BY <1>4, <1>5, ConcatProperties
  <2>2. Len(body) \in Nat /\ Len(rest) \in Nat
    BY <1>4, <1>5, LenProperties
  <2>3. ASSUME NEW i \in 1..Len(body) PROVE d[i] = body[i]
    BY <2>1, <2>2
  <2>4. ASSUME NEW i \in 1..Len(rest) PROVE d[Len(body) + i] = rest[i]
    <3>1. /\ Len(body) + i \in 1..(Len(body) + Len(rest)) /\ ~(Len(body) + i <= Len(body))
          /\ (Len(body) + i) - Len(body) = i
      BY <2>2
    <3> QED BY <2>1, <3>1
  <2> QED BY <2>1, <2>3, <2>4
<1> HIDE DEF d
<1>7. ASSUME NEW k \in 1..g, NEW j \in 1..4
      PROVE  d[4 * (k - 1) + j] = ValueToBytes(ValueAt(s, 5 * (k - 1)))[j]
  <2>1. 4 * (k - 1) + j \in 1..Len(body)
    BY <1>1, <1>4
  <2>2. body[4 * (k - 1) + j] = ss[k][j] /\ ss[k] = ValueToBytes(ValueAt(s, 5 * (k - 1)))
    BY <1>3, <1>4
  <2>3. d[4 * (k - 1) + j] = body[4 * (k - 1) + j]
    BY <1>6, <2>1
  <2> QED BY <2>2, <2>3
<1>8. ASSUME NEW j \in 1..(r - 1) PROVE d[4 * g + j] = TailBytes(t)[j]
  <2>1. r # 0 /\ j \in 1..Len(rest)
    BY <1>1, <1>5
  <2> QED BY <1>4, <1>5, <1>6, <2>1
<1>9. Len(d) = 4 * g + (IF r = 0 THEN 0 ELSE r - 1)
  BY <1>4, <1>5, <1>6
<1> QED BY <1>6, <1>7, <1>8, <1>9 DEF t, g, r, BlocksOf

\* So a scan of it comes to them.
LEMMA BlocksMark ==
  ASSUME NEW s \in Seq(Char), Clean(s, 0, Len(s)), BlockGroups(s), Len(s) \in ReachFrom(s, 0),
         NEW d \in Seq(Byte), BlocksOf(s, d)
  PROVE  \E S : Marks(s, d, S)
<1> DEFINE g == Groups(s)  r == RestLen(s)
           S == {<<5 * k, 4 * k>> : k \in 0..g} \cup {<<Len(s), Len(d)>>}
<1>1. /\ Len(s) \in Nat /\ Len(d) \in Nat /\ g \in Nat /\ r \in 0..4 /\ Len(s) = 5 * g + r
      /\ g = Len(s) \div 5
  BY LenProperties DEF Groups, RestLen
<1>2. Len(d) = 4 * g + (IF r = 0 THEN 0 ELSE r - 1)
  BY DEF BlocksOf
<1> HIDE DEF g, r
<1>3. <<0, 0>> \in S
  <2>1. 0 \in 0..g /\ <<0, 0>> = <<5 * 0, 4 * 0>>
    BY <1>1
  <2> QED BY <2>1
<1>4. ASSUME NEW k \in 0..g, 5 * k # Len(s)
      PROVE  MarkedStep(s, d, S, 5 * k, 4 * k)
  <2>1. CASE k # g
    <3> DEFINE x == k + 1
    <3>1. x \in 1..(Len(s) \div 5) /\ x \in 1..g /\ 5 * k = 5 * (x - 1) /\ 4 * k = 4 * (x - 1)
      BY <1>1, <2>1
    <3> DEFINE p == 5 * (x - 1)  b == ValueToBytes(ValueAt(s, p))
    <3>2. /\ ValueAt(s, p) \in 0..(Radix_4 - 1) /\ TokenLen(s, p) = 5 /\ TokenBytes(s, p) = b
      BY <3>1, BlockTokens
    <3>3. b \in Seq(Byte) /\ Len(b) = 4
      BY <3>2, BlockBytes
    <3>4. \A j \in 1..4 : d[4 * (x - 1) + j] = b[j]
      BY <3>1 DEF BlocksOf, g
    <3> HIDE DEF b, x
    <3>5. 4 * (x - 1) + 4 <= Len(d) /\ x \in 0..g
          /\ 5 * (x - 1) + 5 = 5 * x /\ 4 * (x - 1) + 4 = 4 * x
      BY <1>1, <1>2, <3>1
    <3>6. <<p + 5, 4 * (x - 1) + 4>> \in S
      BY <3>5
    <3> DEFINE m == 4 * (x - 1)
    <3>7. /\ \A j \in 1..4 : b[j] = d[m + j]
          /\ m + 4 <= Len(d) /\ <<p + 5, m + 4>> \in S
      BY <3>4, <3>5, <3>6
    <3> HIDE DEF S, p, m
    <3>8. MarkedStep(s, d, S, p, m)
      BY <3>2, <3>3, <3>7 DEF MarkedStep
    <3> QED BY <3>1, <3>8 DEF p, m
  <2>2. CASE k = g
    <3> DEFINE p == 5 * g  m == 4 * g  t == RestValues(s)  b == TailBytes(t)
    <3>1. r # 0
      BY <1>1, <1>4, <2>2
    <3>2. /\ r \in 2..4 /\ t \in Seq(Digit) /\ Len(t) = r /\ TailAccepted(t)
          /\ TokenLen(s, p) = r /\ TokenBytes(s, p) = b
      BY <3>1, BlockRest DEF g, r
    <3>3. b \in Seq(Byte) /\ Len(b) = r - 1
      <4> HIDE DEF t
      <4> QED BY <3>2, FinalBytes
    <3>4. \A j \in 1..(r - 1) : d[m + j] = b[j]
      BY DEF BlocksOf, g, r
    <3>5. p + r = Len(s) /\ m + (r - 1) = Len(d)
      BY <1>1, <1>2, <3>1
    <3> HIDE DEF t, b, p, m
    <3>6. <<p + r, m + (r - 1)>> \in S
      BY <3>5
    <3>7. r # 0 /\ m + (r - 1) <= Len(d)
      BY <1>1, <3>1, <3>5
    <3> HIDE DEF S
    <3>8. MarkedStep(s, d, S, p, m)
      BY <3>2, <3>3, <3>4, <3>6, <3>7 DEF MarkedStep
    <3> QED BY <2>2, <3>8 DEF p, m
  <2> QED BY <2>1, <2>2
<1>5. ASSUME NEW p, NEW m, <<p, m>> \in S
      PROVE  /\ p \in 0..Len(s) /\ m \in 0..Len(d)
             /\ IF p = Len(s) THEN m = Len(d) ELSE MarkedStep(s, d, S, p, m)
  <2>1. CASE p = Len(s) /\ m = Len(d)
    <3> HIDE DEF S
    <3> QED BY <1>1, <2>1
  <2>2. CASE \E k \in 0..g : p = 5 * k /\ m = 4 * k
    <3>1. PICK k \in 0..g : p = 5 * k /\ m = 4 * k
      BY <2>2
    <3>2. p \in 0..Len(s) /\ m \in 0..Len(d)
      BY <1>1, <1>2, <3>1
    <3>3. p = Len(s) => m = Len(d)
      BY <1>1, <1>2, <3>1
    <3> HIDE DEF S
    <3>4. p # Len(s) => MarkedStep(s, d, S, p, m)
      BY <1>4, <3>1
    <3> QED BY <3>2, <3>3, <3>4
  <2>3. (p = Len(s) /\ m = Len(d)) \/ \E k \in 0..g : p = 5 * k /\ m = 4 * k
    BY <1>5
  <2> QED BY <2>1, <2>2, <2>3
<1> HIDE DEF S
<1> QED BY <1>3, <1>5 DEF Marks

\* Characters of the alphabet are those of their values.
LEMMA CharactersOfValues ==
  ASSUME NEW c \in Seq(Char), \A i \in 1..Len(c) : c[i] \in AlphabetN
  PROVE  Characters(Values(c)) = c
<1>1. Len(c) \in Nat /\ Len(Values(c)) = Len(c)
  BY LenProperties, ValuesLength
<1>2. ASSUME NEW i \in 1..Len(c) PROVE CharOf(Values(c)[i]) = c[i]
  <2>1. Values(c)[i] = ValueOf(c[i]) /\ c[i] \in AlphabetN
    BY <1>1 DEF Values
  <2> DEFINE x == c[i]
             k == CHOOSE k \in 1..Base : Alphabet[k] = x
  <2>2. k \in 1..Base /\ Alphabet[k] = x
    BY <2>1, WireAssumption
  <2>3. ValueOf(x) = k - 1
    BY <2>1 DEF ValueOf
  <2> HIDE DEF k
  <2>4. (k - 1) + 1 = k
    BY <2>2
  <2> QED BY <2>1, <2>2, <2>3, <2>4 DEF CharOf
<1>3. Characters(Values(c)) = [i \in 1..Len(c) |-> c[i]]
  BY <1>1, <1>2 DEF Characters
<1> QED BY <1>3, LenProperties

\* And block mode writes them as that text.
LEMMA BlocksText ==
  ASSUME NEW s \in Seq(Char), Clean(s, 0, Len(s)), BlockGroups(s), Len(s) \in ReachFrom(s, 0),
         NEW d \in Seq(Byte), BlocksOf(s, d)
  PROVE  s = BlockText(d)
<1> DEFINE g == Groups(s)  r == RestLen(s)  n == (Len(d) + 3) \div 4
           chars(k) == UnitChars(d, BlockUnit(d, 4 * (k - 1)))
           ss == [k \in 1..n |-> chars(k)]
<1>1. /\ Len(s) \in Nat /\ Len(d) \in Nat /\ g \in Nat /\ r \in 0..4 /\ Len(s) = 5 * g + r
      /\ g = Len(s) \div 5
  BY LenProperties DEF Groups, RestLen
<1>2. Len(d) = 4 * g + (IF r = 0 THEN 0 ELSE r - 1)
  BY DEF BlocksOf
<1>3. r # 0 => r \in 2..4
  BY BlockRest
<1> HIDE DEF g, r
<1>4. n = IF r = 0 THEN g ELSE g + 1
  BY <1>1, <1>2, <1>3
<1> HIDE DEF n
<1>5. ASSUME NEW k \in 1..g
      PROVE  /\ chars(k) \in Seq(Char) /\ Len(chars(k)) = 5
             /\ \A j \in 1..5 : chars(k)[j] = s[5 * (k - 1) + j]
  <2> DEFINE p == 5 * (k - 1)  at == 4 * (k - 1)  h == GroupOf(s, p)  v == ValueAt(s, p)
             b == ValueToBytes(v)  u == BlockUnit(d, at)
  <2>1. k \in 1..(Len(s) \div 5)
    BY <1>1
  <2>2. /\ h \in Seq(Char) /\ Len(h) = 5 /\ \A j \in 1..5 : h[j] = s[p + j] /\ s[p + j] \in AlphabetN
        /\ Values(h) \in Seq(Digit) /\ Len(Values(h)) = 5 /\ v \in 0..(Radix_4 - 1)
    BY <2>1, BlockTokens
  <2>3. v = WeighDigits(Values(h))
    BY DEF ValueAt
  <2>4. \A j \in 1..4 : d[at + j] = b[j]
    BY DEF BlocksOf, g
  <2> HIDE DEF h, v
  <2>5. b \in Seq(Byte) /\ Len(b) = 4
    BY <2>2, BlockBytes
  <2>6. at \in 0..(Len(d) - 1) /\ 4 \in 1..(Len(d) - at) /\ Smaller(Len(d) - at, 4) = 4
    BY <1>1, <1>2 DEF Smaller
  <2> HIDE DEF b, at
  <2>7. SubSeq(d, at + 1, at + 4) = b
    BY <2>4, <2>5, <2>6, PartIs
  <2>8. u.kind = "block" /\ u.len = 4 /\ u.sig = b
    BY <2>6, <2>7 DEF BlockUnit
  <2> HIDE DEF u
  <2>9. UnitChars(d, u) = Characters(ValueToDigitPairs(BytesToValue(b)))
    BY <2>8 DEF UnitChars
  <2>10. ValueToDigitPairs(BytesToValue(b)) = Values(h)
    <3>1. v < Radix_4
      BY <2>2, RangeTypes
    <3> QED BY <2>2, <2>3, <3>1, BlockInverse DEF b
  <2>11. Characters(Values(h)) = h
    <3>1. \A j \in 1..Len(h) : h[j] \in AlphabetN
      BY <2>2
    <3> QED BY <2>2, <3>1, CharactersOfValues
  <2>12. chars(k) = h
    BY <2>9, <2>10, <2>11 DEF u, at
  <2> HIDE DEF chars
  <2> QED BY <2>2, <2>12
<1>6. ASSUME r # 0
      PROVE  /\ chars(g + 1) \in Seq(Char) /\ Len(chars(g + 1)) = r
             /\ \A j \in 1..r : chars(g + 1)[j] = s[5 * g + j]
  <2> DEFINE p == 5 * g  at == 4 * g  h == LastOf(s, p)  t == RestValues(s)
             b == TailBytes(t)  u == BlockUnit(d, at)
  <2>1. /\ h \in Seq(Char) /\ Len(h) = r /\ \A j \in 1..r : h[j] = s[p + j] /\ s[p + j] \in AlphabetN
        /\ t \in Seq(Digit) /\ Len(t) = r /\ TailAccepted(t)
    BY <1>6, BlockRest DEF g, r
  <2>2. t = Values(h)
    BY DEF RestValues, g
  <2>3. \A j \in 1..(r - 1) : d[at + j] = b[j]
    BY DEF BlocksOf, g, r
  <2> HIDE DEF h, t
  <2>4. b \in Seq(Byte) /\ Len(b) = r - 1
    BY <1>3, <1>6, <2>1, FinalBytes
  <2>5. /\ at \in 0..(Len(d) - 1) /\ r - 1 \in 1..(Len(d) - at) /\ r - 1 \in 1..3
        /\ Smaller(Len(d) - at, 4) = r - 1
    BY <1>1, <1>2, <1>3, <1>6 DEF Smaller
  <2>6. at = 4 * ((g + 1) - 1)
    BY <1>1
  <2> HIDE DEF b, at
  <2>7. SubSeq(d, at + 1, at + (r - 1)) = b
    BY <2>3, <2>4, <2>5, PartIs
  <2>8. u.kind = "block" /\ u.len = r - 1 /\ u.sig = b
    BY <2>5, <2>7 DEF BlockUnit
  <2> HIDE DEF u
  <2>9. UnitChars(d, u) = Characters(TailDigits(b))
    <3>1. u.len < 4 /\ u.len # 4
      BY <2>5, <2>8
    <3> QED BY <2>8, <3>1 DEF UnitChars
  <2>10. TailDigits(b) = Values(h)
    BY <2>1, <2>2 DEF TailAccepted, b
  <2>11. Characters(Values(h)) = h
    <3>1. \A j \in 1..Len(h) : h[j] \in AlphabetN
      BY <2>1
    <3> QED BY <2>1, <3>1, CharactersOfValues
  <2>12. chars(g + 1) = h
    BY <2>6, <2>9, <2>10, <2>11 DEF u
  <2> HIDE DEF chars
  <2> QED BY <2>1, <2>12
<1>7. n \in Nat /\ \A k \in 1..n : k \in 1..g \/ (k = g + 1 /\ r # 0)
  BY <1>1, <1>4
<1> HIDE DEF chars
<1>8. ASSUME NEW k \in 1..n
      PROVE  /\ chars(k) \in Seq(Char) /\ Len(chars(k)) = Smaller(5, Len(s) - 5 * (k - 1))
             /\ \A j \in 1..Len(chars(k)) : chars(k)[j] = s[5 * (k - 1) + j]
  <2>1. CASE k \in 1..g
    <3>1. Smaller(5, Len(s) - 5 * (k - 1)) = 5
      BY <1>1, <2>1 DEF Smaller
    <3> QED BY <1>5, <2>1, <3>1
  <2>2. CASE k = g + 1 /\ r # 0
    <3>1. Smaller(5, Len(s) - 5 * (k - 1)) = r /\ 5 * (k - 1) = 5 * g
      BY <1>1, <2>2 DEF Smaller
    <3> QED BY <1>6, <2>2, <3>1
  <2> QED BY <1>7, <2>1, <2>2
<1>9. ss \in Seq(Seq(Char)) /\ Len(ss) = n /\ \A k \in 1..n : ss[k] = chars(k)
  <2>1. ss \in [1..n -> Seq(Char)] /\ \A k \in 1..n : ss[k] = chars(k)
    BY <1>8
  <2> HIDE DEF ss
  <2> QED BY <1>7, <2>1, SeqDef, LenProperties
<1>10. BlockText(d) = FlattenSeq(ss)
  BY DEF BlockText, n, chars
<1> HIDE DEF ss
<1>11. Len(s) <= 5 * n /\ (n # 0 => 5 * (n - 1) < Len(s))
  BY <1>1, <1>4
<1> HIDE DEF n
<1>12. \A k \in 1..n : /\ Len(ss[k]) = Smaller(5, Len(s) - 5 * (k - 1))
                       /\ \A j \in 1..Len(ss[k]) : ss[k][j] = s[5 * (k - 1) + j]
  BY <1>8, <1>9
<1>13. FlattenSeq(ss) = s
  <2>1. n \in Nat /\ Len(ss) = n /\ ss \in Seq(Seq(Char))
    BY <1>7, <1>9
  <2> QED BY <2>1, <1>11, <1>12, GroupsJoined
<1> QED BY <1>10, <1>13

\* A text of block groups alone that is accepted is the one block mode writes for
\* the bytes it is decoded to, so no two such texts are decoded to the same bytes.
THEOREM DecBlockTexts == Spec => []BlockTextsCanonical
<1>1. DecInv /\ SourceSound => BlockTextsCanonical
  <2> SUFFICES ASSUME DecInv, SourceSound, tier = "ok", BlockGroups(src)
               PROVE  src = BlockText(Data)
    BY DEF BlockTextsCanonical, BlockGroups
  <2>1. /\ src \in Seq(Char) /\ Clean(src, 0, Len(src)) /\ Len(src) \in ReachFrom(src, 0)
        /\ out \in Seq(Byte) /\ w \in 0..Len(out)
    BY DEF DecInv, TypeOK, ScanSound
  <2>2. PICK d \in Seq(Byte) : BlocksOf(src, d)
    BY <2>1, BlocksStand
  <2>3. PICK S : Marks(src, d, S)
    BY <2>1, <2>2, BlocksMark
  <2>4. w = Len(d) /\ \A i \in 1..w : out[i] = d[i]
    BY <2>3 DEF SourceSound, Reads
  <2>5. Data = d
    <3>1. /\ SubSeq(out, 1, w) \in Seq(Byte) /\ Len(SubSeq(out, 1, w)) = w
          /\ \A i \in 1..w : SubSeq(out, 1, w)[i] = out[i]
      BY <2>1, BeginOf
    <3> QED BY <2>4, <3>1, SeqEqual DEF Data
  <2> QED BY <2>1, <2>2, <2>5, BlocksText
<1>2. DecInv /\ SourceSound /\ [Next]_vars => SourceSound'
  BY NextSourceSound
<1> QED BY DecInvariant, InitSourceSound, <1>1, <1>2, PTL DEF Spec

-----------------------------------------------------------------------------
(* The other decoders (Differential): C behind the same interface, and the *)
(* ports.  Each gives what the walk says a text means, so they all agree.  *)
(*                                                                         *)
(* First that the C decoder computes with the same format.                 *)

\* What the C decoder computes with is what the others do.
LEMMA SameFormat ==
  /\ \A c : C!ValueOf(c) = ValueOf(c)
  /\ C!NoValue = NoValue
  /\ \A g : C!Values(g) = Values(g)
  /\ \A g : C!WeighDigits(g) = WeighDigits(g)
  /\ \A v : C!ValueToBytes(v) = ValueToBytes(v)
  /\ \A v : C!SplitDp(v) = SplitDp(v)
  /\ \A v : C!SplitFill(v) = SplitFill(v)
  /\ \A v : C!SplitTail(v) = SplitTail(v)
  /\ \A q, m : C!DpTable(q, m) = DpTable(q, m)
  /\ \A t : C!TailAccepted(t) = TailAccepted(t)
  /\ \A t : C!TailBytes(t) = TailBytes(t)
  /\ \A s : C!WithoutSpace(s) = WithoutSpace(s)
  /\ C!DpSignalBase = DpSignalBase /\ C!FillSignalBase = FillSignalBase
  /\ C!TailSignalBase = TailSignalBase /\ C!FutureSignalBase = FutureSignalBase
  /\ C!Base_5 = Base_5
<1>1. \A c : C!ValueOf(c) = ValueOf(c)
  BY DEF C!ValueOf, C!NoValue, ValueOf, NoValue
<1>2. C!NoValue = NoValue
  BY DEF C!NoValue, NoValue
<1>3. \A g : C!Values(g) = Values(g)
  BY DEF C!ValueOf, C!NoValue, ValueOf, NoValue, C!Values, Values
<1>4. \A s : C!WithoutSpace(s) = WithoutSpace(s)
  BY DEF C!WithoutSpace, WithoutSpace
<1>5. /\ C!Base_2 = Base_2 /\ C!Base_3 = Base_3 /\ C!Base_4 = Base_4 /\ C!Base_5 = Base_5
      /\ C!Radix_2 = Radix_2 /\ C!Radix_3 = Radix_3 /\ C!Radix_4 = Radix_4
  BY DEF C!Base_2, Base_2, C!Base_3, Base_3, C!Base_4, Base_4, C!Base_5, Base_5, C!Radix_2, Radix_2, C!Radix_3, Radix_3, C!Radix_4, Radix_4
<1>6. /\ \A g : C!WeighDigits(g) = WeighDigits(g)
      /\ \A v : C!ValueToBytes(v) = ValueToBytes(v)
  BY <1>5 DEF C!WeighDigits, WeighDigits, C!ValueToBytes, ValueToBytes
<1>7. /\ \A t : C!TailValue(t) = TailValue(t)
      /\ \A t : C!TailBytes(t) = TailBytes(t)
  BY DEF C!TailValue, TailValue, C!DigitsToValue, DigitsToValue, C!TailBytes, TailBytes, C!ValueToBytes, ValueToBytes, C!Radix_2, Radix_2, C!Radix_3, Radix_3
<1>8. \A t : C!TailAccepted(t) = TailAccepted(t)
  <2>1. /\ \A v : C!ValueToDigitPairs(v) = ValueToDigitPairs(v)
        /\ \A b : C!BytesToValue(b) = BytesToValue(b)
        /\ \A b : C!ZeroPadded(b) = ZeroPadded(b)
    BY DEF C!ValueToDigitPairs, ValueToDigitPairs, C!BytesToValue, BytesToValue, C!ZeroPadded, ZeroPadded, C!Base_2, Base_2, C!Base_3, Base_3
  <2>2. \A b : C!TailDigits(b) = TailDigits(b)
    BY <2>1 DEF C!TailDigits, TailDigits
  <2> QED BY <1>5, <1>7, <2>2 DEF C!TailAccepted, TailAccepted
<1>9. C!Masks = Masks /\ \A c : C!RSetIndex(c) = RSetIndex(c)
  BY DEF C!Masks, Masks, C!Bit, Bit, C!RSetIndex, RSetIndex
<1>10. /\ C!DpSignalBase = DpSignalBase /\ C!FillSignalBase = FillSignalBase
       /\ C!TailSignalBase = TailSignalBase /\ C!FutureSignalBase = FutureSignalBase
  BY DEF C!DpSignalBase, DpSignalBase, C!DpSignalSpan, DpSignalSpan, C!FillSignalBase, FillSignalBase, C!FillSignalSpan, FillSignalSpan, C!TailSignalBase, TailSignalBase, C!TailSignalSpan, TailSignalSpan, C!FutureSignalBase, FutureSignalBase, C!Masks, Masks, C!Bit, Bit, C!Radix_2, Radix_2, C!Radix_3, Radix_3, C!Radix_4, Radix_4
<1>11. \A v : C!SplitDp(v) = SplitDp(v)
  BY DEF C!SplitDp, SplitDp, C!Masks, Masks, C!Bit, Bit, C!RSetIndex, RSetIndex, C!RSetBytes, RSetBytes
<1>12. /\ \A v : C!SplitFill(v) = SplitFill(v)
       /\ \A v : C!SplitTail(v) = SplitTail(v)
  BY DEF C!SplitFill, SplitFill, C!SplitTail, SplitTail, C!Radix_2, Radix_2
<1>13. \A q, m : C!DpTable(q, m) = DpTable(q, m)
  <2>1. \A q, m : C!Donors(q, m) = Donors(q, m)
    BY DEF C!Donors, Donors, C!RSetIndex, RSetIndex, C!Cardinality, Cardinality
  <2> QED BY <2>1 DEF C!DpTable, DpTable
<1> QED BY <1>1, <1>2, <1>3, <1>4, <1>5, <1>6, <1>7, <1>8, <1>10, <1>11, <1>12, <1>13

-----------------------------------------------------------------------------
(* What a text means: what the walk gives from each position on, the bytes *)
(* of its tokens or the fault of the first that is missing.                *)

\* The foreign characters among n after the first p, and the error of the first.
Bad(s, p, n) == {i \in (p + 1)..(p + n) : s[i] \notin AlphabetN}
FirstBad(s, p, n) == Error("InvalidCharacter", Min(Bad(s, p, n)) - 1)

\* What is wrong where no token begins.
Fault(s, p) ==
  LET left == Len(s) - p
      n    == Announced(s, p)
  IN  IF ~Clean(s, p, Smaller(left, 5)) THEN FirstBad(s, p, Smaller(left, 5))
      ELSE IF left < 5 THEN Error("InvalidFinalBlock", p)
      ELSE IF ValueAt(s, p) >= FutureSignalBase THEN Error("UndefinedSignal", p)
      ELSE IF left - 5 < n THEN Error("UnexpectedEndOfStream", p + 5)
      ELSE FirstBad(s, p + 5, n)

\* One position's answer, from those behind it.
Answer(s, f, p) ==
  IF p = Len(s) THEN Decoded(<<>>)
  ELSE IF TokenLen(s, p) = 0 THEN Fault(s, p)
  ELSE After(TokenBytes(s, p), f[p + TokenLen(s, p)])

Answers(s, f) == f = [p \in 0..Len(s) |-> Answer(s, f, p)]

Faults == {"InvalidCharacter", "InvalidFinalBlock", "UndefinedSignal", "UnexpectedEndOfStream"}
Verdicts == [kind : {"OK"}, data : Seq(Byte)] \cup [kind : Faults, offset : Nat]

\* A set that holds a number up to n whenever it holds those between it and n.
LEMMA CountingDown ==
  ASSUME NEW n \in Nat, NEW T, \A p \in 0..n : (\A r \in (p + 1)..n : r \in T) => p \in T
  PROVE  \A p \in 0..n : p \in T
<1> DEFINE U == {m \in 0..n : \A r \in (n - m)..n : r \in T}
<1>1. 0 \in U
  <2>1. n \in T
    OBVIOUS
  <2> QED BY <2>1
<1>2. ASSUME NEW m \in 1..n, m - 1 \in U PROVE m \in U
  <2>1. \A r \in (n - m + 1)..n : r \in T
    BY <1>2
  <2>2. n - m \in T
    BY <2>1
  <2>3. \A r \in (n - m)..n : r = n - m \/ r \in (n - m + 1)..n
    OBVIOUS
  <2> QED BY <2>1, <2>2, <2>3
<1> HIDE DEF U
<1>3. n \in U
  BY <1>1, <1>2, CountingUp
<1> QED BY <1>3 DEF U

\* Every text means something.
LEMMA AnswersExist ==
  ASSUME NEW s \in Seq(Char)
  PROVE  \E f : Answers(s, f)
<1> DEFINE n == Len(s)
           upTo(f, m) == /\ f = [p \in 0..n |-> f[p]]
                         /\ \A p \in (n - m)..n : f[p] = Answer(s, f, p)
           T == {m \in 0..n : \E f : upTo(f, m)}
<1>1. n \in Nat
  BY LenProperties
<1> HIDE DEF n
<1>2. \A p \in 0..n : TokenLen(s, p) \in 0..(n - p)
  BY TokenRange DEF n
<1> HIDE DEF upTo
<1>3. 0 \in T
  <2> DEFINE f == [p \in 0..n |-> Decoded(<<>>)]
  <2>1. f = [p \in 0..n |-> f[p]] /\ f[n] = Decoded(<<>>)
    BY <1>1
  <2> HIDE DEF f
  <2>2. Answer(s, f, n) = Decoded(<<>>)
    BY DEF Answer, n
  <2>3. \A p \in (n - 0)..n : p = n
    BY <1>1
  <2>4. upTo(f, 0)
    BY <2>1, <2>2, <2>3 DEF upTo
  <2> QED BY <1>1, <2>4
<1>4. ASSUME NEW m \in 1..n, m - 1 \in T PROVE m \in T
  <2>1. PICK f : upTo(f, m - 1)
    BY <1>4
  <2> DEFINE q == n - m
             g == [p \in 0..n |-> IF p = q THEN Answer(s, f, q) ELSE f[p]]
  <2>2. q \in 0..(n - 1) /\ \A p \in (n - m)..n : p = q \/ p \in (n - (m - 1))..n
    BY <1>1
  <2>3. g = [p \in 0..n |-> g[p]] /\ g[q] = Answer(s, f, q) /\ \A p \in (q + 1)..n : g[p] = f[p]
    BY <1>1, <2>2
  <2> HIDE DEF g, q
  <2>4. ASSUME NEW p \in q..n PROVE Answer(s, g, p) = Answer(s, f, p)
    <3>1. TokenLen(s, p) # 0 => p + TokenLen(s, p) \in (q + 1)..n
      <4>1. p \in 0..n
        BY <1>1, <2>2
      <4>2. TokenLen(s, p) \in 0..(n - p)
        BY <1>2, <4>1
      <4> QED BY <1>1, <2>2, <4>1, <4>2
    <3>2. TokenLen(s, p) # 0 => g[p + TokenLen(s, p)] = f[p + TokenLen(s, p)]
      BY <2>3, <3>1
    <3> QED BY <3>2 DEF Answer
  <2>5. ASSUME NEW p \in (n - m)..n PROVE g[p] = Answer(s, g, p)
    <3>1. p \in q..n
      BY DEF q
    <3>2. CASE p = q
      BY <2>3, <2>4, <3>1, <3>2
    <3>3. CASE p # q
      <4>1. p \in (n - (m - 1))..n /\ p \in (q + 1)..n
        BY <1>1, <2>2, <3>1, <3>3
      <4>2. f[p] = Answer(s, f, p)
        BY <2>1, <4>1 DEF upTo
      <4> QED BY <2>3, <2>4, <3>1, <4>1, <4>2
    <3> QED BY <3>2, <3>3
  <2>6. upTo(g, m)
    BY <2>3, <2>5 DEF upTo
  <2> QED BY <2>6
<1> HIDE DEF T
<1>5. n \in T
  <2>1. \A m \in 0..n : m \in T
    BY <1>1, <1>3, <1>4, CountingUp
  <2> QED BY <1>1, <2>1
<1>6. PICK f : upTo(f, n)
  BY <1>5 DEF T
<1>7. \A p \in 0..n : f[p] = Answer(s, f, p)
  BY <1>1, <1>6 DEF upTo
<1>8. f = [p \in 0..n |-> Answer(s, f, p)]
  BY <1>6, <1>7 DEF upTo
<1> QED BY <1>8 DEF Answers, n

\* A set of numbers with a member has a least one.
LEMMA MinIs ==
  ASSUME NEW S \in SUBSET Nat, S # {}
  PROVE  /\ Min(S) \in S /\ \A x \in S : Min(S) <= x
         /\ \A m \in S : (\A x \in S : m <= x) => m = Min(S)
<1> DEFINE P(x) == \A y \in S : x <= y
<1>1. PICK l \in S : P(l)
  BY LeastNat
<1>2. Min(S) = CHOOSE x \in S : P(x)
  BY DEF Min
<1>3. Min(S) \in S /\ P(Min(S))
  BY <1>1, <1>2
<1>4. ASSUME NEW m \in S, P(m) PROVE m = Min(S)
  <2>1. m <= Min(S) /\ Min(S) <= m /\ m \in Nat /\ Min(S) \in Nat
    BY <1>3, <1>4
  <2> QED BY <2>1
<1> QED BY <1>3, <1>4

\* Where not all of n characters are of the alphabet, all before the first that
\* is not are.
LEMMA FirstBadIs ==
  ASSUME NEW s, NEW p \in Nat, NEW n \in Nat, ~Clean(s, p, n)
  PROVE  /\ FirstBad(s, p, n) = Error("InvalidCharacter", Min(Bad(s, p, n)) - 1)
         /\ Min(Bad(s, p, n)) \in (p + 1)..(p + n) /\ s[Min(Bad(s, p, n))] \notin AlphabetN
         /\ \A i \in (p + 1)..(Min(Bad(s, p, n)) - 1) : s[i] \in AlphabetN
<1> DEFINE B == Bad(s, p, n)
<1>1. B # {} /\ B \in SUBSET Nat
  BY DEF Bad, Clean
<1>2. Min(B) \in B /\ \A x \in B : Min(B) <= x
  BY <1>1, MinIs
<1>3. Min(B) \in (p + 1)..(p + n) /\ s[Min(B)] \notin AlphabetN
  BY <1>2 DEF Bad
<1>4. ASSUME NEW i \in (p + 1)..(Min(B) - 1) PROVE s[i] \in AlphabetN
  <2>1. i \in (p + 1)..(p + n) /\ ~(Min(B) <= i)
    BY <1>3
  <2> QED BY <1>2, <2>1 DEF Bad
<1> QED BY <1>3, <1>4 DEF FirstBad

\* What is said of a place where no token begins, and of the first foreign
\* character behind it.
LEMMA FaultIs ==
  ASSUME NEW s \in Seq(Char), NEW p \in 0..(Len(s) - 1), TokenLen(s, p) = 0
  PROVE  /\ Fault(s, p) \in [kind : Faults, offset : Nat]
         /\ Fault(s, p).kind = "InvalidCharacter" =>
              /\ Fault(s, p).offset \in p..(Len(s) - 1)
              /\ s[Fault(s, p).offset + 1] \notin AlphabetN
              /\ \A i \in (p + 1)..Fault(s, p).offset : s[i] \in AlphabetN
<1> DEFINE left == Len(s) - p
           m == Smaller(left, 5)
           n == Announced(s, p)
           v == ValueAt(s, p)
<1>1. Len(s) \in Nat /\ p \in Nat /\ left \in Nat \ {0} /\ m \in Nat /\ m <= left
  <2>1. Len(s) \in Nat
    BY LenProperties
  <2>2. p \in Nat /\ left \in Nat \ {0}
    BY <2>1
  <2> HIDE DEF left
  <2>3. m \in Nat /\ m <= left
    BY <2>2 DEF Smaller
  <2> QED BY <2>1, <2>2, <2>3
<1>2. \A k, o : Error(k, o) = [kind |-> k, offset |-> o]
  BY DEF Error
<1>3. ASSUME NEW q \in Nat, NEW k \in Nat, p <= q, q + k <= Len(s), ~Clean(s, q, k),
             \A i \in (p + 1)..q : s[i] \in AlphabetN, Fault(s, p) = FirstBad(s, q, k)
      PROVE  /\ Fault(s, p) \in [kind : Faults, offset : Nat]
             /\ Fault(s, p).offset \in p..(Len(s) - 1)
             /\ s[Fault(s, p).offset + 1] \notin AlphabetN
             /\ \A i \in (p + 1)..Fault(s, p).offset : s[i] \in AlphabetN
  <2> DEFINE b == Min(Bad(s, q, k))
  <2>1. /\ FirstBad(s, q, k) = Error("InvalidCharacter", b - 1)
        /\ b \in (q + 1)..(q + k) /\ s[b] \notin AlphabetN
        /\ \A i \in (q + 1)..(b - 1) : s[i] \in AlphabetN
    BY <1>3, FirstBadIs
  <2> HIDE DEF b
  <2>2. b - 1 \in Nat /\ b - 1 \in p..(Len(s) - 1) /\ (b - 1) + 1 = b
    BY <1>1, <1>3, <2>1
  <2>3. Fault(s, p) = [kind |-> "InvalidCharacter", offset |-> b - 1]
    BY <1>2, <1>3, <2>1
  <2>4. Fault(s, p).offset = b - 1
    BY <2>3
  <2>5. \A i \in (p + 1)..(b - 1) : i \in (p + 1)..q \/ i \in (q + 1)..(b - 1)
    BY <1>1, <1>3, <2>1
  <2>6. \A i \in (p + 1)..(b - 1) : s[i] \in AlphabetN
    BY <1>3, <2>1, <2>5
  <2>7. Fault(s, p) \in [kind : Faults, offset : Nat]
    BY <2>2, <2>3 DEF Faults
  <2> QED BY <2>1, <2>2, <2>4, <2>6, <2>7
<1>4. CASE ~Clean(s, p, m)
  <2>1. Fault(s, p) = FirstBad(s, p, m)
    BY <1>4 DEF Fault
  <2>2. p + m <= Len(s) /\ \A i \in (p + 1)..p : s[i] \in AlphabetN
    BY <1>1
  <2> HIDE DEF m
  <2> QED BY <1>1, <1>3, <1>4, <2>1, <2>2
<1>5. CASE Clean(s, p, m) /\ left < 5
  <2>1. Fault(s, p) = [kind |-> "InvalidFinalBlock", offset |-> p]
    BY <1>2, <1>5 DEF Fault
  <2> QED BY <1>1, <2>1 DEF Faults
<1>6. CASE Clean(s, p, m) /\ ~(left < 5) /\ v >= FutureSignalBase
  <2>1. Fault(s, p) = [kind |-> "UndefinedSignal", offset |-> p]
    BY <1>2, <1>6 DEF Fault
  <2> QED BY <1>1, <2>1 DEF Faults
<1>7. CASE Clean(s, p, m) /\ ~(left < 5) /\ ~(v >= FutureSignalBase)
  <2>1. m = 5 /\ left >= 5 /\ p + 5 <= Len(s)
    BY <1>1, <1>7 DEF Smaller
  <2>2. Clean(s, p, 5)
    BY <1>7, <2>1
  <2>3. AtSignal(s, p)
    <3>1. ~AtSignal(s, p) => TokenLen(s, p) = 5
      BY <1>7, <2>1, <2>2 DEF TokenLen
    <3> QED BY <3>1
  <2>4. n \in Nat \ {0}
    BY <1>1, <2>1, <2>2, <2>3, AnnouncedLength
  <2>5. ~(left - 5 >= n /\ Clean(s, p + 5, n))
    <3>1. TokenLen(s, p) = IF left - 5 >= n /\ Clean(s, p + 5, n) THEN 5 + n ELSE 0
      BY <1>1, <2>1, <2>2, <2>3, SegmentToken
    <3> HIDE DEF n
    <3> QED BY <2>4, <3>1
  <2> HIDE DEF n
  <2>6. CASE left - 5 < n
    <3>1. Fault(s, p) = [kind |-> "UnexpectedEndOfStream", offset |-> p + 5]
      BY <1>2, <1>7, <2>6 DEF Fault, n
    <3> QED BY <1>1, <3>1 DEF Faults
  <2>7. CASE ~(left - 5 < n)
    <3>1. Fault(s, p) = FirstBad(s, p + 5, n)
      BY <1>7, <2>7 DEF Fault, n
    <3>2. ~Clean(s, p + 5, n) /\ p + 5 + n <= Len(s)
      BY <1>1, <2>4, <2>5, <2>7
    <3>3. \A i \in (p + 1)..(p + 5) : s[i] \in AlphabetN
      BY <2>2 DEF Clean
    <3> QED BY <1>1, <1>3, <2>4, <3>1, <3>2, <3>3
  <2> QED BY <2>6, <2>7
<1> QED BY <1>4, <1>5, <1>6, <1>7

\* What a token is decoded to is bytes.
LEMMA TokenBytesType ==
  ASSUME NEW s \in Seq(Char), NEW p \in 0..Len(s), TokenLen(s, p) # 0
  PROVE  TokenBytes(s, p) \in Seq(Byte)
<1> DEFINE left == Len(s) - p
           v == ValueAt(s, p)
<1>1. Len(s) \in Nat /\ p \in Nat /\ left \in Nat
  BY LenProperties
<1>2. CASE left < 5
  <2> DEFINE t == Values(LastOf(s, p))
  <2>1. ~(left >= 5)
    BY <1>1, <1>2
  <2>2. left > 1 /\ Clean(s, p, left) /\ TailAccepted(t)
    BY <2>1 DEF TokenLen
  <2>3. p + left <= Len(s) /\ LastOf(s, p) = SubSeq(s, p + 1, p + left)
    BY <1>1 DEF LastOf
  <2>4. t \in Seq(Digit)
    BY <1>1, <2>2, <2>3, CleanPart
  <2>5. LastOf(s, p) \in Seq(Char) /\ Len(LastOf(s, p)) = left
    BY <1>1, <2>3, PartOf
  <2>6. Len(t) \in 2..4
    <3>1. Len(t) = left
      BY <2>5, ValuesLength
    <3> HIDE DEF t
    <3> QED BY <1>1, <1>2, <2>2, <3>1
  <2>7. TokenBytes(s, p) = TailBytes(t)
    BY <1>2 DEF TokenBytes
  <2> HIDE DEF t
  <2> QED BY <2>2, <2>4, <2>6, <2>7, FinalBytes
<1>3. CASE ~(left < 5)
  <2>1. left >= 5 /\ p + 5 <= Len(s)
    BY <1>1, <1>3
  <2>2. Clean(s, p, 5) /\ ~(v >= FutureSignalBase)
    BY <2>1 DEF TokenLen
  <2>3. v \in Nat
    BY <1>1, <2>1, <2>2, CleanValue
  <2>4. CASE AtSignal(s, p)
    <3> DEFINE g == SplitDp(v - DpSignalBase)
               n == g.len
               map == DpTable(g.profile, g.mask)
               b == [j \in 1..n |-> map[s[p + 5 + j]]]
    <3>1. TokenBytes(s, p) = b
      BY <1>3, <2>4 DEF TokenBytes
    <3>2. n = Announced(s, p)
      BY DEF Announced
    <3>3. n \in Nat
      BY <1>1, <2>1, <2>2, <2>4, <3>2, AnnouncedLength
    <3>4. TokenLen(s, p) = IF left - 5 >= n /\ Clean(s, p + 5, n) THEN 5 + n ELSE 0
      BY <1>1, <2>1, <2>2, <2>4, <3>2, SegmentToken
    <3>5. g.mask \in SUBSET Byte
      <4>1. RSetBytes \subseteq Byte
        BY BytesAssumption, ElementOfSeq, LenProperties DEF RSetBytes
      <4> QED BY <4>1 DEF SplitDp
    <3>6. map \in [AlphabetN -> Byte]
      BY <3>5, TableBytes
    <3> HIDE DEF map, n
    <3>7. \A j \in 1..n : s[p + 5 + j] \in AlphabetN
      BY <1>1, <3>3, <3>4 DEF Clean
    <3>8. b \in [1..n -> Byte]
      BY <3>6, <3>7
    <3> HIDE DEF b
    <3> QED BY <3>1, <3>3, <3>8, SeqDef
  <2>5. CASE ~AtSignal(s, p)
    <3>1. TokenBytes(s, p) = ValueBytes(v)
      BY <1>3, <2>5 DEF TokenBytes
    <3>2. v < DpSignalBase \/ v >= FillSignalBase
      BY <2>3, <2>5, RangeTypes DEF AtSignal
    <3> HIDE DEF v
    <3>3. CASE v < DpSignalBase
      <4>1. v \in 0..(Radix_4 - 1) /\ ValueBytes(v) = ValueToBytes(v)
        BY <2>3, <3>3, RangeTypes DEF ValueBytes
      <4> QED BY <3>1, <4>1, BlockBytes
    <3>4. CASE ~(v < DpSignalBase) /\ v < TailSignalBase
      <4> DEFINE fill == SplitFill(v - FillSignalBase)
                 b == [i \in 1..fill.len |-> fill.byte]
      <4>1. v - FillSignalBase \in 0..(FillSignalSpan - 1)
        BY <2>3, <3>2, <3>4, RangeTypes
      <4>2. fill.len \in Nat /\ fill.byte \in Byte
        <5>1. 1..MaxFill \subseteq Nat
          BY ThresholdsAssumption
        <5> QED BY <4>1, <5>1, FillParts
      <4>3. ValueBytes(v) = b
        BY <3>4 DEF ValueBytes
      <4> HIDE DEF fill
      <4>4. b \in [1..fill.len -> Byte]
        BY <4>2
      <4> HIDE DEF b
      <4> QED BY <3>1, <4>2, <4>3, <4>4, SeqDef
    <3>5. CASE ~(v < DpSignalBase) /\ ~(v < TailSignalBase)
      <4> DEFINE tail == SplitTail(v - TailSignalBase)
                 zeros == Zeros(tail.zeros)
      <4>1. v - TailSignalBase \in Nat
        BY <2>3, <3>5, RangeTypes
      <4>2. tail.zeros \in Nat /\ tail.lit \in Seq(Byte)
        <5>1. 1..MaxTailZeros \subseteq Nat
          BY ThresholdsAssumption
        <5> QED BY <4>1, <5>1, TailParts
      <4>3. ValueBytes(v) = IF tail.order = 0 THEN zeros \o tail.lit ELSE tail.lit \o zeros
        BY <3>5 DEF ValueBytes, Zeros
      <4> HIDE DEF tail
      <4>4. zeros \in Seq(Byte)
        BY <4>2, ZerosAre
      <4> HIDE DEF zeros
      <4> QED BY <3>1, <4>2, <4>3, <4>4, ConcatProperties
    <3> QED BY <3>3, <3>4, <3>5
  <2> QED BY <2>4, <2>5
<1> QED BY <1>2, <1>3

\* Bytes before an answer: it is one, and bytes before bytes are their sequence.
LEMMA AfterIs ==
  ASSUME NEW b \in Seq(Byte), NEW r \in Verdicts
  PROVE  /\ After(b, r) \in Verdicts /\ After(b, r).kind = r.kind
         /\ r.kind # "OK" => After(b, r) = r
         /\ r.kind = "OK" => After(b, r) = Decoded(b \o r.data) /\ r.data \in Seq(Byte)
         /\ \A a \in Seq(Byte) : After(a, After(b, r)) = After(a \o b, r)
<1>1. CASE r.kind # "OK"
  <2>1. \A a : After(a, r) = r
    BY <1>1 DEF After
  <2> QED BY <1>1, <2>1
<1>2. CASE r.kind = "OK"
  <2>1. r \in [kind : {"OK"}, data : Seq(Byte)]
    BY <1>2 DEF Verdicts, Faults
  <2> DEFINE d == r.data
             bd == b \o d
  <2>2. d \in Seq(Byte) /\ bd \in Seq(Byte)
    BY <2>1, ConcatProperties
  <2>3. \A a, x : x.kind = "OK" => After(a, x) = [kind |-> "OK", data |-> a \o x.data]
    BY DEF After, Decoded
  <2>4. After(b, r) = [kind |-> "OK", data |-> bd]
    BY <1>2, <2>3
  <2>5. After(b, r).kind = "OK" /\ After(b, r).data = bd
    BY <2>4
  <2>6. ASSUME NEW a \in Seq(Byte) PROVE After(a, After(b, r)) = After(a \o b, r)
    <3>1. a \o bd = (a \o b) \o d
      <4> HIDE DEF d
      <4> QED BY <2>2, ConcatAssociative
    <3>2. After(a, After(b, r)) = [kind |-> "OK", data |-> a \o bd]
      <4> DEFINE x == After(b, r)
      <4>1. x.kind = "OK" /\ x.data = bd
        BY <2>5
      <4> HIDE DEF x, bd
      <4>2. After(a, x) = [kind |-> "OK", data |-> a \o bd]
        BY <2>3, <4>1
      <4> QED BY <4>2 DEF x
    <3>3. After(a \o b, r) = [kind |-> "OK", data |-> (a \o b) \o d]
      BY <1>2, <2>3
    <3> QED BY <3>1, <3>2, <3>3
  <2>7. After(b, r) \in Verdicts
    <3> HIDE DEF bd
    <3> QED BY <2>2, <2>4 DEF Verdicts
  <2>8. After(b, r) = Decoded(b \o r.data)
    BY <2>4 DEF Decoded
  <2> QED BY <1>2, <2>2, <2>5, <2>6, <2>7, <2>8
<1> QED BY <1>1, <1>2

\* An answer is a verdict.
LEMMA AnswerType ==
  ASSUME NEW s \in Seq(Char), NEW f, Answers(s, f)
  PROVE  \A p \in 0..Len(s) : f[p] \in Verdicts /\ f[p] = Answer(s, f, p)
<1> DEFINE T == {p \in 0..Len(s) : f[p] \in Verdicts}
<1>1. Len(s) \in Nat /\ \A p \in 0..Len(s) : f[p] = Answer(s, f, p)
  BY LenProperties DEF Answers
<1>2. ASSUME NEW p \in 0..Len(s), \A r \in (p + 1)..Len(s) : r \in T
      PROVE  p \in T
  <2>1. f[p] = Answer(s, f, p)
    BY <1>1
  <2>2. CASE p = Len(s)
    <3>1. f[p] = [kind |-> "OK", data |-> <<>>]
      BY <2>1, <2>2 DEF Answer, Decoded
    <3>2. \A d \in Seq(Byte) : [kind |-> "OK", data |-> d] \in Verdicts
      BY DEF Verdicts
    <3>3. <<>> \in Seq(Byte)
      OBVIOUS
    <3> QED BY <3>1, <3>2, <3>3
  <2>3. CASE p # Len(s) /\ TokenLen(s, p) = 0
    <3>1. f[p] = Fault(s, p) /\ p \in 0..(Len(s) - 1)
      BY <1>1, <2>1, <2>3 DEF Answer
    <3> QED BY <2>3, <3>1, FaultIs DEF Verdicts
  <2>4. CASE p # Len(s) /\ TokenLen(s, p) # 0
    <3> DEFINE q == p + TokenLen(s, p)
    <3>1. f[p] = After(TokenBytes(s, p), f[q])
      BY <2>1, <2>4 DEF Answer
    <3>2. q \in (p + 1)..Len(s)
      <4>1. TokenLen(s, p) \in 0..(Len(s) - p)
        BY TokenRange
      <4> QED BY <1>1, <2>4, <4>1
    <3>3. f[q] \in Verdicts
      BY <1>2, <3>2
    <3> QED BY <2>4, <3>1, <3>3, AfterIs, TokenBytesType
  <2> QED BY <2>2, <2>3, <2>4
<1> HIDE DEF T
<1>3. \A p \in 0..Len(s) : p \in T
  BY <1>1, <1>2, CountingDown
<1> QED BY <1>1, <1>3 DEF T

\* The answers of a text are one function.
LEMMA AnswersUnique ==
  ASSUME NEW s \in Seq(Char), NEW f, Answers(s, f), NEW g, Answers(s, g)
  PROVE  f = g
<1> DEFINE T == {p \in 0..Len(s) : f[p] = g[p]}
<1>1. /\ Len(s) \in Nat
      /\ \A p \in 0..Len(s) : f[p] = Answer(s, f, p) /\ g[p] = Answer(s, g, p)
      /\ f = [p \in 0..Len(s) |-> f[p]] /\ g = [p \in 0..Len(s) |-> g[p]]
  BY LenProperties DEF Answers
<1>2. ASSUME NEW p \in 0..Len(s), \A r \in (p + 1)..Len(s) : r \in T
      PROVE  p \in T
  <2>1. f[p] = Answer(s, f, p) /\ g[p] = Answer(s, g, p)
    BY <1>1
  <2>2. TokenLen(s, p) # 0 => f[p + TokenLen(s, p)] = g[p + TokenLen(s, p)]
    <3>1. TokenLen(s, p) \in 0..(Len(s) - p)
      BY TokenRange
    <3>2. TokenLen(s, p) # 0 => p + TokenLen(s, p) \in (p + 1)..Len(s)
      BY <1>1, <3>1
    <3> QED BY <1>2, <3>2
  <2> QED BY <2>1, <2>2 DEF Answer
<1> HIDE DEF T
<1>3. \A p \in 0..Len(s) : p \in T
  BY <1>1, <1>2, CountingDown
<1>4. \A p \in 0..Len(s) : f[p] = g[p]
  BY <1>3 DEF T
<1> QED BY <1>1, <1>4

\* The answer at a position is that of the position its token ends at, behind the
\* token's bytes.
LEMMA AnswerSteps ==
  ASSUME NEW s \in Seq(Char), NEW f, Answers(s, f), NEW p \in 0..Len(s)
  PROVE  /\ p = Len(s) => f[p] = Decoded(<<>>)
         /\ Stuck(s, p) => f[p] = Fault(s, p) /\ f[p].kind # "OK"
         /\ p # Len(s) /\ ~Stuck(s, p) =>
              /\ TokenLen(s, p) # 0 /\ p + TokenLen(s, p) \in (p + 1)..Len(s)
              /\ TokenBytes(s, p) \in Seq(Byte)
              /\ f[p] = After(TokenBytes(s, p), f[p + TokenLen(s, p)])
<1>1. f[p] = Answer(s, f, p)
  BY AnswerType
<1>2. TokenLen(s, p) \in 0..(Len(s) - p) /\ Len(s) \in Nat
  BY TokenRange, LenProperties
<1>3. CASE Stuck(s, p)
  <2>1. p \in 0..(Len(s) - 1) /\ TokenLen(s, p) = 0
    BY <1>2, <1>3 DEF Stuck
  <2>2. f[p] = Fault(s, p)
    BY <1>1, <2>1 DEF Answer
  <2>3. Fault(s, p).kind \in Faults
    BY <2>1, FaultIs
  <2>4. p # Len(s)
    BY <1>2, <2>1
  <2> QED BY <1>3, <2>2, <2>3, <2>4 DEF Faults
<1>4. CASE ~Stuck(s, p) /\ p # Len(s)
  <2>1. TokenLen(s, p) # 0
    BY <1>2, <1>4 DEF Stuck
  <2>2. p + TokenLen(s, p) \in (p + 1)..Len(s)
    BY <1>2, <2>1
  <2> QED BY <1>1, <1>4, <2>1, <2>2, TokenBytesType DEF Answer
<1>5. CASE p = Len(s)
  <2>1. ~Stuck(s, p)
    BY <1>2, <1>5 DEF Stuck
  <2> QED BY <1>1, <1>5, <2>1 DEF Answer
<1> QED BY <1>3, <1>4, <1>5

\* What the walk reaches decides.
LEMMA AnswerReached ==
  ASSUME NEW s \in Seq(Char), NEW f, Answers(s, f)
  PROVE  \A p \in 0..Len(s) : \A r \in ReachFrom(s, p) :
           f[p].kind = f[r].kind /\ (f[r].kind # "OK" => f[p] = f[r])
<1> DEFINE good(p) == \A r \in ReachFrom(s, p) :
                        f[p].kind = f[r].kind /\ (f[r].kind # "OK" => f[p] = f[r])
           T == {p \in 0..Len(s) : good(p)}
<1>1. Len(s) \in Nat
  BY LenProperties
<1>2. ASSUME NEW p \in 0..Len(s), \A r \in (p + 1)..Len(s) : r \in T
      PROVE  p \in T
  <2>1. ASSUME NEW r \in ReachFrom(s, p), r # p
        PROVE  f[p].kind = f[r].kind /\ (f[r].kind # "OK" => f[p] = f[r])
    <3> DEFINE e == p + TokenLen(s, p)
    <3>1. TokenLen(s, p) # 0 /\ r \in ReachFrom(s, e)
      BY <2>1, ReachNext
    <3>2. p # Len(s) /\ ~Stuck(s, p)
      <4>1. TokenLen(s, p) \in 0..(Len(s) - p)
        BY TokenRange
      <4> QED BY <1>1, <3>1, <4>1 DEF Stuck
    <3>3. /\ e \in (p + 1)..Len(s) /\ TokenBytes(s, p) \in Seq(Byte)
          /\ f[p] = After(TokenBytes(s, p), f[e])
      BY <3>2, AnswerSteps
    <3> HIDE DEF e
    <3>4. good(e)
      BY <1>2, <3>3
    <3>5. f[e] \in Verdicts
      BY <1>1, <3>3, AnswerType
    <3>6. f[p].kind = f[e].kind /\ (f[e].kind # "OK" => f[p] = f[e])
      BY <3>3, <3>5, AfterIs
    <3> QED BY <3>1, <3>4, <3>6
  <2>2. good(p)
    BY <2>1
  <2> QED BY <2>2
<1> HIDE DEF T
<1>3. \A p \in 0..Len(s) : p \in T
  BY <1>1, <1>2, CountingDown
<1> QED BY <1>3 DEF T

\* What is OK is clean to the end, and a foreign character named is the first.
LEMMA AnswerClean ==
  ASSUME NEW s \in Seq(Char), NEW f, Answers(s, f)
  PROVE  \A p \in 0..Len(s) :
           /\ f[p].kind = "OK" => Clean(s, p, Len(s) - p)
           /\ f[p].kind = "InvalidCharacter" =>
                /\ f[p].offset \in p..(Len(s) - 1)
                /\ s[f[p].offset + 1] \notin AlphabetN
                /\ \A i \in (p + 1)..f[p].offset : s[i] \in AlphabetN
<1> DEFINE good(p) ==
             /\ f[p].kind = "OK" => Clean(s, p, Len(s) - p)
             /\ f[p].kind = "InvalidCharacter" =>
                  /\ f[p].offset \in p..(Len(s) - 1)
                  /\ s[f[p].offset + 1] \notin AlphabetN
                  /\ \A i \in (p + 1)..f[p].offset : s[i] \in AlphabetN
           T == {p \in 0..Len(s) : good(p)}
<1>1. Len(s) \in Nat
  BY LenProperties
<1>2. ASSUME NEW p \in 0..Len(s), \A r \in (p + 1)..Len(s) : r \in T
      PROVE  p \in T
  <2>1. CASE p = Len(s)
    <3>1. f[p].kind = "OK"
      <4>1. f[p] = Decoded(<<>>)
        BY <2>1, AnswerSteps
      <4> QED BY <4>1 DEF Decoded
    <3>2. Clean(s, p, Len(s) - p)
      BY <1>1, <2>1 DEF Clean
    <3> QED BY <3>1, <3>2
  <2>2. CASE Stuck(s, p)
    <3>1. f[p] = Fault(s, p) /\ f[p].kind # "OK"
      BY <2>2, AnswerSteps
    <3>2. p \in 0..(Len(s) - 1) /\ TokenLen(s, p) = 0
      BY <1>1, <2>2 DEF Stuck
    <3> QED BY <3>1, <3>2, FaultIs
  <2>3. CASE p # Len(s) /\ ~Stuck(s, p)
    <3> DEFINE n == TokenLen(s, p)
               e == p + n
    <3>1. /\ n # 0 /\ e \in (p + 1)..Len(s) /\ TokenBytes(s, p) \in Seq(Byte)
          /\ f[p] = After(TokenBytes(s, p), f[e])
      BY <2>3, AnswerSteps
    <3>2. n \in Nat /\ Clean(s, p, n)
      BY <1>1, TokenRange
    <3>3. good(e) /\ f[e] \in Verdicts
      BY <1>2, <3>1, AnswerType
    <3>4. f[p].kind = f[e].kind /\ (f[e].kind # "OK" => f[p] = f[e])
      BY <3>1, <3>3, AfterIs
    <3> HIDE DEF n
    <3>5. f[p].kind = "OK" => Clean(s, p, Len(s) - p)
      <4>1. f[p].kind = "OK" => Clean(s, e, Len(s) - e)
        BY <3>3, <3>4
      <4>2. \A i \in (p + 1)..(p + (Len(s) - p)) : i \in (p + 1)..(p + n) \/ i \in (e + 1)..(e + (Len(s) - e))
        BY <1>1, <3>1, <3>2
      <4> QED BY <3>2, <4>1, <4>2 DEF Clean
    <3>6. ASSUME f[p].kind = "InvalidCharacter"
          PROVE  /\ f[p].offset \in p..(Len(s) - 1)
                 /\ s[f[p].offset + 1] \notin AlphabetN
                 /\ \A i \in (p + 1)..f[p].offset : s[i] \in AlphabetN
      <4>1. f[p] = f[e] /\ f[e].kind = "InvalidCharacter"
        BY <3>4, <3>6
      <4>2. /\ f[p].offset \in e..(Len(s) - 1)
            /\ s[f[p].offset + 1] \notin AlphabetN
            /\ \A i \in (e + 1)..f[p].offset : s[i] \in AlphabetN
        BY <3>3, <4>1
      <4>3. \A i \in (p + 1)..f[p].offset : i \in (p + 1)..(p + n) \/ i \in (e + 1)..f[p].offset
        BY <1>1, <3>1, <3>2, <4>2
      <4>4. f[p].offset \in p..(Len(s) - 1)
        BY <1>1, <3>1, <3>2, <4>2
      <4> QED BY <3>2, <4>2, <4>3, <4>4 DEF Clean
    <3> QED BY <3>5, <3>6
  <2> QED BY <2>1, <2>2, <2>3
<1> HIDE DEF T
<1>3. \A p \in 0..Len(s) : p \in T
  BY <1>1, <1>2, CountingDown
<1> QED BY <1>3 DEF T

\* The characters of a part of the text that have no value.
LEMMA PartValued ==
  ASSUME NEW s \in Seq(Char), NEW p \in Nat, NEW n \in Nat, p + n <= Len(s),
         NEW c, c = SubSeq(s, p + 1, p + n)
  PROVE  /\ Len(c) = n /\ \A i \in 1..n : c[i] = s[p + i]
         /\ Valued(c) <=> Clean(s, p, n)
         /\ ~Clean(s, p, n) => Invalid(c, p) = FirstBad(s, p, n)
<1>1. c \in Seq(Char) /\ Len(c) = n /\ \A i \in 1..n : c[i] = s[p + i]
  BY PartOf
<1>2. Clean(s, p, n) <=> \A i \in 1..n : ValueOf(c[i]) # NoValue
  BY CleanPart
<1>3. \A i \in 1..n : ValueOf(c[i]) = NoValue <=> s[p + i] \notin AlphabetN
  <2>1. \A i \in 1..n : c[i] \in Char
    BY <1>1, ElementOfSeq
  <2> QED BY <1>1, <2>1, ValueOfDigit
<1>4. ASSUME ~Clean(s, p, n)
      PROVE  Invalid(c, p) = FirstBad(s, p, n)
  <2> DEFINE B == Bad(s, p, n)
             A == {i \in 1..Len(c) : ValueOf(c[i]) = NoValue}
             m == Min(B)
  <2>1. m \in (p + 1)..(p + n) /\ s[m] \notin AlphabetN
        /\ \A i \in (p + 1)..(m - 1) : s[i] \in AlphabetN
    BY <1>4, FirstBadIs
  <2> HIDE DEF m
  <2>2. m - p \in 1..n /\ p + (m - p) = m
    BY <2>1
  <2>3. m - p \in A
    BY <1>1, <1>3, <2>1, <2>2
  <2>4. \A i \in A : m - p <= i
    <3> SUFFICES ASSUME NEW i \in A, ~(m - p <= i) PROVE FALSE
      OBVIOUS
    <3>1. i \in 1..n /\ s[p + i] \notin AlphabetN
      BY <1>1, <1>3
    <3>2. p + i \in (p + 1)..(m - 1)
      BY <2>2, <3>1
    <3> QED BY <2>1, <3>1, <3>2
  <2>5. A \in SUBSET Nat /\ A # {}
    BY <1>1, <2>3
  <2>6. Min(A) = m - p
    <3> HIDE DEF A
    <3> QED BY <2>3, <2>4, <2>5, MinIs
  <2>7. p + Min(A) - 1 = m - 1
    <3> HIDE DEF A
    <3> QED BY <2>2, <2>6
  <2> QED BY <2>7 DEF Invalid, FirstBad, m
<1> QED BY <1>1, <1>2, <1>4 DEF Valued

\* What the ports read a value as.
LEMMA PortGroup ==
  ASSUME NEW v \in Nat, v < FutureSignalBase, v < DpSignalBase \/ v >= FillSignalBase
  PROVE  GroupBytes(v) = ValueBytes(v)
<1>1. CASE v < DpSignalBase
  <2>1. GroupBytes(v) = ValueToBytes(v)
    <3>1. ~(v \in FillSignalBase..(TailSignalBase - 1)) /\ ~(v >= TailSignalBase)
      BY <1>1, RangeTypes, RangeOrder
    <3> QED BY <1>1, <3>1 DEF GroupBytes
  <2> QED BY <1>1, <2>1 DEF ValueBytes
<1>2. CASE ~(v < DpSignalBase) /\ v < TailSignalBase
  <2>1. v \in FillSignalBase..(TailSignalBase - 1) /\ ~(v >= TailSignalBase)
    BY <1>2, RangeTypes
  <2> QED BY <1>2, <2>1 DEF GroupBytes, ValueBytes
<1>3. CASE ~(v < DpSignalBase) /\ ~(v < TailSignalBase)
  <2> DEFINE x == v - TailSignalBase
             tail == SplitTail(x)
             zeros == [i \in 1..tail.zeros |-> 0]
  <2>1. v >= TailSignalBase /\ ~(v \in FillSignalBase..(TailSignalBase - 1))
    BY <1>3, RangeTypes
  <2>2. x \in 0..(TailSignalSpan - 1)
    <3>1. TailSignalBase + TailSignalSpan = FutureSignalBase /\ TailSignalSpan \in Int
      <4>1. MaxTailZeros \in Nat /\ Radix_2 \in Nat
        BY ThresholdsAssumption, RadixType
      <4> QED BY <4>1 DEF FutureSignalBase, TailSignalSpan
    <3> QED BY <2>1, <3>1, RangeTypes
  <2>3. tail.order \in 0..1
    <3>1. MaxTailZeros \in Nat \ {0} /\ Radix_2 \in Nat \ {0} /\ 2 * MaxTailZeros \in Nat \ {0}
      BY ThresholdsAssumption, RadixType
    <3>2. TailSignalSpan = Radix_2 * (2 * MaxTailZeros)
      BY <3>1 DEF TailSignalSpan
    <3>3. x \div Radix_2 \in 0..(2 * MaxTailZeros - 1)
      <4> HIDE DEF x
      <4> QED BY <2>2, <3>1, <3>2, DivisionRange
    <3>4. 2 * MaxTailZeros = MaxTailZeros * 2
      BY <3>1
    <3>5. (x \div Radix_2) \div MaxTailZeros \in 0..(2 - 1)
      <4> DEFINE y == x \div Radix_2
      <4>1. y \in 0..(MaxTailZeros * 2 - 1) /\ 2 \in Nat \ {0}
        BY <3>3, <3>4
      <4> HIDE DEF y
      <4>2. y \div MaxTailZeros \in 0..(2 - 1)
        BY <3>1, <4>1, DivisionRange
      <4> QED BY <4>2 DEF y
    <3> QED BY <3>5 DEF SplitTail
  <2>4. GroupBytes(v) = IF tail.order = 1 THEN tail.lit \o zeros ELSE zeros \o tail.lit
    BY <1>3, <2>1 DEF GroupBytes
  <2>5. ValueBytes(v) = IF tail.order = 0 THEN zeros \o tail.lit ELSE tail.lit \o zeros
    BY <1>3 DEF ValueBytes
  <2> HIDE DEF tail, zeros
  <2> QED BY <2>3, <2>4, <2>5
<1> QED BY <1>1, <1>2, <1>3

\* A whole group, and the segment it announces, as the ports see them.
LEMMA PortGroupAt ==
  ASSUME NEW s \in Seq(Char), NEW p \in 0..Len(s), p + 5 <= Len(s)
  PROVE  /\ Len(GroupAt(s, p)) = 5 /\ (Valued(GroupAt(s, p)) <=> Clean(s, p, 5))
         /\ ~Clean(s, p, 5) => Invalid(GroupAt(s, p), p) = FirstBad(s, p, 5)
         /\ GroupValueAt(s, p) = ValueAt(s, p) /\ (AnnouncesSegment(s, p) <=> AtSignal(s, p))
         /\ SegmentAt(s, p).len = Announced(s, p)
<1> DEFINE h == GroupAt(s, p)
<1>1. p \in Nat /\ 5 \in Nat
  OBVIOUS
<1>2. h = SubSeq(s, p + 1, p + 5)
  BY DEF GroupAt
<1> HIDE DEF h
<1>3. /\ Len(h) = 5 /\ (Valued(h) <=> Clean(s, p, 5))
      /\ ~Clean(s, p, 5) => Invalid(h, p) = FirstBad(s, p, 5)
  <2>1. Len(h) = 5
    BY <1>1, <1>2, PartValued
  <2>2. Valued(h) <=> Clean(s, p, 5)
    BY <1>1, <1>2, PartValued
  <2>3. ASSUME ~Clean(s, p, 5) PROVE Invalid(h, p) = FirstBad(s, p, 5)
    <3>1. p \in Nat /\ 5 \in Nat /\ p + 5 <= Len(s) /\ h = SubSeq(s, p + 1, p + 5)
      BY <1>1, <1>2
    <3> QED BY ONLY s \in Seq(Char), <2>3, <3>1, PartValued
  <2> QED BY <2>1, <2>2, <2>3
<1>4. /\ GroupValueAt(s, p) = ValueAt(s, p) /\ (AnnouncesSegment(s, p) <=> AtSignal(s, p))
      /\ SegmentAt(s, p).len = Announced(s, p)
  BY DEF GroupAt, GroupOf, GroupValueAt, ValueAt, AnnouncesSegment, AtSignal, SegmentAt, Announced
<1> QED BY <1>3, <1>4 DEF h

\* A token of its own.
LEMMA PortPlain ==
  ASSUME NEW s \in Seq(Char), NEW p \in 0..Len(s), p + 5 <= Len(s), Clean(s, p, 5),
         ~(ValueAt(s, p) >= FutureSignalBase), ~AtSignal(s, p)
  PROVE  TokenLen(s, p) = 5 /\ TokenBytes(s, p) = GroupBytes(ValueAt(s, p))
<1> DEFINE v == ValueAt(s, p)
<1>1. Len(s) \in Nat /\ p \in Nat /\ Len(s) - p >= 5 /\ ~(Len(s) - p < 5)
  BY LenProperties
<1>2. v \in Nat
  BY <1>1, CleanValue
<1>3. v < FutureSignalBase /\ (v < DpSignalBase \/ v >= FillSignalBase)
  BY <1>2, RangeTypes DEF AtSignal
<1>4. GroupBytes(v) = ValueBytes(v)
  <2> HIDE DEF v
  <2> QED BY <1>2, <1>3, PortGroup
<1> QED BY <1>1, <1>4 DEF TokenLen, TokenBytes

\* A segment's.
LEMMA PortSegment ==
  ASSUME NEW s \in Seq(Char), NEW p \in 0..Len(s), p + 5 <= Len(s), Clean(s, p, 5),
         AtSignal(s, p), NEW n, n = Announced(s, p)
  PROVE  /\ n \in Nat \ {0}
         /\ ~(p + 5 + n > Len(s)) =>
              /\ Valued(SegmentCharsAt(s, p)) <=> Clean(s, p + 5, n)
              /\ ~Clean(s, p + 5, n) => Invalid(SegmentCharsAt(s, p), p + 5) = FirstBad(s, p + 5, n)
              /\ Len(SegmentBytes(SegmentAt(s, p), SegmentCharsAt(s, p))) = n
              /\ Clean(s, p + 5, n) =>
                   /\ TokenLen(s, p) = 5 + n
                   /\ TokenBytes(s, p) = SegmentBytes(SegmentAt(s, p), SegmentCharsAt(s, p))
         /\ p + 5 + n > Len(s) \/ ~Clean(s, p + 5, n) => TokenLen(s, p) = 0
<1>1. Len(s) \in Nat /\ p \in Nat /\ Len(s) - p >= 5 /\ ~(Len(s) - p < 5)
  BY LenProperties
<1>2. n \in Nat \ {0}
  BY <1>1, AnnouncedLength
<1>3. TokenLen(s, p) = IF Len(s) - p - 5 >= n /\ Clean(s, p + 5, n) THEN 5 + n ELSE 0
  BY SegmentToken
<1>4. p + 5 + n > Len(s) <=> ~(Len(s) - p - 5 >= n)
  BY <1>1, <1>2
<1>5. ASSUME ~(p + 5 + n > Len(s))
      PROVE  LET g == SegmentAt(s, p)
                 c == SegmentCharsAt(s, p)
             IN  /\ Valued(c) <=> Clean(s, p + 5, n)
                 /\ ~Clean(s, p + 5, n) => Invalid(c, p + 5) = FirstBad(s, p + 5, n)
                 /\ Len(SegmentBytes(g, c)) = n
                 /\ TokenBytes(s, p) = SegmentBytes(g, c)
  <2> DEFINE g == SegmentAt(s, p)
             c == SegmentCharsAt(s, p)
             q == p + 5
             map == DpTable(g.profile, g.mask)
             b == [j \in 1..n |-> map[s[p + 5 + j]]]
             d == [j \in 1..Len(c) |-> map[c[j]]]
  <2>1. q \in Nat /\ q + n <= Len(s) /\ p + 6 = q + 1 /\ p + 5 + n = q + n
    BY <1>1, <1>2, <1>5
  <2>2. c = SubSeq(s, q + 1, q + n)
    <3>1. c = SubSeq(s, p + 6, p + 5 + n)
      BY DEF SegmentCharsAt, SegmentAt, Announced, GroupValueAt, ValueAt, GroupAt, GroupOf
    <3> QED BY <2>1, <3>1
  <2> HIDE DEF c, q
  <2>3. /\ Len(c) = n /\ \A i \in 1..n : c[i] = s[q + i]
        /\ Valued(c) <=> Clean(s, q, n)
        /\ ~Clean(s, q, n) => Invalid(c, q) = FirstBad(s, q, n)
    <3>1. Len(c) = n /\ \A i \in 1..n : c[i] = s[q + i]
      BY ONLY s \in Seq(Char), <1>2, <2>1, <2>2, PartValued
    <3>2. Valued(c) <=> Clean(s, q, n)
      BY ONLY s \in Seq(Char), <1>2, <2>1, <2>2, PartValued
    <3>3. ASSUME ~Clean(s, q, n) PROVE Invalid(c, q) = FirstBad(s, q, n)
      <4>1. q \in Nat /\ n \in Nat /\ q + n <= Len(s) /\ c = SubSeq(s, q + 1, q + n)
        BY <1>2, <2>1, <2>2
      <4> QED BY ONLY s \in Seq(Char), <3>3, <4>1, PartValued
    <3> QED BY <3>1, <3>2, <3>3
  <2>4. SegmentBytes(g, c) = d
    BY DEF SegmentBytes
  <2>5. TokenBytes(s, p) = b
    <3>1. SplitDp(ValueAt(s, p) - DpSignalBase) = g /\ g.len = n
      BY DEF SegmentAt, Announced, GroupValueAt, ValueAt, GroupAt, GroupOf
    <3> QED BY <1>1, <3>1 DEF TokenBytes
  <2>6. d = b
    <3> HIDE DEF map
    <3>1. Len(c) = n /\ \A j \in 1..n : c[j] = s[p + 5 + j]
      BY <2>3 DEF q
    <3> QED BY <3>1
  <2>7. Len(d) = n
    <3>1. d \in [1..n -> {map[c[j]] : j \in 1..n}]
      BY <2>3
    <3> HIDE DEF d
    <3> QED BY <1>2, <3>1, SeqDef, LenProperties
  <2> HIDE DEF g, d, b
  <2> QED BY <2>3, <2>4, <2>5, <2>6, <2>7 DEF c, g, q
<1> QED BY <1>2, <1>3, <1>4, <1>5

\* What is left at the end.
LEMMA PortLast ==
  ASSUME NEW s \in Seq(Char), NEW p \in 0..Len(s), Len(s) - p < 5, p # Len(s),
         NEW c, c = SubSeq(s, p + 1, Len(s)), NEW n, n = Len(s) - p
  PROVE  /\ n \in 1..4 /\ Smaller(n, 5) = n /\ Len(c) = n /\ (Valued(c) <=> Clean(s, p, n))
         /\ ~Clean(s, p, n) => Invalid(c, p) = FirstBad(s, p, n)
         /\ TokenLen(s, p) = IF n > 1 /\ Clean(s, p, n) /\ TailAccepted(Values(c)) THEN n ELSE 0
         /\ TokenBytes(s, p) = TailBytes(Values(c))
<1>1. Len(s) \in Nat /\ p \in Nat /\ n \in 1..4 /\ p + n = Len(s) /\ ~(Len(s) - p >= 5)
  BY LenProperties
<1>2. c = SubSeq(s, p + 1, p + n) /\ p + n <= Len(s) /\ n \in Nat
  BY <1>1
<1>3. /\ Len(c) = n /\ (Valued(c) <=> Clean(s, p, n))
      /\ ~Clean(s, p, n) => Invalid(c, p) = FirstBad(s, p, n)
  <2>1. Len(c) = n
    BY ONLY s \in Seq(Char), <1>1, <1>2, PartValued
  <2>2. Valued(c) <=> Clean(s, p, n)
    BY ONLY s \in Seq(Char), <1>1, <1>2, PartValued
  <2>3. ASSUME ~Clean(s, p, n) PROVE Invalid(c, p) = FirstBad(s, p, n)
    <3>1. p \in Nat /\ n \in Nat /\ p + n <= Len(s) /\ c = SubSeq(s, p + 1, p + n)
      BY <1>1, <1>2
    <3> QED BY ONLY s \in Seq(Char), <2>3, <3>1, PartValued
  <2> QED BY <2>1, <2>2, <2>3
<1>4. TokenLen(s, p) = IF n > 1 /\ Clean(s, p, n) /\ TailAccepted(Values(c)) THEN n ELSE 0
  BY <1>1 DEF TokenLen, LastOf
<1>5. TokenBytes(s, p) = TailBytes(Values(c))
  BY <1>1 DEF TokenBytes, LastOf
<1>6. Smaller(n, 5) = n
  BY <1>1 DEF Smaller
<1> QED BY <1>1, <1>3, <1>4, <1>5, <1>6

-----------------------------------------------------------------------------
(* The ports answer what the text without white space means.               *)

-----------------------------------------------------------------------------
(* Go.                                                                     *)

\* What GoScan makes of a position, given what it makes of those behind it.
GoAnswer(s, g, p) ==
  LET segment == GoSegment(s, p)
  IN  IF p = Len(s) THEN Decoded(<<>>)
      ELSE IF Len(s) - p < 5 THEN GoFinal(SubSeq(s, p + 1, Len(s)), p)
      ELSE IF ~Valued(GroupAt(s, p)) THEN Invalid(GroupAt(s, p), p)
      ELSE IF GroupValueAt(s, p) >= FutureSignalBase THEN Error("UndefinedSignal", p)
      ELSE IF ~AnnouncesSegment(s, p) THEN After(GroupBytes(GroupValueAt(s, p)), g[p + 5])
      ELSE IF segment.kind = "OK" THEN After(segment.data, g[p + 5 + Len(segment.data)])
      ELSE segment

\* It is the text's answer there.
LEMMA GoAnswerIs ==
  ASSUME NEW s \in Seq(Char), NEW g, g[Len(s)] = Decoded(<<>>), NEW p \in 0..Len(s)
  PROVE  GoAnswer(s, g, p) = Answer(s, g, p)
<1>1. Len(s) \in Nat /\ p \in Nat
  BY LenProperties
<1>2. CASE p = Len(s)
  BY <1>2 DEF GoAnswer, Answer
<1>3. CASE p # Len(s) /\ Len(s) - p < 5
  <2> DEFINE c == SubSeq(s, p + 1, Len(s))
             n == Len(s) - p
             t == Values(c)
  <2>1. /\ n \in 1..4 /\ Smaller(n, 5) = n /\ Len(c) = n /\ (Valued(c) <=> Clean(s, p, n))
        /\ ~Clean(s, p, n) => Invalid(c, p) = FirstBad(s, p, n)
        /\ TokenLen(s, p) = IF n > 1 /\ Clean(s, p, n) /\ TailAccepted(t) THEN n ELSE 0
        /\ TokenBytes(s, p) = TailBytes(t)
    BY <1>3, PortLast
  <2>2. GoAnswer(s, g, p) = GoFinal(c, p)
    BY <1>3 DEF GoAnswer
  <2>3. p + n = Len(s) /\ n < 5
    BY <1>1, <1>3
  <2> HIDE DEF c, n
  <2>4. CASE ~Clean(s, p, n)
    <3>1. GoFinal(c, p) = FirstBad(s, p, n)
      BY <2>1, <2>4 DEF GoFinal
    <3>2. Answer(s, g, p) = Fault(s, p)
      BY <1>3, <2>1, <2>4 DEF Answer
    <3>3. Fault(s, p) = FirstBad(s, p, n)
      BY <2>1, <2>4 DEF Fault, n
    <3> QED BY <2>2, <3>1, <3>2, <3>3
  <2>5. CASE Clean(s, p, n) /\ n > 1 /\ TailAccepted(t)
    <3>1. GoFinal(c, p) = Decoded(TailBytes(t))
      BY <2>1, <2>5 DEF GoFinal
    <3>2. TokenLen(s, p) = n /\ n # 0
      BY <2>1, <2>5
    <3>3. Answer(s, g, p) = After(TailBytes(t), Decoded(<<>>))
      BY <1>3, <2>1, <2>3, <3>2 DEF Answer
    <3>4. TailBytes(t) \in Seq(Byte)
      BY <2>1, <3>2, TokenBytesType
    <3>5. After(TailBytes(t), Decoded(<<>>)) = Decoded(TailBytes(t))
      <4> HIDE DEF t
      <4>1. TailBytes(t) \o <<>> = TailBytes(t)
        BY <3>4
      <4> QED BY <4>1 DEF After, Decoded
    <3> QED BY <2>2, <3>1, <3>3, <3>5
  <2>6. CASE Clean(s, p, n) /\ ~(n > 1 /\ TailAccepted(t))
    <3>1. GoFinal(c, p) = Error("InvalidFinalBlock", p)
      BY <2>1, <2>6 DEF GoFinal
    <3>2. Answer(s, g, p) = Fault(s, p)
      BY <1>3, <2>1, <2>6 DEF Answer
    <3>3. Fault(s, p) = Error("InvalidFinalBlock", p)
      BY <2>1, <2>3, <2>6 DEF Fault, n
    <3> QED BY <2>2, <3>1, <3>2, <3>3
  <2> QED BY <2>4, <2>5, <2>6
<1>4. CASE p # Len(s) /\ ~(Len(s) - p < 5)
  <2> DEFINE h == GroupAt(s, p)
             v == ValueAt(s, p)
             n == Announced(s, p)
  <2>1. p + 5 <= Len(s) /\ Smaller(Len(s) - p, 5) = 5 /\ Len(s) - p >= 5
    BY <1>1, <1>4 DEF Smaller
  <2>2. /\ Valued(h) <=> Clean(s, p, 5)
        /\ ~Clean(s, p, 5) => Invalid(h, p) = FirstBad(s, p, 5)
        /\ GroupValueAt(s, p) = v /\ (AnnouncesSegment(s, p) <=> AtSignal(s, p))
        /\ SegmentAt(s, p).len = n
    BY <2>1, PortGroupAt
  <2>3. CASE ~Clean(s, p, 5)
    <3>1. GoAnswer(s, g, p) = FirstBad(s, p, 5)
      BY <1>4, <2>2, <2>3 DEF GoAnswer
    <3>2. TokenLen(s, p) = 0
      BY <2>1, <2>3 DEF TokenLen
    <3>3. Fault(s, p) = FirstBad(s, p, 5)
      BY <2>1, <2>3 DEF Fault
    <3> QED BY <1>4, <3>1, <3>2, <3>3 DEF Answer
  <2>4. CASE Clean(s, p, 5) /\ v >= FutureSignalBase
    <3>1. GoAnswer(s, g, p) = Error("UndefinedSignal", p)
      BY <1>4, <2>2, <2>4 DEF GoAnswer
    <3>2. TokenLen(s, p) = 0
      BY <2>1, <2>4 DEF TokenLen
    <3>3. Fault(s, p) = Error("UndefinedSignal", p)
      BY <1>4, <2>1, <2>4 DEF Fault
    <3> QED BY <1>4, <3>1, <3>2, <3>3 DEF Answer
  <2>5. CASE Clean(s, p, 5) /\ ~(v >= FutureSignalBase) /\ ~AtSignal(s, p)
    <3>1. GoAnswer(s, g, p) = After(GroupBytes(v), g[p + 5])
      BY <1>4, <2>2, <2>5 DEF GoAnswer
    <3>2. TokenLen(s, p) = 5 /\ TokenBytes(s, p) = GroupBytes(v)
      BY <2>1, <2>5, PortPlain
    <3> QED BY <1>4, <3>1, <3>2 DEF Answer
  <2>6. CASE Clean(s, p, 5) /\ ~(v >= FutureSignalBase) /\ AtSignal(s, p)
    <3> DEFINE c == SegmentCharsAt(s, p)
               b == SegmentBytes(SegmentAt(s, p), c)
               segment == GoSegment(s, p)
    <3>1. /\ n \in Nat \ {0}
          /\ ~(p + 5 + n > Len(s)) =>
               /\ Valued(c) <=> Clean(s, p + 5, n)
               /\ ~Clean(s, p + 5, n) => Invalid(c, p + 5) = FirstBad(s, p + 5, n)
               /\ Len(b) = n
               /\ Clean(s, p + 5, n) => TokenLen(s, p) = 5 + n /\ TokenBytes(s, p) = b
          /\ p + 5 + n > Len(s) \/ ~Clean(s, p + 5, n) => TokenLen(s, p) = 0
      BY <2>1, <2>6, PortSegment
    <3>2. GoAnswer(s, g, p) = IF segment.kind = "OK"
                              THEN After(segment.data, g[p + 5 + Len(segment.data)]) ELSE segment
      BY <1>4, <2>2, <2>6 DEF GoAnswer
    <3>3. segment = IF p + 5 + n > Len(s) THEN Error("UnexpectedEndOfStream", p + 5)
                    ELSE IF ~Valued(c) THEN Invalid(c, p + 5) ELSE Decoded(b)
      BY <2>2 DEF GoSegment
    <3>4. Fault(s, p) = IF Len(s) - p - 5 < n THEN Error("UnexpectedEndOfStream", p + 5)
                        ELSE FirstBad(s, p + 5, n)
      BY <1>4, <2>1, <2>6 DEF Fault
    <3>5. \A k, o : Error(k, o).kind = k
      BY DEF Error
    <3> HIDE DEF n, c, b, segment
    <3>6. p + 5 + n > Len(s) <=> Len(s) - p - 5 < n
      BY <1>1, <3>1
    <3>7. CASE p + 5 + n > Len(s)
      <4>1. segment = Error("UnexpectedEndOfStream", p + 5)
        BY <3>3, <3>7
      <4>2. segment.kind # "OK"
        BY <3>5, <4>1
      <4>3. Answer(s, g, p) = Fault(s, p)
        BY <1>4, <3>1, <3>7 DEF Answer
      <4> QED BY <3>2, <3>4, <3>6, <3>7, <4>1, <4>2, <4>3
    <3>8. CASE ~(p + 5 + n > Len(s)) /\ ~Clean(s, p + 5, n)
      <4>1. segment = FirstBad(s, p + 5, n)
        BY <3>1, <3>3, <3>8
      <4>2. segment.kind # "OK"
        BY <3>5, <4>1 DEF FirstBad
      <4>3. Answer(s, g, p) = Fault(s, p)
        BY <1>4, <3>1, <3>8 DEF Answer
      <4> QED BY <3>2, <3>4, <3>6, <3>8, <4>1, <4>2, <4>3
    <3>9. CASE ~(p + 5 + n > Len(s)) /\ Clean(s, p + 5, n)
      <4>1. segment = Decoded(b)
        BY <3>1, <3>3, <3>9
      <4>2. segment.kind = "OK" /\ segment.data = b
        BY <4>1 DEF Decoded
      <4>3. TokenLen(s, p) = 5 + n /\ TokenBytes(s, p) = b /\ Len(b) = n /\ 5 + n # 0
            /\ p + (5 + n) = p + 5 + n
        BY <1>1, <3>1, <3>9
      <4>4. Answer(s, g, p) = After(b, g[p + (5 + n)])
        BY <1>4, <4>3 DEF Answer
      <4>5. GoAnswer(s, g, p) = After(b, g[p + 5 + n])
        BY <3>2, <4>2, <4>3
      <4> QED BY <4>3, <4>4, <4>5
    <3> QED BY <3>7, <3>8, <3>9
  <2> QED BY <2>3, <2>4, <2>5, <2>6
<1> QED BY <1>2, <1>3, <1>4

\* Go's scan of a text is the text's answer.
LEMMA GoScanIs ==
  ASSUME NEW s \in Seq(Char), NEW f, Answers(s, f)
  PROVE  GoScan(s) = f[0]
<1> DEFINE from[p \in 0..Len(s)] == GoAnswer(s, from, p)
<1>1. Len(s) \in Nat /\ 0 \in 0..Len(s) /\ Len(s) \in 0..Len(s)
  BY LenProperties
<1>2. GoScan(s) = from[0]
  BY DEF GoScan, GoAnswer
<1>3. f = [p \in 0..Len(s) |-> GoAnswer(s, f, p)]
  <2>1. f[Len(s)] = Decoded(<<>>) /\ f = [p \in 0..Len(s) |-> Answer(s, f, p)]
    BY <1>1, AnswerSteps DEF Answers
  <2>2. \A p \in 0..Len(s) : GoAnswer(s, f, p) = Answer(s, f, p)
    BY <2>1, GoAnswerIs
  <2>3. [p \in 0..Len(s) |-> GoAnswer(s, f, p)] = [p \in 0..Len(s) |-> Answer(s, f, p)]
    BY <2>2
  <2> QED BY <2>1, <2>3
<1>4. from = [p \in 0..Len(s) |-> GoAnswer(s, from, p)]
  BY <1>3
<1> HIDE DEF from
<1>5. Answers(s, from)
  <2>1. from[Len(s)] = GoAnswer(s, from, Len(s))
    BY <1>1, <1>4
  <2>2. from[Len(s)] = Decoded(<<>>)
    BY <2>1 DEF GoAnswer
  <2>3. \A p \in 0..Len(s) : GoAnswer(s, from, p) = Answer(s, from, p)
    BY <2>2, GoAnswerIs
  <2>4. [p \in 0..Len(s) |-> GoAnswer(s, from, p)] = [p \in 0..Len(s) |-> Answer(s, from, p)]
    BY <2>3
  <2> QED BY <1>4, <2>4 DEF Answers
<1>6. from = f
  BY <1>5, AnswersUnique
<1> QED BY <1>2, <1>6

-----------------------------------------------------------------------------
(* TypeScript.                                                             *)

\* What TsScan and TsReport make of a position, given what they make of those
\* behind it.
TsScanAnswer(s, g, i) ==
  LET chars   == IF Len(s) - i < 5 THEN SubSeq(s, i + 1, Len(s)) ELSE GroupAt(s, i)
      value   == GroupValueAt(s, i)
      segment == SegmentAt(s, i)
  IN  IF i = Len(s) THEN Decoded(<<>>)
      ELSE IF ~Valued(chars) THEN Rejected
      ELSE IF Len(chars) < 5
      THEN IF Len(chars) > 1 /\ TailAccepted(Values(chars))
           THEN Decoded(TailBytes(Values(chars))) ELSE Rejected
      ELSE IF value >= FutureSignalBase THEN Rejected
      ELSE IF ~AnnouncesSegment(s, i) THEN After(GroupBytes(value), g[i + 5])
      ELSE IF i + 5 + segment.len > Len(s) \/ ~Valued(SegmentCharsAt(s, i))
      THEN Rejected
      ELSE After(SegmentBytes(segment, SegmentCharsAt(s, i)), g[i + 5 + segment.len])

TsReportAnswer(s, g, i) ==
  LET left  == Len(s) - i
      chars == IF left < 5 THEN SubSeq(s, i + 1, Len(s)) ELSE GroupAt(s, i)
      value == GroupValueAt(s, i)
      next  == i + 5 + SegmentAt(s, i).len
  IN  IF left = 0 THEN Error("InvalidCharacter", 0)
      ELSE IF ~Valued(chars) THEN Invalid(chars, i)
      ELSE IF left = 1 \/ (left < 5 /\ ~TailAccepted(Values(chars)))
      THEN Error("InvalidFinalBlock", i)
      ELSE IF left < 5 THEN g[Len(s)]
      ELSE IF value >= FutureSignalBase THEN Error("UndefinedSignal", i)
      ELSE IF ~AnnouncesSegment(s, i) THEN g[i + 5]
      ELSE IF next > Len(s) THEN Error("UnexpectedEndOfStream", i + 5)
      ELSE IF ~Valued(SegmentCharsAt(s, i)) THEN Invalid(SegmentCharsAt(s, i), i + 5)
      ELSE g[next]

\* The one gives up where no token begins, the other says what is wrong there.
LEMMA TsAnswersAre ==
  ASSUME NEW s \in Seq(Char), NEW p \in 0..Len(s), p # Len(s), NEW n, n = TokenLen(s, p)
  PROVE  /\ n = 0 => /\ \A g : TsScanAnswer(s, g, p) = Rejected
                     /\ \A g : TsReportAnswer(s, g, p) = Fault(s, p)
         /\ n # 0 => /\ \A g : g[Len(s)] = Decoded(<<>>) =>
                           TsScanAnswer(s, g, p) = After(TokenBytes(s, p), g[p + n])
                     /\ \A g : TsReportAnswer(s, g, p) = g[p + n]
<1>1. Len(s) \in Nat /\ p \in Nat /\ Len(s) - p \in Nat \ {0}
  BY LenProperties
<1>2. CASE Len(s) - p < 5
  <2> DEFINE c == SubSeq(s, p + 1, Len(s))
             m == Len(s) - p
             t == Values(c)
  <2>1. /\ m \in 1..4 /\ Smaller(m, 5) = m /\ Len(c) = m /\ (Valued(c) <=> Clean(s, p, m))
        /\ ~Clean(s, p, m) => Invalid(c, p) = FirstBad(s, p, m)
        /\ n = IF m > 1 /\ Clean(s, p, m) /\ TailAccepted(t) THEN m ELSE 0
        /\ TokenBytes(s, p) = TailBytes(t)
    BY <1>2, PortLast
  <2>2. \A g : TsScanAnswer(s, g, p) =
               IF ~Valued(c) THEN Rejected
               ELSE IF m > 1 /\ TailAccepted(t) THEN Decoded(TailBytes(t)) ELSE Rejected
    BY <1>2, <2>1 DEF TsScanAnswer
  <2>3. \A g : TsReportAnswer(s, g, p) =
               IF ~Valued(c) THEN Invalid(c, p)
               ELSE IF m = 1 \/ ~TailAccepted(t) THEN Error("InvalidFinalBlock", p)
               ELSE g[Len(s)]
    BY <1>1, <1>2 DEF TsReportAnswer
  <2>4. Fault(s, p) = IF ~Clean(s, p, m) THEN FirstBad(s, p, m) ELSE Error("InvalidFinalBlock", p)
    BY <1>2, <2>1 DEF Fault
  <2>5. p + m = Len(s)
    BY <1>1
  <2> HIDE DEF c, m
  <2>6. CASE n = 0
    <3>1. ~Clean(s, p, m) \/ m = 1 \/ ~TailAccepted(t)
      BY <2>1, <2>6
    <3> HIDE DEF t
    <3>2. \A g : TsScanAnswer(s, g, p) = Rejected
      BY <2>1, <2>2, <3>1
    <3>3. \A g : TsReportAnswer(s, g, p) = Fault(s, p)
      BY <2>1, <2>3, <2>4, <3>1
    <3> QED BY <2>6, <3>2, <3>3
  <2>7. CASE n # 0
    <3>1. n = m /\ m > 1 /\ Clean(s, p, m) /\ TailAccepted(t)
      BY <2>1, <2>7
    <3>2. TailBytes(t) \in Seq(Byte)
      BY <1>1, <2>1, <2>7, TokenBytesType
    <3> HIDE DEF t
    <3>3. After(TailBytes(t), Decoded(<<>>)) = Decoded(TailBytes(t))
      <4>1. TailBytes(t) \o <<>> = TailBytes(t)
        BY <3>2
      <4> QED BY <4>1 DEF After, Decoded
    <3>4. \A g : TsScanAnswer(s, g, p) = Decoded(TailBytes(t))
      BY <2>1, <2>2, <3>1
    <3>5. \A g : TsReportAnswer(s, g, p) = g[Len(s)]
      BY <2>1, <2>3, <3>1
    <3>6. p + n = Len(s)
      BY <2>5, <3>1
    <3> QED BY <2>1, <2>7, <3>3, <3>4, <3>5, <3>6
  <2> QED BY <2>6, <2>7
<1>3. CASE ~(Len(s) - p < 5)
  <2> DEFINE h == GroupAt(s, p)
             v == ValueAt(s, p)
             l == Announced(s, p)
             c == SegmentCharsAt(s, p)
             b == SegmentBytes(SegmentAt(s, p), c)
             end == p + 5 + l
  <2>1. p + 5 <= Len(s) /\ Smaller(Len(s) - p, 5) = 5 /\ Len(s) - p >= 5
        /\ Len(s) - p # 0 /\ Len(s) - p # 1
    BY <1>1, <1>3 DEF Smaller
  <2>2. /\ Len(h) = 5 /\ (Valued(h) <=> Clean(s, p, 5))
        /\ ~Clean(s, p, 5) => Invalid(h, p) = FirstBad(s, p, 5)
        /\ GroupValueAt(s, p) = v /\ (AnnouncesSegment(s, p) <=> AtSignal(s, p))
        /\ SegmentAt(s, p).len = l
    BY <2>1, PortGroupAt
  <2>3. \A g : TsScanAnswer(s, g, p) =
               IF ~Clean(s, p, 5) THEN Rejected
               ELSE IF v >= FutureSignalBase THEN Rejected
               ELSE IF ~AtSignal(s, p) THEN After(GroupBytes(v), g[p + 5])
               ELSE IF end > Len(s) \/ ~Valued(c) THEN Rejected
               ELSE After(b, g[end])
    <3> SUFFICES ASSUME NEW g
                 PROVE  TsScanAnswer(s, g, p) =
                          IF ~Clean(s, p, 5) THEN Rejected
                          ELSE IF v >= FutureSignalBase THEN Rejected
                          ELSE IF ~AtSignal(s, p) THEN After(GroupBytes(v), g[p + 5])
                          ELSE IF end > Len(s) \/ ~Valued(c) THEN Rejected
                          ELSE After(b, g[end])
      OBVIOUS
    <3>1. TsScanAnswer(s, g, p) =
            IF ~Valued(h) THEN Rejected
            ELSE IF Len(h) < 5
            THEN IF Len(h) > 1 /\ TailAccepted(Values(h)) THEN Decoded(TailBytes(Values(h)))
                 ELSE Rejected
            ELSE IF GroupValueAt(s, p) >= FutureSignalBase THEN Rejected
            ELSE IF ~AnnouncesSegment(s, p) THEN After(GroupBytes(GroupValueAt(s, p)), g[p + 5])
            ELSE IF p + 5 + SegmentAt(s, p).len > Len(s) \/ ~Valued(c) THEN Rejected
            ELSE After(b, g[p + 5 + SegmentAt(s, p).len])
      BY <1>3 DEF TsScanAnswer
    <3>2. ~(Len(h) < 5)
      BY <2>2
    <3> HIDE DEF h, c, b
    <3> QED BY <2>2, <3>1, <3>2
  <2>4. \A g : TsReportAnswer(s, g, p) =
               IF ~Clean(s, p, 5) THEN FirstBad(s, p, 5)
               ELSE IF v >= FutureSignalBase THEN Error("UndefinedSignal", p)
               ELSE IF ~AtSignal(s, p) THEN g[p + 5]
               ELSE IF end > Len(s) THEN Error("UnexpectedEndOfStream", p + 5)
               ELSE IF ~Valued(c) THEN Invalid(c, p + 5)
               ELSE g[end]
    BY <1>3, <2>1, <2>2 DEF TsReportAnswer
  <2>5. Fault(s, p) = IF ~Clean(s, p, 5) THEN FirstBad(s, p, 5)
                      ELSE IF v >= FutureSignalBase THEN Error("UndefinedSignal", p)
                      ELSE IF Len(s) - p - 5 < l THEN Error("UnexpectedEndOfStream", p + 5)
                      ELSE FirstBad(s, p + 5, l)
    BY <1>3, <2>1 DEF Fault
  <2>6. CASE ~Clean(s, p, 5) \/ v >= FutureSignalBase
    <3>1. n = 0
      BY <2>1, <2>6 DEF TokenLen
    <3> HIDE DEF v, end, c, b
    <3>2. \A g : TsScanAnswer(s, g, p) = Rejected
      BY <2>3, <2>6
    <3>3. \A g : TsReportAnswer(s, g, p) = Fault(s, p)
      BY <2>4, <2>5, <2>6
    <3> QED BY <3>1, <3>2, <3>3
  <2>7. CASE Clean(s, p, 5) /\ ~(v >= FutureSignalBase) /\ ~AtSignal(s, p)
    <3>1. n = 5 /\ TokenBytes(s, p) = GroupBytes(v)
      BY <2>1, <2>7, PortPlain
    <3> HIDE DEF v, end, c, b
    <3>2. \A g : TsScanAnswer(s, g, p) = After(GroupBytes(v), g[p + 5])
      BY <2>3, <2>7
    <3>3. \A g : TsReportAnswer(s, g, p) = g[p + 5]
      BY <2>4, <2>7
    <3> QED BY <3>1, <3>2, <3>3
  <2>8. CASE Clean(s, p, 5) /\ ~(v >= FutureSignalBase) /\ AtSignal(s, p)
    <3>1. /\ l \in Nat \ {0}
          /\ ~(end > Len(s)) =>
               /\ Valued(c) <=> Clean(s, p + 5, l)
               /\ ~Clean(s, p + 5, l) => Invalid(c, p + 5) = FirstBad(s, p + 5, l)
               /\ Clean(s, p + 5, l) => n = 5 + l /\ TokenBytes(s, p) = b
          /\ end > Len(s) \/ ~Clean(s, p + 5, l) => n = 0
      BY <2>1, <2>8, PortSegment
    <3>2. /\ end > Len(s) <=> Len(s) - p - 5 < l
          /\ p + (5 + l) = end /\ 5 + l # 0
      BY <1>1, <3>1
    <3> HIDE DEF v, l, end, c, b
    <3>3. CASE end > Len(s) \/ ~Clean(s, p + 5, l)
      <4>1. n = 0 /\ (end > Len(s) \/ ~Valued(c))
        BY <3>1, <3>3
      <4>2. \A g : TsScanAnswer(s, g, p) = Rejected
        BY <2>3, <2>8, <4>1
      <4>3. \A g : TsReportAnswer(s, g, p) = Fault(s, p)
        BY <2>4, <2>5, <2>8, <3>1, <3>2, <3>3
      <4> QED BY <4>1, <4>2, <4>3
    <3>4. CASE ~(end > Len(s)) /\ Clean(s, p + 5, l)
      <4>1. n = 5 + l /\ n # 0 /\ TokenBytes(s, p) = b /\ Valued(c) /\ p + n = end
        BY <3>1, <3>2, <3>4
      <4>2. \A g : TsScanAnswer(s, g, p) = After(b, g[end])
        BY <2>3, <2>8, <3>4, <4>1
      <4>3. \A g : TsReportAnswer(s, g, p) = g[end]
        BY <2>4, <2>8, <3>4, <4>1
      <4> QED BY <4>1, <4>2, <4>3
    <3> QED BY <3>3, <3>4
  <2> QED BY <2>6, <2>7, <2>8
<1> QED BY <1>2, <1>3

\* TypeScript's scan gives a text's answer if that is OK, and nothing else.
LEMMA TsScanIs ==
  ASSUME NEW s \in Seq(Char), NEW f, Answers(s, f)
  PROVE  TsScan(s) = IF f[0].kind = "OK" THEN f[0] ELSE Rejected
<1> DEFINE from[p \in 0..Len(s)] == TsScanAnswer(s, from, p)
           k == [p \in 0..Len(s) |-> IF f[p].kind = "OK" THEN f[p] ELSE Rejected]
           T == {p \in 0..Len(s) : from[p] = k[p]}
<1>1. Len(s) \in Nat /\ 0 \in 0..Len(s) /\ Len(s) \in 0..Len(s)
  BY LenProperties
<1>2. TsScan(s) = from[0]
  BY DEF TsScan, TsScanAnswer
<1>3. f[Len(s)] = Decoded(<<>>) /\ Decoded(<<>>).kind = "OK" /\ Rejected.kind # "OK"
  BY <1>1, AnswerSteps DEF Decoded, Rejected
<1>4. /\ k = [p \in 0..Len(s) |-> k[p]] /\ k[Len(s)] = Decoded(<<>>)
      /\ \A p \in 0..Len(s) : k[p] = IF f[p].kind = "OK" THEN f[p] ELSE Rejected
  BY <1>1, <1>3
<1> HIDE DEF k
<1>5. ASSUME NEW p \in 0..Len(s), NEW g, g[Len(s)] = Decoded(<<>>),
             \A r \in (p + 1)..Len(s) : g[r] = k[r]
      PROVE  TsScanAnswer(s, g, p) = k[p]
  <2> DEFINE e == p + TokenLen(s, p)
  <2>1. CASE p = Len(s)
    BY <1>4, <2>1 DEF TsScanAnswer
  <2>2. CASE Stuck(s, p)
    <3>1. p # Len(s) /\ TokenLen(s, p) = 0
      BY <1>1, <2>2 DEF Stuck
    <3>2. TsScanAnswer(s, g, p) = Rejected
      BY <3>1, TsAnswersAre
    <3>3. f[p].kind # "OK"
      BY <2>2, AnswerSteps
    <3> QED BY <1>4, <3>2, <3>3
  <2>3. CASE p # Len(s) /\ ~Stuck(s, p)
    <3>1. /\ TokenLen(s, p) # 0 /\ e \in (p + 1)..Len(s) /\ TokenBytes(s, p) \in Seq(Byte)
          /\ f[p] = After(TokenBytes(s, p), f[e])
      BY <2>3, AnswerSteps
    <3>2. TsScanAnswer(s, g, p) = After(TokenBytes(s, p), g[e])
      BY <1>5, <2>3, <3>1, TsAnswersAre
    <3> HIDE DEF e
    <3>3. g[e] = (IF f[e].kind = "OK" THEN f[e] ELSE Rejected) /\ e \in 0..Len(s)
      <4>1. e \in 0..Len(s)
        BY <1>1, <3>1
      <4>2. g[e] = k[e]
        BY <1>5, <3>1
      <4> QED BY <1>4, <4>1, <4>2
    <3>4. f[p].kind = f[e].kind
      BY <3>1, <3>3, AnswerType, AfterIs
    <3>5. f[e].kind # "OK" => After(TokenBytes(s, p), g[e]) = Rejected
      BY <1>3, <3>3 DEF After
    <3> QED BY <1>4, <3>1, <3>2, <3>3, <3>4, <3>5
  <2> QED BY <2>1, <2>2, <2>3
<1>6. from = [p \in 0..Len(s) |-> TsScanAnswer(s, from, p)]
  <2>1. k = [p \in 0..Len(s) |-> TsScanAnswer(s, k, p)]
    <3>1. \A p \in 0..Len(s) : TsScanAnswer(s, k, p) = k[p]
      BY <1>4, <1>5
    <3> QED BY <1>4, <3>1
  <2> QED BY <2>1
<1> HIDE DEF from
<1>7. from[Len(s)] = Decoded(<<>>)
  BY <1>1, <1>6 DEF TsScanAnswer
<1>8. ASSUME NEW p \in 0..Len(s), \A r \in (p + 1)..Len(s) : r \in T
      PROVE  p \in T
  <2>1. \A r \in (p + 1)..Len(s) : from[r] = k[r]
    BY <1>8
  <2>2. TsScanAnswer(s, from, p) = k[p]
    BY <1>5, <1>7, <2>1
  <2> QED BY <1>6, <2>2
<1> HIDE DEF T
<1>9. 0 \in T
  BY <1>1, <1>8, CountingDown
<1> QED BY <1>1, <1>2, <1>4, <1>9 DEF T

\* Its report gives the answer if that is an error.
LEMMA TsReportIs ==
  ASSUME NEW s \in Seq(Char), NEW f, Answers(s, f), f[0].kind # "OK"
  PROVE  TsReport(s) = f[0]
<1> DEFINE from[p \in 0..Len(s)] == TsReportAnswer(s, from, p)
           none == Error("InvalidCharacter", 0)
           k == [p \in 0..Len(s) |-> IF f[p].kind = "OK" THEN none ELSE f[p]]
           T == {p \in 0..Len(s) : from[p] = k[p]}
<1>1. Len(s) \in Nat /\ 0 \in 0..Len(s) /\ Len(s) \in 0..Len(s)
  BY LenProperties
<1>2. TsReport(s) = from[0]
  BY DEF TsReport, TsReportAnswer
<1>3. f[Len(s)].kind = "OK"
  BY <1>1, AnswerSteps DEF Decoded
<1>4. /\ k = [p \in 0..Len(s) |-> k[p]]
      /\ \A p \in 0..Len(s) : k[p] = IF f[p].kind = "OK" THEN none ELSE f[p]
  OBVIOUS
<1> HIDE DEF k
<1>5. ASSUME NEW p \in 0..Len(s), NEW g, \A r \in (p + 1)..Len(s) : g[r] = k[r]
      PROVE  TsReportAnswer(s, g, p) = k[p]
  <2> DEFINE e == p + TokenLen(s, p)
  <2>1. CASE p = Len(s)
    <3>1. Len(s) - p = 0
      BY <1>1, <2>1
    <3>2. TsReportAnswer(s, g, p) = none
      BY <3>1 DEF TsReportAnswer
    <3> QED BY <1>3, <1>4, <2>1, <3>2
  <2>2. CASE Stuck(s, p)
    <3>1. p # Len(s) /\ TokenLen(s, p) = 0
      BY <1>1, <2>2 DEF Stuck
    <3>2. TsReportAnswer(s, g, p) = Fault(s, p)
      BY <3>1, TsAnswersAre
    <3>3. f[p].kind # "OK" /\ f[p] = Fault(s, p)
      BY <2>2, AnswerSteps
    <3> QED BY <1>4, <3>2, <3>3
  <2>3. CASE p # Len(s) /\ ~Stuck(s, p)
    <3>1. /\ TokenLen(s, p) # 0 /\ e \in (p + 1)..Len(s) /\ TokenBytes(s, p) \in Seq(Byte)
          /\ f[p] = After(TokenBytes(s, p), f[e])
      BY <2>3, AnswerSteps
    <3>2. TsReportAnswer(s, g, p) = g[e]
      BY <2>3, <3>1, TsAnswersAre
    <3> HIDE DEF e
    <3>3. g[e] = (IF f[e].kind = "OK" THEN none ELSE f[e]) /\ e \in 0..Len(s)
      BY <1>1, <1>4, <1>5, <3>1
    <3>4. f[p].kind = f[e].kind /\ (f[e].kind # "OK" => f[p] = f[e])
      BY <3>1, <3>3, AnswerType, AfterIs
    <3> QED BY <1>4, <3>1, <3>2, <3>3, <3>4
  <2> QED BY <2>1, <2>2, <2>3
<1>6. from = [p \in 0..Len(s) |-> TsReportAnswer(s, from, p)]
  <2>1. k = [p \in 0..Len(s) |-> TsReportAnswer(s, k, p)]
    <3>1. \A p \in 0..Len(s) : TsReportAnswer(s, k, p) = k[p]
      BY <1>4, <1>5
    <3> QED BY <1>4, <3>1
  <2> QED BY <2>1
<1> HIDE DEF from
<1>7. ASSUME NEW p \in 0..Len(s), \A r \in (p + 1)..Len(s) : r \in T
      PROVE  p \in T
  <2>1. \A r \in (p + 1)..Len(s) : from[r] = k[r]
    BY <1>7
  <2>2. TsReportAnswer(s, from, p) = k[p]
    BY <1>5, <2>1
  <2> QED BY <1>6, <2>2
<1> HIDE DEF T
<1>8. 0 \in T
  BY <1>1, <1>7, CountingDown
<1> QED BY <1>1, <1>2, <1>4, <1>8 DEF T

\* Both give the answer of the text without its white space: no text that has
\* some is accepted by the first scan.
LEMMA PortsAnswer ==
  ASSUME NEW s \in Seq(Char), NEW g, Answers(WithoutSpace(s), g)
  PROVE  /\ GoDecode(s) = g[0] /\ TsDecode(s) = g[0] /\ g[0] \in Verdicts
         /\ WithoutSpace(s) \in Seq(Char)
<1> DEFINE c == WithoutSpace(s)
<1>1. c \in Seq(Char) /\ ((\A i \in 1..Len(s) : s[i] \notin Whitespace) => c = s)
  BY WithoutSpaceFacts
<1>2. PICK f : Answers(s, f)
  BY AnswersExist
<1>3. /\ GoScan(s) = f[0] /\ TsScan(s) = (IF f[0].kind = "OK" THEN f[0] ELSE Rejected)
      /\ f[0].kind # "OK" => TsReport(s) = f[0]
  BY <1>2, GoScanIs, TsScanIs, TsReportIs
<1> HIDE DEF c
<1>4. Answers(c, g)
  BY DEF c
<1>5. /\ GoScan(c) = g[0] /\ TsScan(c) = (IF g[0].kind = "OK" THEN g[0] ELSE Rejected)
      /\ g[0].kind # "OK" => TsReport(c) = g[0]
  BY <1>1, <1>4, GoScanIs, TsScanIs, TsReportIs
<1>6. Ignored(s) = {} => f[0] = g[0]
  <2> SUFFICES ASSUME Ignored(s) = {} PROVE f[0] = g[0]
    OBVIOUS
  <2>1. c = s
    BY <1>1 DEF Ignored
  <2>2. f = g
    BY <1>2, <1>4, <2>1, AnswersUnique
  <2> QED BY <2>2
<1>7. Ignored(s) # {} => f[0].kind # "OK"
  <2> SUFFICES ASSUME f[0].kind = "OK" PROVE Ignored(s) = {}
    OBVIOUS
  <2>1. Len(s) \in Nat /\ 0 \in 0..Len(s)
    BY LenProperties
  <2>2. Clean(s, 0, Len(s) - 0)
    BY <1>2, <2>1, AnswerClean
  <2>3. \A i \in 1..Len(s) : i \in (0 + 1)..(0 + (Len(s) - 0))
    BY <2>1
  <2> QED BY <2>2, <2>3, WireAssumption DEF Clean, Ignored
<1>8. Rejected.kind # "OK"
  BY DEF Rejected
<1>9. GoDecode(s) = g[0]
  BY <1>3, <1>5, <1>6, <1>7 DEF GoDecode, c
<1>10. TsDecode(s) = g[0]
  BY <1>3, <1>5, <1>6, <1>7, <1>8 DEF TsDecode, c
<1>11. g[0] \in Verdicts
  <2>1. 0 \in 0..Len(c)
    BY <1>1, LenProperties
  <2> QED BY <1>1, <1>4, <2>1, AnswerType
<1> QED BY <1>1, <1>9, <1>10, <1>11 DEF c

-----------------------------------------------------------------------------
(* So does the Rust decoder, whose second tier starts over.                *)

-----------------------------------------------------------------------------
(* Rust.                                                                   *)

\* The report goes on where the answer is still to be found, and gives it.
AnswerSound ==
  \A g : Answers(Significant, g) =>
    /\ Reporting => g[read] = g[0]
    /\ tier = "error" => verdict.kind = g[0].kind /\ g[0].kind # "OK"
    /\ tier = "ok" => src = Significant

\* Where the report is, there is a fault ahead.
LEMMA ReportAhead ==
  ASSUME DecInv, Reporting, NEW g, Answers(Significant, g), g[read] = g[0]
  PROVE  g[read].kind # "OK"
<1> SUFFICES ASSUME g[0].kind = "OK" PROVE FALSE
  BY DEF Answers
<1>1. /\ text \in Seq(Char) /\ Significant \in Seq(Char) /\ Len(Significant) \in Nat
      /\ read \in 0..Len(Significant)
  BY ReportHere
<1>2. Clean(Significant, 0, Len(Significant))
  <2>1. 0 \in 0..Len(Significant)
    BY <1>1
  <2>2. Clean(Significant, 0, Len(Significant) - 0)
    BY <1>1, <2>1, AnswerClean
  <2> QED BY <1>1, <2>2
<1>3. src = Significant
  BY <1>1, <1>2, AllClean DEF DecInv, ScanSound, Reporting, Significant
<1>4. PICK r \in ReachFrom(Significant, read) : Stuck(Significant, r)
  BY <1>3 DEF DecInv, ReportSound
<1>5. r \in 0..Len(Significant)
  BY <1>4 DEF ReachFrom
<1>6. g[r].kind # "OK"
  BY <1>1, <1>4, <1>5, AnswerSteps
<1>7. g[read].kind = g[r].kind
  BY <1>1, <1>4, AnswerReached
<1> QED BY <1>6, <1>7

\* A fault named is the one the text's answer names there.
LEMMA BlameKind ==
  ASSUME NEW v, Blame(v)
  PROVE  tier' = "error" /\ verdict' = v /\ UNCHANGED <<text, src, read>>
BY DEF Blame

\* The first of some foreign characters blamed is an invalid one.
LEMMA BlameFirstKind ==
  ASSUME NEW k \in Nat, NEW l \in Nat, BlameFirst(ForeignIn(k + 1, l))
  PROVE  /\ tier' = "error" /\ verdict'.kind = "InvalidCharacter" /\ UNCHANGED <<text, src, read>>
         /\ k < l /\ ~Clean(Significant, k, l - k)
<1>1. PICK i \in ForeignIn(k + 1, l) : Blame(InvalidCharacter(i))
  BY DEF BlameFirst
<1>2. InvalidCharacter(i).kind = "InvalidCharacter"
  BY DEF InvalidCharacter
<1>3. i \in (k + 1)..(k + (l - k)) /\ k < l /\ Significant[i] \notin AlphabetN
  BY DEF ForeignIn, Foreign
<1>4. ~Clean(Significant, k, l - k)
  BY <1>3 DEF Clean
<1> QED BY <1>1, <1>2, <1>3, <1>4, BlameKind

\* A step of the report: on to where the answer is the same, or the answer.
LEMMA ReportAnswers ==
  ASSUME DecInv, DecInv', Report, NEW g, Answers(Significant, g), g[read] = g[0]
  PROVE  /\ UNCHANGED <<text, src>>
         /\ \/ tier' = "report" /\ g[read'] = g[0]
            \/ tier' = "error" /\ verdict'.kind = g[0].kind /\ g[0].kind # "OK"
<1> DEFINE S == Significant
           n == TokenLen(S, read)
<1>1. /\ S \in Seq(Char) /\ Len(S) \in Nat /\ read \in Nat /\ Reporting
      /\ read \in 0..Len(S) /\ Left = Len(S) - read
  BY ReportHere DEF Report, ReportGroup, ReportSignal, PassGroup, ReportSegment, PassSegment,
                    ReportEnd, FullGroup, CleanGroup, AtSegment
<1>2. g[read].kind # "OK"
  BY <1>1, ReportAhead
<1>3. g[read] \in Verdicts /\ g[Len(S)] = Decoded(<<>>)
  <2>1. Len(S) \in 0..Len(S)
    BY <1>1
  <2> QED BY <1>1, <2>1, AnswerType, AnswerSteps
<1>4. read # Len(S) /\ read < Len(S)
  <2>1. Decoded(<<>>).kind = "OK"
    BY DEF Decoded
  <2>2. read # Len(S)
    BY <1>2, <1>3, <2>1
  <2> QED BY <1>1, <2>2
<1>5. ASSUME Pass(n), n # 0
      PROVE  UNCHANGED <<text, src>> /\ tier' = "report" /\ g[read'] = g[0]
  <2> DEFINE e == read + n
  <2>1. ~Stuck(S, read)
    BY <1>5 DEF Stuck
  <2>2. /\ e \in (read + 1)..Len(S) /\ TokenBytes(S, read) \in Seq(Byte)
        /\ g[read] = After(TokenBytes(S, read), g[e])
    BY <1>1, <1>4, <2>1, AnswerSteps
  <2>3. e \in 0..Len(S)
    BY <1>1, <2>2
  <2>4. read' = e /\ UNCHANGED <<text, src, tier>>
    BY <1>5 DEF Pass
  <2> HIDE DEF e
  <2>5. g[e] \in Verdicts
    BY <1>1, <2>3, AnswerType
  <2>6. g[read].kind = g[e].kind /\ (g[e].kind # "OK" => g[read] = g[e])
    BY <2>2, <2>5, AfterIs
  <2> QED BY <1>1, <1>2, <2>4, <2>6 DEF Reporting
<1>6. ASSUME n = 0, tier' = "error", verdict'.kind = Fault(S, read).kind, UNCHANGED <<text, src>>
      PROVE  /\ UNCHANGED <<text, src>> /\ tier' = "error"
             /\ verdict'.kind = g[0].kind /\ g[0].kind # "OK"
  <2>1. Stuck(S, read)
    BY <1>4, <1>6 DEF Stuck
  <2>2. g[read] = Fault(S, read)
    BY <1>1, <2>1, AnswerSteps
  <2> QED BY <1>2, <1>6, <2>2
<1> HIDE DEF S
<1>7. \A k, o : Error(k, o).kind = k
  BY DEF Error
<1>8. CASE ReportGroup
  <2>1. Left >= 5 /\ BlameFirst(ForeignIn(read + 1, read + 5))
    BY <1>8 DEF ReportGroup, FullGroup
  <2>2. read + 5 \in Nat /\ (read + 5) - read = 5 /\ Smaller(Left, 5) = 5 /\ Len(S) - read >= 5
    BY <1>1, <2>1 DEF Smaller
  <2>3. /\ tier' = "error" /\ verdict'.kind = "InvalidCharacter" /\ UNCHANGED <<text, src>>
        /\ ~Clean(S, read, 5)
    BY <1>1, <2>1, <2>2, BlameFirstKind DEF S
  <2>4. n = 0
    BY <2>2, <2>3 DEF TokenLen
  <2>5. Fault(S, read) = FirstBad(S, read, 5)
    BY <1>1, <2>2, <2>3 DEF Fault
  <2> QED BY <1>6, <1>7, <2>3, <2>4, <2>5 DEF FirstBad
<1>9. CASE ReportSignal
  <2> DEFINE v == [kind |-> "UndefinedSignal", value |-> NextValue]
  <2>1. CleanGroup /\ NextValue >= FutureSignalBase /\ Blame(v) /\ v.kind = "UndefinedSignal"
    BY <1>9 DEF ReportSignal
  <2> HIDE DEF v
  <2>2. Left >= 5 /\ Clean(S, read, 5) /\ NextValue = ValueAt(S, read)
    BY <2>1, CleanGroupIs DEF S
  <2>3. Smaller(Left, 5) = 5 /\ Len(S) - read >= 5 /\ ~(Len(S) - read < 5)
    BY <1>1, <2>2 DEF Smaller
  <2>4. n = 0
    BY <2>1, <2>2, <2>3 DEF TokenLen
  <2>5. Fault(S, read) = Error("UndefinedSignal", read)
    BY <1>1, <2>1, <2>2, <2>3 DEF Fault
  <2> QED BY <1>6, <1>7, <2>1, <2>4, <2>5, BlameKind
<1>10. CASE PassGroup
  <2>1. /\ CleanGroup /\ Pass(5)
        /\ NextValue \in 0..(DpSignalBase - 1) \cup FillSignalBase..(FutureSignalBase - 1)
    BY <1>10 DEF PassGroup
  <2>2. /\ read + 5 <= Len(S) /\ Clean(S, read, 5) /\ NextValue = ValueAt(S, read)
    BY <2>1, CleanGroupIs DEF S
  <2>3. \/ ValueAt(S, read) < DpSignalBase
        \/ ValueAt(S, read) >= FillSignalBase /\ ValueAt(S, read) < FutureSignalBase
    BY <2>1, <2>2, RangeTypes
  <2>4. n = 5
    BY <1>1, <2>2, <2>3, PlainToken
  <2>5. Pass(n) /\ n # 0
    BY <2>1, <2>4
  <2> HIDE DEF n
  <2> QED BY <1>5, <2>5
<1>11. CASE ReportSegment
  <2> DEFINE l == NextSegment.len
  <2>1. AtSegment
        /\ IF Left - 5 < l THEN Blame([kind |-> "UnexpectedEndOfStream"])
           ELSE BlameFirst(ForeignIn(read + 6, read + 5 + l))
    BY <1>11 DEF ReportSegment
  <2>2. /\ CleanGroup /\ Left >= 5 /\ Clean(S, read, 5) /\ NextValue = ValueAt(S, read)
        /\ NextValue \in DpSignalBase..(FillSignalBase - 1)
    BY <2>1, CleanGroupIs DEF AtSegment, S
  <2>3. /\ l \in Nat \ {0} /\ l = Announced(S, read)
        /\ n = IF Left - 5 >= l /\ Clean(S, read + 5, l) THEN 5 + l ELSE 0
    BY <2>1, <2>2, AtSegmentIs DEF S, Announced, NextSegment
  <2>4. /\ Smaller(Left, 5) = 5 /\ Len(S) - read >= 5 /\ ~(Len(S) - read < 5)
        /\ ~(ValueAt(S, read) >= FutureSignalBase)
    BY <1>1, <2>2, RangeTypes, RangeOrder DEF Smaller
  <2>5. Fault(S, read) = IF Left - 5 < l THEN Error("UnexpectedEndOfStream", read + 5)
                         ELSE FirstBad(S, read + 5, l)
    BY <1>1, <2>2, <2>3, <2>4 DEF Fault
  <2> HIDE DEF l, n
  <2>6. CASE Left - 5 < l
    <3> DEFINE v == [kind |-> "UnexpectedEndOfStream"]
    <3>1. Blame(v) /\ v.kind = "UnexpectedEndOfStream"
      BY <2>1, <2>6
    <3> HIDE DEF v
    <3>2. n = 0
      BY <1>1, <2>3, <2>6
    <3> QED BY <1>6, <1>7, <2>5, <2>6, <3>1, <3>2, BlameKind
  <2>7. CASE ~(Left - 5 < l)
    <3> DEFINE k == read + 5  m == read + 5 + l
    <3>1. k \in Nat /\ m \in Nat /\ k + 1 = read + 6 /\ m - k = l
      BY <1>1, <2>3
    <3>2. BlameFirst(ForeignIn(k + 1, m))
      BY <2>1, <2>7, <3>1
    <3> HIDE DEF m
    <3>3. /\ tier' = "error" /\ verdict'.kind = "InvalidCharacter" /\ UNCHANGED <<text, src>>
          /\ ~Clean(S, k, l)
      BY <3>1, <3>2, BlameFirstKind DEF S
    <3>4. n = 0
      BY <2>3, <3>3
    <3> QED BY <1>6, <1>7, <2>5, <2>7, <3>3, <3>4 DEF FirstBad
  <2> QED BY <2>6, <2>7
<1>12. CASE PassSegment
  <2> DEFINE l == NextSegment.len
  <2>1. /\ AtSegment /\ Left - 5 >= l /\ Pass(5 + l)
        /\ ForeignIn(read + 6, read + 5 + l) = {}
    BY <1>12 DEF PassSegment
  <2>2. /\ l \in Nat \ {0}
        /\ n = IF Left - 5 >= l /\ Clean(S, read + 5, l) THEN 5 + l ELSE 0
    BY <2>1, AtSegmentIs DEF S
  <2> HIDE DEF l, n
  <2>3. Clean(S, read + 5, l)
    <3>1. \A i \in (read + 6)..(read + 5 + l) : S[i] \in AlphabetN
      BY <2>1 DEF ForeignIn, Foreign, S
    <3>2. read + 5 + 1 = read + 6
      BY <1>1
    <3> QED BY <3>1, <3>2 DEF Clean
  <2>4. 5 + l = n /\ 5 + l # 0
    BY <2>1, <2>2, <2>3
  <2>5. Pass(n) /\ n # 0
    BY <2>1, <2>4
  <2> QED BY <1>5, <2>5
<1>13. CASE ReportEnd
  <2> DEFINE bad == ForeignIn(read + 1, read + Left)
             rest == Values(SubSeq(S, read + 1, read + Left))
             short == Left = 1 \/ (Left > 1 /\ ~TailAccepted(rest))
             v == IF short THEN [kind |-> "InvalidFinalBlock", length |-> Left]
                  ELSE [kind |-> "Disagreement"]
  <2>1. /\ Left \in 0..4
        /\ BlameFirst(bad) \/ (bad = {} /\ Blame(v))
    BY <1>13 DEF ReportEnd, S
  <2>2. Left \in 1..4 /\ read + Left = Len(S) /\ Smaller(Left, 5) = Left /\ ~(Len(S) - read >= 5)
        /\ Len(S) - read < 5
    BY <1>1, <1>4, <2>1 DEF Smaller
  <2>3. CASE BlameFirst(bad)
    <3>1. read + Left \in Nat /\ (read + Left) - read = Left
      BY <1>1, <2>2
    <3>2. /\ tier' = "error" /\ verdict'.kind = "InvalidCharacter" /\ UNCHANGED <<text, src>>
          /\ ~Clean(S, read, Left)
      BY <1>1, <2>3, <3>1, BlameFirstKind DEF S
    <3>3. n = 0
      BY <1>1, <2>2, <3>2 DEF TokenLen
    <3>4. Fault(S, read) = FirstBad(S, read, Left)
      BY <1>1, <2>2, <3>2 DEF Fault
    <3> QED BY <1>6, <1>7, <3>2, <3>3, <3>4 DEF FirstBad
  <2>4. CASE bad = {} /\ Blame(v)
    <3>1. Clean(S, read, Left)
      BY <2>4 DEF ForeignIn, Foreign, Clean, S
    <3>2. tier' = "error" /\ verdict' = v /\ UNCHANGED <<text, src>>
      <4> HIDE DEF v
      <4> QED BY <2>4, BlameKind
    <3>3. short
      <4>1. verdict'.kind # "Disagreement"
        BY DEF DecInv, TiersAgree
      <4> QED BY <3>2, <4>1
    <3>4. v.kind = "InvalidFinalBlock"
      BY <3>3
    <3>5. n = 0
      <4>1. rest = Values(LastOf(S, read))
        BY <2>2 DEF LastOf
      <4> QED BY <1>1, <2>2, <3>3, <4>1 DEF TokenLen
    <3>6. Fault(S, read) = Error("InvalidFinalBlock", read)
      BY <1>1, <2>2, <3>1 DEF Fault
    <3> HIDE DEF v
    <3> QED BY <1>6, <1>7, <3>2, <3>4, <3>5, <3>6
  <2> QED BY <2>1, <2>3, <2>4
<1> QED BY <1>8, <1>9, <1>10, <1>11, <1>12, <1>13 DEF Report

\* A step of the scan: it goes on, gives the text to the report, or has read the
\* significant characters.
LEMMA ScanAnswers ==
  ASSUME DecInv, Scan
  PROVE  /\ text' = text
         /\ \/ tier' \in {"scan", "rescan"}
            \/ tier' = "report" /\ read' = 0
            \/ tier' = "ok" /\ src' = Significant
<1>1. text' = text
  BY StaysSent
<1>2. CASE ReadBlocks
  BY <1>1, <1>2 DEF ReadBlocks, Scanning
<1>3. CASE ReadsOne
  <2>1. Scanning /\ tier' = tier
    BY <1>3, ReadsToken
  <2> QED BY <1>1, <2>1 DEF Scanning
<1>4. CASE Accept
  <2>1. Scanning /\ Remaining = 0 /\ tier' = "ok" /\ src' = src
    BY <1>4 DEF Accept
  <2>2. Len(src) \in Nat /\ pos \in Nat /\ Remaining = Len(src) - pos
    BY <2>1, Here
  <2>3. Clean(src, 0, Len(src))
    <3>1. pos = Len(src)
      BY <2>1, <2>2
    <3> QED BY <2>1, <3>1 DEF DecInv, ScanSound
  <2>4. src = Significant
    BY <2>1, <2>3, AcceptedSource
  <2> QED BY <1>1, <2>1, <2>4
<1>5. CASE Rejection
  <2>1. Scanning /\ \E buffer : Reject(buffer)
    BY <1>5, RejectionIs
  <2>2. tier' \in {"rescan", "report"} /\ read' = read
    BY <2>1 DEF Reject
  <2>3. read = 0
    BY <2>1 DEF DecInv, ScanSound
  <2> QED BY <1>1, <2>2, <2>3
<1> QED BY <1>2, <1>3, <1>4, <1>5 DEF Scan, ReadsOne, Rejection

\* Every step keeps the answer the tiers are bound to give.
LEMMA NextAnswerSound ==
  ASSUME DecInv, DecInv', AnswerSound, [Next]_vars
  PROVE  AnswerSound'
<1>1. CASE Scan
  <2>1. Significant' = Significant
    BY <1>1, ScanAnswers DEF Significant
  <2>2. ASSUME NEW g, Answers(Significant, g)
        PROVE  /\ Reporting' => g[read'] = g[0]
               /\ tier' # "error"
               /\ tier' = "ok" => src' = Significant
    BY <1>1, ScanAnswers DEF Reporting
  <2> QED BY <2>1, <2>2 DEF AnswerSound
<1>2. CASE Report
  <2>1. Reporting
    BY <1>2, StaysSent
  <2>2. ASSUME NEW g, Answers(Significant, g)
        PROVE  /\ Significant' = Significant
               /\ Reporting' => g[read'] = g[0]
               /\ tier' = "error" => verdict'.kind = g[0].kind /\ g[0].kind # "OK"
               /\ tier' = "ok" => src' = Significant
    <3>1. g[read] = g[0]
      BY <2>1, <2>2 DEF AnswerSound
    <3>2. /\ UNCHANGED <<text, src>>
          /\ \/ tier' = "report" /\ g[read'] = g[0]
             \/ tier' = "error" /\ verdict'.kind = g[0].kind /\ g[0].kind # "OK"
      BY <1>2, <2>2, <3>1, ReportAnswers
    <3> QED BY <3>2 DEF Reporting, Significant
  <2>3. Significant' = Significant
    <3>1. text' = text
      BY <1>2, StaysSent
    <3> QED BY <3>1 DEF Significant
  <2> QED BY <2>2, <2>3 DEF AnswerSound
<1>3. CASE UNCHANGED vars
  BY <1>3 DEF vars, AnswerSound, Significant, Reporting
<1> QED BY <1>1, <1>2, <1>3 DEF Next

\* So it is at the start.
LEMMA InitAnswerSound == Init => AnswerSound
BY DEF Init, AnswerSound, Reporting

\* A text whose answer is OK stands for its data.
LEMMA AnswerMarks ==
  ASSUME NEW s \in Seq(Char), NEW g, Answers(s, g), g[0].kind = "OK"
  PROVE  g[0].data \in Seq(Byte) /\ \E S : Marks(s, g[0].data, S)
<1> DEFINE d == g[0].data
           rest(m) == SubSeq(d, m + 1, Len(d))
           S == {x \in (0..Len(s)) \X (0..Len(d)) :
                   g[x[1]].kind = "OK" /\ g[x[1]].data = rest(x[2])}
<1>1. Len(s) \in Nat /\ 0 \in 0..Len(s)
  BY LenProperties
<1>2. ASSUME NEW p \in 0..Len(s), g[p].kind = "OK"
      PROVE  g[p].data \in Seq(Byte) /\ g[p] = Decoded(g[p].data)
  <2>1. g[p] \in Verdicts
    BY AnswerType
  <2>2. g[p] \in [kind : {"OK"}, data : Seq(Byte)]
    BY <1>2, <2>1 DEF Verdicts, Faults
  <2> QED BY <2>2 DEF Decoded
<1>3. d \in Seq(Byte) /\ Len(d) \in Nat
  BY <1>1, <1>2, LenProperties
<1> HIDE DEF d
<1>4. \A m \in 0..Len(d) : /\ rest(m) \in Seq(Byte) /\ Len(rest(m)) = Len(d) - m
                           /\ \A j \in 1..(Len(d) - m) : rest(m)[j] = d[m + j]
  <2> TAKE m \in 0..Len(d)
  <2> DEFINE n == Len(d) - m
  <2>1. m \in Nat /\ n \in Nat /\ m + n = Len(d) /\ m + n <= Len(d)
    BY <1>3
  <2>2. SubSeq(d, m + 1, m + n) \in Seq(Byte) /\ Len(SubSeq(d, m + 1, m + n)) = n
        /\ \A j \in 1..n : SubSeq(d, m + 1, m + n)[j] = d[m + j]
    <3> HIDE DEF n
    <3> QED BY <1>3, <2>1, PartIn
  <2> QED BY <2>1, <2>2
<1>5. <<0, 0>> \in S
  <2>1. rest(0) = d
    BY <1>3
  <2>2. 0 \in 0..Len(d)
    BY <1>3
  <2> HIDE DEF rest
  <2>3. g[0].kind = "OK" /\ g[0].data = rest(0)
    BY <2>1 DEF d
  <2> QED BY <1>1, <2>2, <2>3
<1>6. ASSUME NEW p, NEW m, <<p, m>> \in S
      PROVE  /\ p \in 0..Len(s) /\ m \in 0..Len(d)
             /\ IF p = Len(s) THEN m = Len(d) ELSE MarkedStep(s, d, S, p, m)
  <2>1. p \in 0..Len(s) /\ m \in 0..Len(d) /\ g[p].kind = "OK" /\ g[p].data = rest(m)
    BY <1>6
  <2>2. /\ rest(m) \in Seq(Byte) /\ Len(rest(m)) = Len(d) - m
        /\ \A j \in 1..(Len(d) - m) : rest(m)[j] = d[m + j]
    BY <1>4, <2>1
  <2>3. CASE p = Len(s)
    <3>1. g[p] = Decoded(<<>>)
      BY <2>1, <2>3, AnswerSteps
    <3>2. rest(m) = <<>>
      BY <2>1, <3>1 DEF Decoded
    <3>3. Len(d) - m = 0
      BY <2>2, <3>2
    <3> QED BY <1>3, <2>1, <2>3, <3>3
  <2>4. CASE p # Len(s)
    <3> DEFINE b == TokenBytes(s, p)
               e == p + TokenLen(s, p)
               t == g[e].data
    <3>1. ~Stuck(s, p)
      BY <2>1, AnswerSteps
    <3>2. /\ TokenLen(s, p) # 0 /\ e \in (p + 1)..Len(s)
          /\ b \in Seq(Byte) /\ g[p] = After(b, g[e])
      BY <2>1, <2>4, <3>1, AnswerSteps
    <3>3. e \in 0..Len(s)
      BY <1>1, <2>1, <3>2
    <3> HIDE DEF e, b
    <3>4. g[e] \in Verdicts
      BY <3>3, AnswerType
    <3>5. g[e].kind = "OK"
      BY <2>1, <3>2, <3>4, AfterIs
    <3>6. t \in Seq(Byte)
      BY <1>2, <3>3, <3>5
    <3>7. g[p] = Decoded(b \o t)
      BY <3>2, <3>5 DEF After
    <3> HIDE DEF t
    <3>8. rest(m) = b \o t
      <4>1. g[p].data = b \o t
        BY <3>7 DEF Decoded
      <4> HIDE DEF rest
      <4> QED BY <2>1, <4>1
    <3> DEFINE k == m + Len(b)
    <3>9. /\ Len(b) \in Nat /\ Len(t) \in Nat /\ Len(d) - m = Len(b) + Len(t)
          /\ \A j \in 1..Len(b) : rest(m)[j] = b[j]
          /\ \A j \in 1..Len(t) : rest(m)[Len(b) + j] = t[j]
      <4>1. /\ Len(b) \in Nat /\ Len(t) \in Nat /\ Len(b \o t) = Len(b) + Len(t)
            /\ \A j \in 1..Len(b) : (b \o t)[j] = b[j]
            /\ \A j \in 1..Len(t) : (b \o t)[Len(b) + j] = t[j]
        BY <3>2, <3>6, ConcatProperties, LenProperties
      <4> QED BY <2>2, <3>8, <4>1
    <3> HIDE DEF rest
    <3>10. k \in 0..Len(d) /\ k <= Len(d) /\ Len(d) - k = Len(t)
      BY <1>3, <2>1, <3>9
    <3>11. \A j \in 1..Len(b) : b[j] = d[m + j]
      <4>1. \A j \in 1..Len(b) : j \in 1..(Len(d) - m)
        BY <3>9
      <4> QED BY <2>2, <3>9, <4>1
    <3>12. t = rest(k)
      <4>1. /\ rest(k) \in Seq(Byte) /\ Len(rest(k)) = Len(t)
            /\ \A j \in 1..Len(t) : rest(k)[j] = d[k + j]
        BY <1>4, <3>10
      <4>2. \A j \in 1..Len(t) : t[j] = d[k + j]
        <5> TAKE j \in 1..Len(t)
        <5>1. Len(b) + j \in 1..(Len(d) - m) /\ m + (Len(b) + j) = k + j
          BY <2>1, <3>9
        <5> QED BY <2>2, <3>9, <5>1
      <4>3. \A j \in 1..Len(t) : t[j] = rest(k)[j]
        BY <4>1, <4>2
      <4> HIDE DEF k
      <4> QED BY <3>6, <4>1, <4>3, SeqEqual
    <3>13. <<e, k>> \in S
      <4> HIDE DEF k
      <4>1. g[e].kind = "OK" /\ g[e].data = rest(k)
        BY <3>5, <3>12 DEF t
      <4> QED BY <3>3, <3>10, <4>1
    <3> HIDE DEF S
    <3> QED BY <2>1, <2>4, <3>2, <3>10, <3>11, <3>13 DEF MarkedStep, e, b
  <2> QED BY <2>3, <2>4
<1> HIDE DEF S
<1>7. Marks(s, d, S)
  BY <1>5, <1>6 DEF Marks
<1> QED BY <1>3, <1>7 DEF d

\* Once Rust has answered, it has given the answer of the significant characters.
LEMMA RustAnswers ==
  ASSUME DecInv, SourceSound, AnswerSound, Answered, NEW g, Answers(Significant, g)
  PROVE  /\ tier = "ok" => g[0] = Decoded(Data) /\ Data \in Seq(Byte)
         /\ tier # "ok" => verdict.kind = g[0].kind /\ g[0].kind # "OK"
<1>1. /\ Significant \in Seq(Char) /\ Len(Significant) \in Nat
  BY ReportHere
<1>2. CASE tier = "ok"
  <2>1. src = Significant /\ pos \in ReachFrom(src, 0) /\ pos = Len(src)
    BY <1>2 DEF AnswerSound, DecInv, ScanSound
  <2>2. 0 \in 0..Len(src) /\ Len(src) \in 0..Len(src)
    BY <1>1, <2>1
  <2>3. g[0].kind = "OK"
    <3>1. g[0].kind = g[pos].kind
      BY <1>1, <2>1, <2>2, AnswerReached
    <3>2. g[pos] = Decoded(<<>>)
      BY <1>1, <2>1, <2>2, AnswerSteps
    <3> QED BY <3>1, <3>2 DEF Decoded
  <2> DEFINE d == g[0].data
  <2>4. d \in Seq(Byte) /\ \E S : Marks(src, d, S)
    BY <1>1, <2>1, <2>3, AnswerMarks
  <2>5. g[0] = Decoded(d)
    <3>1. g[0] \in Verdicts
      BY <1>1, <2>1, <2>2, AnswerType
    <3>2. g[0] \in [kind : {"OK"}, data : Seq(Byte)]
      BY <2>3, <3>1 DEF Verdicts, Faults
    <3> QED BY <3>2 DEF Decoded
  <2> HIDE DEF d
  <2>6. w = Len(d) /\ \A i \in 1..w : out[i] = d[i]
    BY <1>2, <2>4 DEF SourceSound, Reads
  <2>7. out \in Seq(Byte) /\ w \in 0..Len(out)
    BY DEF DecInv, TypeOK
  <2>8. Data \in Seq(Byte) /\ Len(Data) = w /\ \A i \in 1..w : Data[i] = out[i]
    BY <2>7, BeginOf DEF Data
  <2>9. Data = d
    BY <2>4, <2>6, <2>8, SeqEqual
  <2> QED BY <1>2, <2>5, <2>8, <2>9
<1>3. CASE tier # "ok"
  <2>1. tier = "error"
    BY <1>3 DEF Answered
  <2> QED BY <1>3, <2>1 DEF AnswerSound
<1> QED BY <1>2, <1>3

\* What is not white space, counted.
LEMMA KeptCount ==
  ASSUME NEW s \in Seq(Char)
  PROVE  \A i \in 0..Len(s) : /\ IsFiniteSet({j \in 1..i : s[j] \notin Whitespace})
                              /\ Cardinality({j \in 1..i : s[j] \notin Whitespace}) = KeptOf(s, i)
<1> DEFINE F(i) == {j \in 1..i : s[j] \notin Whitespace}
           T == {i \in 0..Len(s) : IsFiniteSet(F(i)) /\ Cardinality(F(i)) = KeptOf(s, i)}
<1>1. /\ Len(s) \in Nat /\ KeptOf(s, 0) = 0
      /\ \A i \in 0..Len(s) : KeptOf(s, i) \in Nat
      /\ \A i \in 1..Len(s) :
           KeptOf(s, i) = IF s[i] \in Whitespace THEN KeptOf(s, i - 1) ELSE KeptOf(s, i - 1) + 1
  BY KeptInOrder, LenProperties
<1>2. 0 \in T
  <2>1. F(0) = {}
    OBVIOUS
  <2>2. IsFiniteSet({}) /\ Cardinality({}) = 0
    BY FS_EmptySet
  <2> HIDE DEF F
  <2>3. IsFiniteSet(F(0)) /\ Cardinality(F(0)) = KeptOf(s, 0)
    BY <1>1, <2>1, <2>2
  <2> QED BY <1>1, <2>3
<1>3. ASSUME NEW i \in 1..Len(s), i - 1 \in T PROVE i \in T
  <2>1. F(i) = IF s[i] \in Whitespace THEN F(i - 1) ELSE F(i - 1) \cup {i}
    <3>1. \A j : j \in 1..i <=> j \in 1..(i - 1) \/ j = i
      OBVIOUS
    <3>2. i \in Nat
      OBVIOUS
    <3> QED BY <3>1
  <2>2. i \notin F(i - 1)
    OBVIOUS
  <2> HIDE DEF F
  <2>3. IsFiniteSet(F(i - 1)) /\ Cardinality(F(i - 1)) = KeptOf(s, i - 1)
    BY <1>3
  <2>4. CASE s[i] \in Whitespace
    BY <1>1, <2>1, <2>3, <2>4
  <2>5. CASE s[i] \notin Whitespace
    <3> DEFINE G == F(i - 1)
    <3>1. i \notin G /\ IsFiniteSet(G)
      BY <2>2, <2>3
    <3> HIDE DEF G
    <3>2. IsFiniteSet(G \cup {i}) /\ Cardinality(G \cup {i}) = Cardinality(G) + 1
      BY <3>1, FS_AddElement
    <3>3. IsFiniteSet(F(i)) /\ Cardinality(F(i)) = Cardinality(F(i - 1)) + 1
      BY <2>1, <2>5, <3>2 DEF G
    <3> QED BY <1>1, <2>3, <2>5, <3>3
  <2> QED BY <2>4, <2>5
<1> HIDE DEF T
<1>4. \A i \in 0..Len(s) : i \in T
  BY <1>1, <1>2, <1>3, CountingUp
<1> QED BY <1>4 DEF T

\* The byte Rust and Python name is the one Go's and TypeScript's offset means.
LEMMA PositionIs ==
  ASSUME DecInv, verdict.kind = "InvalidCharacter", NEW g, Answers(Significant, g),
         g[0].kind = "InvalidCharacter"
  PROVE  verdict.position = ByteAfter(g[0].offset)
<1> DEFINE o == g[0].offset
           k == o + 1
           M == Min(AllForeign)
<1>1. /\ text \in Seq(Char) /\ Len(text) \in Nat
      /\ Significant \in Seq(Char) /\ Len(Significant) \in Nat
  BY ReportHere, LenProperties
<1>2. /\ o \in 0..(Len(Significant) - 1) /\ Significant[o + 1] \notin AlphabetN
      /\ \A i \in 1..o : Significant[i] \in AlphabetN
  <2>1. 0 \in 0..Len(Significant)
    BY <1>1
  <2>2. /\ o \in 0..(Len(Significant) - 1) /\ Significant[o + 1] \notin AlphabetN
        /\ \A i \in (0 + 1)..o : Significant[i] \in AlphabetN
    BY <1>1, <2>1, AnswerClean
  <2> QED BY <2>2
<1> HIDE DEF o
<1>3. k \in 1..Len(Significant) /\ Foreign(k) /\ k - 1 = o /\ \A j \in 1..(k - 1) : ~Foreign(j)
  <2>1. k \in 1..Len(Significant) /\ k - 1 = o
    BY <1>1, <1>2
  <2> QED BY <1>2, <2>1 DEF Foreign
<1> HIDE DEF k, M
<1>4. /\ AllForeign # {}
      /\ \A i \in 1..Len(text) : (text[i] \notin Whitespace /\ KeptOf(text, i) = k) <=> i = M
  BY <1>1, <1>3, FirstForeign DEF M
<1>5. M \in AllForeign /\ \A j \in AllForeign : M <= j
  <2>1. AllForeign \in SUBSET Nat
    BY DEF AllForeign
  <2> QED BY <1>4, <2>1, MinIs DEF M
<1>6. M \in 1..Len(text)
  BY <1>5 DEF AllForeign
<1>7. verdict.position = M - 1
  <2>1. verdict.position = Len(Utf8(SubSeq(text, 1, M - 1)))
    BY DEF DecInv, FirstInvalidReported, AllForeign, M
  <2> DEFINE b == SubSeq(text, 1, M - 1)
             m == M - 1
  <2>2. m \in Nat /\ 0 + m <= Len(text) /\ 0 + 1 = 1 /\ 0 + m = m
    BY <1>1, <1>6
  <2>3. b \in Seq(Char) /\ Len(b) = m /\ \A i \in 1..m : b[i] = text[i]
    <3>1. /\ SubSeq(text, 0 + 1, 0 + m) \in Seq(Char) /\ Len(SubSeq(text, 0 + 1, 0 + m)) = m
          /\ \A i \in 1..m : SubSeq(text, 0 + 1, 0 + m)[i] = text[0 + i]
      <4> HIDE DEF m
      <4> QED BY <1>1, <2>2, PartOf
    <3>2. \A i \in 1..m : 0 + i = i
      OBVIOUS
    <3> QED BY <2>2, <3>1, <3>2
  <2>4. \A i \in 1..m : text[i] # WideChar
    <3> TAKE i \in 1..m
    <3>1. i \in 1..Len(text) /\ ~(M <= i)
      BY <1>1, <1>6
    <3>2. text[i] \in AlphabetN \cup Whitespace
      BY <1>5, <3>1 DEF AllForeign
    <3> QED BY <3>2, WireAssumption, BytesAssumption
  <2> HIDE DEF b, m
  <2>5. Utf8(b) = b
    BY <2>3, <2>4, Utf8Facts
  <2> QED BY <2>1, <2>3, <2>5 DEF b, m
<1>8. ASSUME NEW i \in 0..(Len(text) - 1)
      PROVE  (/\ text[i + 1] \notin Whitespace
              /\ Cardinality({j \in 1..i : text[j] \notin Whitespace}) = o) <=> i + 1 = M
  <2>1. i \in 0..Len(text) /\ i + 1 \in 1..Len(text) /\ (i + 1) - 1 = i
    BY <1>1
  <2>2. Cardinality({j \in 1..i : text[j] \notin Whitespace}) = KeptOf(text, i)
    BY <1>1, <2>1, KeptCount
  <2>3. KeptOf(text, i) \in Nat
    BY <1>1, <2>1, KeptInOrder
  <2>4. text[i + 1] \notin Whitespace => KeptOf(text, i + 1) = KeptOf(text, i) + 1
    BY <1>1, <2>1, KeptInOrder
  <2>5. k = o + 1 /\ o \in Nat
    BY <1>2 DEF k
  <2> QED BY <1>4, <2>1, <2>2, <2>3, <2>4, <2>5
<1> DEFINE P(i) == /\ text[i + 1] \notin Whitespace
                   /\ Cardinality({j \in 1..i : text[j] \notin Whitespace}) = o
<1>9. ByteAfter(o) = CHOOSE i \in 0..(Len(text) - 1) : P(i)
  BY DEF ByteAfter
<1>10. \A i \in 0..(Len(text) - 1) : P(i) <=> i + 1 = M
  BY <1>8
<1> HIDE DEF P
<1>11. M - 1 \in 0..(Len(text) - 1) /\ P(M - 1)
  <2>1. M - 1 \in 0..(Len(text) - 1) /\ (M - 1) + 1 = M
    BY <1>1, <1>6
  <2> QED BY <1>10, <2>1
<1>12. ByteAfter(o) = M - 1
  <2> DEFINE i == CHOOSE i \in 0..(Len(text) - 1) : P(i)
  <2>1. i \in 0..(Len(text) - 1) /\ P(i)
    BY <1>11
  <2>2. ByteAfter(o) = i
    BY <1>9
  <2> HIDE DEF i
  <2>3. i + 1 = M
    BY <1>10, <2>1
  <2> QED BY <1>1, <1>6, <2>1, <2>2, <2>3
<1> QED BY <1>7, <1>12 DEF o

-----------------------------------------------------------------------------
(* And the C decoder: one step of its scan for each token.                 *)

\* The group of five the C scan is at.
LEMMA CGroupIs ==
  ASSUME cIn \in Seq(Char), cPos \in 0..Len(cIn), C!GroupHere
  PROVE  /\ cPos + 5 <= Len(cIn) /\ cPos # Len(cIn) /\ Len(cIn) - cPos >= 5
         /\ ~(Len(cIn) - cPos < 5) /\ Smaller(Len(cIn) - cPos, 5) = 5
         /\ C!AllDigits(C!Group) <=> Clean(cIn, cPos, 5)
         /\ C!GroupValue = ValueAt(cIn, cPos) /\ C!Segment = SegmentAt(cIn, cPos)
         /\ C!Segment.len = Announced(cIn, cPos)
         /\ Clean(cIn, cPos, 5) => ValueAt(cIn, cPos) \in Nat
<1>1. Len(cIn) \in Nat /\ cPos \in Nat /\ Len(cIn) - cPos >= 5
  BY LenProperties DEF C!GroupHere, C!Remaining
<1>2. cPos + 5 <= Len(cIn) /\ cPos # Len(cIn) /\ ~(Len(cIn) - cPos < 5)
      /\ Smaller(Len(cIn) - cPos, 5) = 5
  BY <1>1 DEF Smaller
<1>3. C!Group = GroupAt(cIn, cPos) /\ C!Group = GroupOf(cIn, cPos)
  BY DEF C!Group, GroupAt, GroupOf
<1>4. C!AllDigits(C!Group) <=> Clean(cIn, cPos, 5)
  <2>1. \A h : C!AllDigits(h) <=> Valued(h)
    BY SameFormat DEF C!AllDigits, Valued
  <2> QED BY <1>2, <1>3, <2>1, PortGroupAt
<1>5. C!GroupValue = ValueAt(cIn, cPos)
  BY <1>3, SameFormat DEF C!GroupValue, ValueAt
<1>6. C!Segment = SegmentAt(cIn, cPos)
  BY <1>5, SameFormat DEF C!Segment, SegmentAt, GroupValueAt, ValueAt, GroupAt, GroupOf
<1>7. C!Segment.len = Announced(cIn, cPos)
  BY <1>2, <1>6, PortGroupAt
<1>8. Clean(cIn, cPos, 5) => ValueAt(cIn, cPos) \in Nat
  BY <1>1, <1>2, CleanValue
<1> QED BY <1>1, <1>2, <1>4, <1>5, <1>6, <1>7, <1>8

\* What the cached table is.
CacheSound == \A q, m : cCache.key = <<q, m>> => cCache.map = DpTable(q, m)

\* A step of the C scan that reads on, and what else a step does.
CReads ==
  /\ TokenLen(cIn, cPos) # 0
  /\ cBuf' = cBuf \o TokenBytes(cIn, cPos) /\ cPos' = cPos + TokenLen(cIn, cPos)
  /\ CacheSound'
  /\ UNCHANGED <<text, cLegal, cPhase, cIn, cStatus, cHeap, cResult>>
CRejects == Stuck(cIn, cPos) /\ C!Return(StatusOf(Fault(cIn, cPos).kind))

\* A signal of a value's range.
LEMMA CSignalHere ==
  ASSUME cIn \in Seq(Char), cPos \in 0..Len(cIn), NEW a, NEW b, C!Signals(a, b)
  PROVE  /\ C!GroupHere /\ cPos + 5 <= Len(cIn) /\ Clean(cIn, cPos, 5)
         /\ ValueAt(cIn, cPos) \in a..(b - 1) /\ ValueAt(cIn, cPos) \in Nat
         /\ C!GroupValue = ValueAt(cIn, cPos)
<1>1. C!GroupHere /\ C!AllDigits(C!Group) /\ C!GroupValue \in a..(b - 1)
  BY DEF C!Signals
<1> QED BY <1>1, CGroupIs

\* Bytes written for a token that is a group of five.
LEMMA CGroupWritten ==
  ASSUME cIn \in Seq(Char), cPos \in 0..Len(cIn), CacheSound, cPos + 5 <= Len(cIn),
         Clean(cIn, cPos, 5), ~(ValueAt(cIn, cPos) >= FutureSignalBase), ~AtSignal(cIn, cPos),
         NEW b, b = GroupBytes(ValueAt(cIn, cPos)), cBuf' = cBuf \o b, C!Step(5), cCache' = cCache
  PROVE  CReads
<1>1. TokenLen(cIn, cPos) = 5 /\ TokenBytes(cIn, cPos) = b
  BY PortPlain
<1>2. CacheSound'
  BY DEF CacheSound
<1> QED BY <1>1, <1>2 DEF CReads, C!Step

\* A block-mode group read (base85n.c, decode_scan) is the token there.
LEMMA CReadBlock ==
  ASSUME cIn \in Seq(Char), cPos \in 0..Len(cIn), CacheSound, C!ReadBlock
  PROVE  CReads
<1> DEFINE v == ValueAt(cIn, cPos)
<1>1. C!Signals(0, C!DpSignalBase) /\ C!Write(C!ValueToBytes(C!GroupValue), 5) /\ cCache' = cCache
  BY DEF C!ReadBlock
<1>2. /\ C!GroupHere /\ cPos + 5 <= Len(cIn) /\ Clean(cIn, cPos, 5)
      /\ v \in 0..(C!DpSignalBase - 1) /\ v \in Nat /\ C!GroupValue = v
  BY <1>1, CSignalHere
<1>3. v < DpSignalBase
  BY <1>2, SameFormat, RangeTypes
<1> HIDE DEF v
<1>4. ~(v >= FutureSignalBase) /\ ~(v \in DpSignalBase..(FillSignalBase - 1))
  BY <1>2, <1>3, RangeTypes, RangeOrder
<1>5. GroupBytes(v) = ValueToBytes(v)
  <2>1. ~(v \in FillSignalBase..(TailSignalBase - 1)) /\ ~(v >= TailSignalBase)
    BY <1>2, <1>3, RangeTypes, RangeOrder
  <2> QED BY <1>3, <2>1 DEF GroupBytes
<1>6. cBuf' = cBuf \o GroupBytes(v) /\ C!Step(5)
  BY <1>1, <1>2, <1>5, SameFormat DEF C!Write
<1>7. ~(ValueAt(cIn, cPos) >= FutureSignalBase) /\ ~AtSignal(cIn, cPos)
  BY <1>4 DEF AtSignal, v
<1> QED BY <1>1, <1>2, <1>6, <1>7, CGroupWritten DEF v

\* A Fill signal's bytes are written, unless memory runs out.
LEMMA CWriteFill ==
  ASSUME NEW b, C!WriteFill(b)
  PROVE  C!Return("ALLOC") \/ (cBuf' = cBuf \o b /\ C!Step(5) /\ cCache' = cCache)
BY DEF C!WriteFill, C!Write

\* A run read is the token there, unless memory runs out.
LEMMA CReadFill ==
  ASSUME cIn \in Seq(Char), cPos \in 0..Len(cIn), CacheSound, C!ReadFill
  PROVE  CReads \/ C!Return("ALLOC")
<1> DEFINE v == ValueAt(cIn, cPos)
           fill == SplitFill(v - FillSignalBase)
           b == [i \in 1..fill.len |-> fill.byte]
<1>1. /\ C!Signals(C!FillSignalBase, C!TailSignalBase)
      /\ C!WriteFill([i \in 1..C!SplitFill(C!GroupValue - C!FillSignalBase).len |->
                        C!SplitFill(C!GroupValue - C!FillSignalBase).byte])
  BY DEF C!ReadFill
<1>2. /\ cPos + 5 <= Len(cIn) /\ Clean(cIn, cPos, 5)
      /\ v \in C!FillSignalBase..(C!TailSignalBase - 1) /\ v \in Nat /\ C!GroupValue = v
  BY <1>1, CSignalHere
<1>3. v \in FillSignalBase..(TailSignalBase - 1)
  BY <1>2, SameFormat
<1>4. C!WriteFill(b)
  BY <1>1, <1>2, SameFormat
<1>5. GroupBytes(v) = b
  <2>1. ~(v < DpSignalBase) /\ ~(v >= TailSignalBase)
    <3> HIDE DEF v
    <3> QED BY <1>3, <1>2, RangeTypes, RangeOrder
  <2> QED BY <1>3, <2>1 DEF GroupBytes
<1> HIDE DEF v, b
<1>6. ~(v >= FutureSignalBase) /\ ~(v \in DpSignalBase..(FillSignalBase - 1))
  BY <1>2, <1>3, RangeTypes, RangeOrder
<1>7. ~(ValueAt(cIn, cPos) >= FutureSignalBase) /\ ~AtSignal(cIn, cPos)
  BY <1>6 DEF AtSignal, v
<1>8. C!Return("ALLOC") \/ (cBuf' = cBuf \o b /\ C!Step(5) /\ cCache' = cCache)
  BY <1>4, CWriteFill
<1> QED BY <1>2, <1>5, <1>7, <1>8, CGroupWritten DEF v

\* Zeros beside literal bytes read are the token there, unless memory runs out.
LEMMA CReadTail ==
  ASSUME cIn \in Seq(Char), cPos \in 0..Len(cIn), CacheSound, C!ReadTail
  PROVE  CReads \/ C!Return("ALLOC")
<1> DEFINE v == ValueAt(cIn, cPos)
           tail == SplitTail(v - TailSignalBase)
           zeros == [i \in 1..tail.zeros |-> 0]
           b == IF tail.order = 1 THEN tail.lit \o zeros ELSE zeros \o tail.lit
<1>1. /\ C!Signals(C!TailSignalBase, C!FutureSignalBase)
      /\ LET t == C!SplitTail(C!GroupValue - C!TailSignalBase)
             z == [i \in 1..t.zeros |-> 0]
         IN  C!WriteFill(IF t.order = 1 THEN t.lit \o z ELSE z \o t.lit)
  BY DEF C!ReadTail
<1>2. /\ cPos + 5 <= Len(cIn) /\ Clean(cIn, cPos, 5)
      /\ v \in C!TailSignalBase..(C!FutureSignalBase - 1) /\ v \in Nat /\ C!GroupValue = v
  BY <1>1, CSignalHere
<1>3. v \in TailSignalBase..(FutureSignalBase - 1)
  BY <1>2, SameFormat
<1>4. C!WriteFill(b)
  <2>1. C!SplitTail(C!GroupValue - C!TailSignalBase) = tail
    BY <1>2, SameFormat
  <2> HIDE DEF tail
  <2> QED BY <1>1, <2>1
<1>5. GroupBytes(v) = b
  <2>1. v >= TailSignalBase /\ ~(v < DpSignalBase) /\ ~(v \in FillSignalBase..(TailSignalBase - 1))
    <3> HIDE DEF v
    <3> QED BY <1>3, <1>2, RangeTypes, RangeOrder
  <2> QED BY <2>1 DEF GroupBytes
<1> HIDE DEF v, b
<1>6. ~(v >= FutureSignalBase) /\ ~(v \in DpSignalBase..(FillSignalBase - 1))
  BY <1>2, <1>3, RangeTypes, RangeOrder
<1>7. ~(ValueAt(cIn, cPos) >= FutureSignalBase) /\ ~AtSignal(cIn, cPos)
  BY <1>6 DEF AtSignal, v
<1>8. C!Return("ALLOC") \/ (cBuf' = cBuf \o b /\ C!Step(5) /\ cCache' = cCache)
  BY <1>4, CWriteFill
<1> QED BY <1>2, <1>5, <1>7, <1>8, CGroupWritten DEF v

\* The statuses of the errors.
LEMMA StatusIs ==
  /\ StatusOf("InvalidCharacter") = "INVALID_CHAR"
  /\ StatusOf("UnexpectedEndOfStream") = "UNEXPECTED_EOF"
  /\ StatusOf("UndefinedSignal") = "UNDEFINED_SIGNAL"
  /\ StatusOf("InvalidFinalBlock") = "INVALID_FINAL_BLOCK"
  /\ StatusOf("OK") = "OK"
BY DEF StatusOf

\* A group with a foreign character is rejected for it.
LEMMA CRejectGroup ==
  ASSUME cIn \in Seq(Char), cPos \in 0..Len(cIn), C!RejectGroup
  PROVE  CRejects
<1>1. C!GroupHere /\ ~C!AllDigits(C!Group) /\ C!Return("INVALID_CHAR")
  BY DEF C!RejectGroup
<1>2. /\ Len(cIn) - cPos >= 5 /\ cPos # Len(cIn) /\ Smaller(Len(cIn) - cPos, 5) = 5
      /\ ~Clean(cIn, cPos, 5)
  BY <1>1, CGroupIs
<1>3. TokenLen(cIn, cPos) = 0
  BY <1>2 DEF TokenLen
<1>4. Stuck(cIn, cPos)
  BY <1>2, <1>3, LenProperties DEF Stuck
<1>5. Fault(cIn, cPos) = FirstBad(cIn, cPos, 5)
  BY <1>2 DEF Fault
<1>6. Fault(cIn, cPos).kind = "InvalidCharacter"
  BY <1>5 DEF FirstBad, Error
<1> QED BY <1>1, <1>4, <1>6, StatusIs DEF CRejects

\* A signal of no construct is rejected as undefined.
LEMMA CRejectSignal ==
  ASSUME cIn \in Seq(Char), cPos \in 0..Len(cIn), C!RejectSignal
  PROVE  CRejects
<1>1. C!Signals(C!FutureSignalBase, C!Base_5) /\ C!Return("UNDEFINED_SIGNAL")
  BY DEF C!RejectSignal
<1>2. /\ C!GroupHere /\ Clean(cIn, cPos, 5)
      /\ ValueAt(cIn, cPos) \in C!FutureSignalBase..(C!Base_5 - 1) /\ ValueAt(cIn, cPos) \in Nat
  BY <1>1, CSignalHere
<1>3. /\ Len(cIn) - cPos >= 5 /\ cPos # Len(cIn) /\ ~(Len(cIn) - cPos < 5)
      /\ Smaller(Len(cIn) - cPos, 5) = 5
  BY <1>2, CGroupIs
<1>4. ValueAt(cIn, cPos) >= FutureSignalBase
  BY <1>2, SameFormat, RangeTypes
<1>5. TokenLen(cIn, cPos) = 0
  BY <1>2, <1>3, <1>4 DEF TokenLen
<1>6. Stuck(cIn, cPos)
  BY <1>3, <1>5, LenProperties DEF Stuck
<1>7. Fault(cIn, cPos) = Error("UndefinedSignal", cPos)
  BY <1>2, <1>3, <1>4 DEF Fault
<1>8. Fault(cIn, cPos).kind = "UndefinedSignal"
  BY <1>7 DEF Error
<1> QED BY <1>1, <1>6, <1>8, StatusIs DEF CRejects

\* A segment announced.
LEMMA CSegmentIs ==
  ASSUME cIn \in Seq(Char), cPos \in 0..Len(cIn), C!SegmentHere,
         NEW n, n = Announced(cIn, cPos)
  PROVE  /\ C!GroupHere /\ cPos + 5 <= Len(cIn) /\ Clean(cIn, cPos, 5) /\ AtSignal(cIn, cPos)
         /\ ~(ValueAt(cIn, cPos) >= FutureSignalBase)
         /\ C!Segment = SegmentAt(cIn, cPos) /\ C!Segment.len = n /\ n \in Nat \ {0}
         /\ C!SegmentChars = SegmentCharsAt(cIn, cPos)
         /\ C!SegmentCut <=> cPos + 5 + n > Len(cIn)
         /\ C!AllDigits(C!SegmentChars) <=> Valued(SegmentCharsAt(cIn, cPos))
<1>1. C!Signals(C!DpSignalBase, C!FillSignalBase)
  BY DEF C!SegmentHere
<1>2. /\ C!GroupHere /\ cPos + 5 <= Len(cIn) /\ Clean(cIn, cPos, 5)
      /\ ValueAt(cIn, cPos) \in C!DpSignalBase..(C!FillSignalBase - 1)
      /\ ValueAt(cIn, cPos) \in Nat
  BY <1>1, CSignalHere
<1>3. AtSignal(cIn, cPos)
  BY <1>2, SameFormat DEF AtSignal
<1>4. ~(ValueAt(cIn, cPos) >= FutureSignalBase)
  BY <1>2, <1>3, RangeTypes, RangeOrder DEF AtSignal
<1>5. C!Segment = SegmentAt(cIn, cPos) /\ C!Segment.len = n /\ n \in Nat \ {0}
  BY <1>2, <1>3, CGroupIs, PortSegment
<1>6. C!SegmentChars = SegmentCharsAt(cIn, cPos)
  BY <1>5 DEF C!SegmentChars, SegmentCharsAt
<1>7. C!SegmentCut <=> cPos + 5 + n > Len(cIn)
  <2>1. C!SegmentCut <=> Len(cIn) - cPos - 5 < n
    BY <1>5 DEF C!SegmentCut, C!Remaining
  <2>2. Len(cIn) \in Nat /\ cPos \in Nat
    BY LenProperties
  <2> QED BY <1>5, <2>1, <2>2
<1>8. C!AllDigits(C!SegmentChars) <=> Valued(SegmentCharsAt(cIn, cPos))
  <2>1. \A h : C!AllDigits(h) <=> Valued(h)
    BY SameFormat DEF C!AllDigits, Valued
  <2> QED BY <1>6, <2>1
<1> QED BY <1>2, <1>3, <1>4, <1>5, <1>6, <1>7, <1>8

\* A segment that runs off the end is rejected before its characters are looked at.
LEMMA CRejectCutSegment ==
  ASSUME cIn \in Seq(Char), cPos \in 0..Len(cIn), C!RejectCutSegment
  PROVE  CRejects
<1> DEFINE n == Announced(cIn, cPos)
<1>1. C!SegmentHere /\ C!SegmentCut /\ C!Return("UNEXPECTED_EOF")
  BY DEF C!RejectCutSegment
<1>2. /\ C!GroupHere /\ cPos + 5 <= Len(cIn) /\ Clean(cIn, cPos, 5) /\ AtSignal(cIn, cPos)
      /\ ~(ValueAt(cIn, cPos) >= FutureSignalBase)
      /\ n \in Nat \ {0} /\ cPos + 5 + n > Len(cIn)
  BY <1>1, CSegmentIs
<1>3. /\ cPos # Len(cIn) /\ ~(Len(cIn) - cPos < 5) /\ Smaller(Len(cIn) - cPos, 5) = 5
  BY <1>2, CGroupIs
<1>4. TokenLen(cIn, cPos) = 0
  BY <1>2, PortSegment
<1>5. Stuck(cIn, cPos)
  BY <1>3, <1>4, LenProperties DEF Stuck
<1>6. Len(cIn) - cPos - 5 < n
  <2>1. Len(cIn) \in Nat
    BY LenProperties
  <2> HIDE DEF n
  <2> QED BY <1>2, <2>1
<1>7. Fault(cIn, cPos) = Error("UnexpectedEndOfStream", cPos + 5)
  BY <1>2, <1>3, <1>6 DEF Fault
<1>8. Fault(cIn, cPos).kind = "UnexpectedEndOfStream"
  BY <1>7 DEF Error
<1> QED BY <1>1, <1>5, <1>8, StatusIs DEF CRejects

\* One with a foreign character is rejected for it.
LEMMA CRejectSegment ==
  ASSUME cIn \in Seq(Char), cPos \in 0..Len(cIn), C!RejectSegment
  PROVE  CRejects
<1> DEFINE n == Announced(cIn, cPos)
<1>1. C!SegmentHere /\ ~C!SegmentCut /\ ~C!AllDigits(C!SegmentChars) /\ C!Return("INVALID_CHAR")
  BY DEF C!RejectSegment
<1>2. /\ C!GroupHere /\ cPos + 5 <= Len(cIn) /\ Clean(cIn, cPos, 5) /\ AtSignal(cIn, cPos)
      /\ ~(ValueAt(cIn, cPos) >= FutureSignalBase)
      /\ n \in Nat \ {0} /\ ~(cPos + 5 + n > Len(cIn))
      /\ ~Valued(SegmentCharsAt(cIn, cPos))
  BY <1>1, CSegmentIs
<1>3. /\ cPos # Len(cIn) /\ ~(Len(cIn) - cPos < 5) /\ Smaller(Len(cIn) - cPos, 5) = 5
  BY <1>2, CGroupIs
<1>4. ~Clean(cIn, cPos + 5, n)
  BY <1>2, PortSegment
<1>5. TokenLen(cIn, cPos) = 0
  BY <1>2, <1>4, PortSegment
<1>6. Stuck(cIn, cPos)
  BY <1>3, <1>5, LenProperties DEF Stuck
<1>7. ~(Len(cIn) - cPos - 5 < n)
  <2>1. Len(cIn) \in Nat
    BY LenProperties
  <2> HIDE DEF n
  <2> QED BY <1>2, <2>1
<1>8. Fault(cIn, cPos) = FirstBad(cIn, cPos + 5, n)
  BY <1>2, <1>3, <1>7 DEF Fault
<1>9. Fault(cIn, cPos).kind = "InvalidCharacter"
  BY <1>8 DEF FirstBad, Error
<1> QED BY <1>1, <1>6, <1>9, StatusIs DEF CRejects

\* A segment read through the cached substitution is the token there.
LEMMA CReadSegment ==
  ASSUME cIn \in Seq(Char), cPos \in 0..Len(cIn), CacheSound, C!ReadSegment
  PROVE  CReads
<1> DEFINE n == Announced(cIn, cPos)
           g == SegmentAt(cIn, cPos)
           c == SegmentCharsAt(cIn, cPos)
           b == [j \in 1..n |-> cCache'.map[c[j]]]
<1>1. /\ C!SegmentHere /\ ~C!SegmentCut /\ C!AllDigits(C!SegmentChars)
      /\ cCache' = IF cCache.key = <<C!Segment.profile, C!Segment.mask>> THEN cCache
                   ELSE [key |-> <<C!Segment.profile, C!Segment.mask>>,
                         map |-> C!DpTable(C!Segment.profile, C!Segment.mask)]
      /\ C!Write([j \in 1..C!Segment.len |-> cCache'.map[C!SegmentChars[j]]], 5 + C!Segment.len)
  BY DEF C!ReadSegment
<1>2. /\ C!GroupHere /\ cPos + 5 <= Len(cIn) /\ Clean(cIn, cPos, 5) /\ AtSignal(cIn, cPos)
      /\ C!Segment = g /\ C!Segment.len = n /\ C!SegmentChars = c
      /\ n \in Nat \ {0} /\ ~(cPos + 5 + n > Len(cIn))
      /\ Valued(SegmentCharsAt(cIn, cPos))
  BY <1>1, CSegmentIs
<1>3. Clean(cIn, cPos + 5, n)
  BY <1>2, PortSegment
<1>4. TokenLen(cIn, cPos) = 5 + n /\ TokenBytes(cIn, cPos) = SegmentBytes(g, c)
      /\ Len(SegmentBytes(g, c)) = n
  BY <1>2, <1>3, PortSegment
<1>5. cCache' = (IF cCache.key = <<g.profile, g.mask>> THEN cCache
                 ELSE [key |-> <<g.profile, g.mask>>, map |-> DpTable(g.profile, g.mask)])
  BY <1>1, <1>2, SameFormat
<1>6. cCache'.map = DpTable(g.profile, g.mask) /\ CacheSound'
  <2> HIDE DEF g
  <2>1. CASE cCache.key = <<g.profile, g.mask>>
    BY <1>5, <2>1 DEF CacheSound
  <2>2. CASE cCache.key # <<g.profile, g.mask>>
    <3>1. cCache'.key = <<g.profile, g.mask>> /\ cCache'.map = DpTable(g.profile, g.mask)
      BY <1>5, <2>2
    <3> QED BY <3>1 DEF CacheSound
  <2> QED BY <2>1, <2>2
<1>7. Len(c) = n
  <2>1. /\ cPos + 5 \in Nat /\ n \in Nat /\ cPos + 5 + n <= Len(cIn)
        /\ c = SubSeq(cIn, cPos + 5 + 1, cPos + 5 + n)
    <3>1. c = SubSeq(cIn, cPos + 6, cPos + 5 + n)
      BY <1>2 DEF SegmentCharsAt
    <3>2. Len(cIn) \in Nat /\ cPos \in Nat
      BY LenProperties
    <3> HIDE DEF n, c
    <3>3. cPos + 6 = cPos + 5 + 1
      BY <3>2
    <3> QED BY <1>2, <3>1, <3>2, <3>3
  <2> HIDE DEF n, c
  <2> QED BY <2>1, PartOf
<1>8. SegmentBytes(g, c) = b
  <2>1. SegmentBytes(g, c) = [j \in 1..Len(c) |-> DpTable(g.profile, g.mask)[c[j]]]
    BY DEF SegmentBytes
  <2> HIDE DEF n, c, g
  <2> QED BY <1>6, <1>7, <2>1
<1>9. cBuf' = cBuf \o b /\ C!Step(5 + n)
  BY <1>1, <1>2 DEF C!Write
<1> HIDE DEF n, c, g, b
<1> QED BY <1>4, <1>6, <1>8, <1>9 DEF CReads, C!Step

\* What is left at the end of the text.
LEMMA CLastIs ==
  ASSUME cIn \in Seq(Char), cPos \in 0..Len(cIn), C!FinalHere, NEW n, n = Len(cIn) - cPos
  PROVE  /\ C!Remaining = n /\ n \in 1..4 /\ cPos # Len(cIn) /\ n < 5 /\ Smaller(n, 5) = n
         /\ C!AllDigits(C!Final) <=> Clean(cIn, cPos, n)
         /\ C!TailAccepted(C!Values(C!Final)) <=> TailAccepted(Values(C!Final))
         /\ TokenLen(cIn, cPos) =
              IF n > 1 /\ Clean(cIn, cPos, n) /\ TailAccepted(Values(C!Final)) THEN n ELSE 0
         /\ TokenBytes(cIn, cPos) = C!TailBytes(C!Values(C!Final))
<1>1. Len(cIn) \in Nat /\ cPos \in Nat /\ C!Remaining = n /\ n \in 1..4
  BY LenProperties DEF C!FinalHere, C!Remaining
<1>2. n < 5 /\ cPos # Len(cIn) /\ Len(cIn) - cPos < 5
  BY <1>1
<1>3. C!Final = SubSeq(cIn, cPos + 1, Len(cIn))
  BY DEF C!Final
<1> DEFINE c == C!Final
<1> HIDE DEF c
<1>4. c = SubSeq(cIn, cPos + 1, Len(cIn))
  BY <1>3 DEF c
<1>5. /\ Smaller(n, 5) = n /\ (Valued(c) <=> Clean(cIn, cPos, n))
      /\ TokenLen(cIn, cPos) = IF n > 1 /\ Clean(cIn, cPos, n) /\ TailAccepted(Values(c)) THEN n ELSE 0
      /\ TokenBytes(cIn, cPos) = TailBytes(Values(c))
  BY <1>2, <1>4, PortLast
<1>6. C!AllDigits(c) <=> Valued(c)
  BY SameFormat DEF C!AllDigits, Valued
<1>7. C!TailAccepted(C!Values(c)) = TailAccepted(Values(c)) /\ C!TailBytes(C!Values(c)) = TailBytes(Values(c))
  BY SameFormat
<1> QED BY <1>1, <1>2, <1>5, <1>6, <1>7 DEF c

\* The last group read is the token there.
LEMMA CReadFinal ==
  ASSUME cIn \in Seq(Char), cPos \in 0..Len(cIn), CacheSound, C!ReadFinal
  PROVE  CReads
<1> DEFINE n == Len(cIn) - cPos
<1>1. /\ C!FinalHere /\ C!Remaining # 1 /\ C!AllDigits(C!Final)
      /\ C!TailAccepted(C!Values(C!Final))
      /\ cBuf' = cBuf \o C!TailBytes(C!Values(C!Final)) /\ C!Step(C!Remaining) /\ cCache' = cCache
  BY DEF C!ReadFinal, C!Write
<1>2. /\ C!Remaining = n /\ n \in 1..4
      /\ C!AllDigits(C!Final) <=> Clean(cIn, cPos, n)
      /\ C!TailAccepted(C!Values(C!Final)) <=> TailAccepted(Values(C!Final))
      /\ TokenLen(cIn, cPos) =
           IF n > 1 /\ Clean(cIn, cPos, n) /\ TailAccepted(Values(C!Final)) THEN n ELSE 0
      /\ TokenBytes(cIn, cPos) = C!TailBytes(C!Values(C!Final))
  BY <1>1, CLastIs
<1> HIDE DEF n
<1>3. TokenLen(cIn, cPos) = n /\ n # 0
  BY <1>1, <1>2
<1>4. CacheSound'
  BY <1>1 DEF CacheSound
<1> QED BY <1>1, <1>2, <1>3, <1>4 DEF CReads, C!Step

\* One that is rejected is rejected for a foreign character first.
LEMMA CRejectFinal ==
  ASSUME cIn \in Seq(Char), cPos \in 0..Len(cIn), C!RejectFinal
  PROVE  CRejects
<1> DEFINE n == Len(cIn) - cPos
<1>1. /\ C!FinalHere
      /\ \/ ~C!AllDigits(C!Final) /\ C!Return("INVALID_CHAR")
         \/ /\ C!AllDigits(C!Final) /\ (C!Remaining = 1 \/ ~C!TailAccepted(C!Values(C!Final)))
            /\ C!Return("INVALID_FINAL_BLOCK")
  BY DEF C!RejectFinal
<1>2. /\ C!Remaining = n /\ n \in 1..4 /\ cPos # Len(cIn) /\ n < 5 /\ Smaller(n, 5) = n
      /\ C!AllDigits(C!Final) <=> Clean(cIn, cPos, n)
      /\ C!TailAccepted(C!Values(C!Final)) <=> TailAccepted(Values(C!Final))
      /\ TokenLen(cIn, cPos) =
           IF n > 1 /\ Clean(cIn, cPos, n) /\ TailAccepted(Values(C!Final)) THEN n ELSE 0
  BY <1>1, CLastIs
<1>3. Stuck(cIn, cPos)
  <2>1. TokenLen(cIn, cPos) = 0
    <3> HIDE DEF n
    <3> QED BY <1>1, <1>2
  <2> QED BY <1>2, <2>1, LenProperties DEF Stuck
<1>4. CASE ~Clean(cIn, cPos, n)
  <2>1. Fault(cIn, cPos) = FirstBad(cIn, cPos, n)
    BY <1>2, <1>4 DEF Fault
  <2>2. Fault(cIn, cPos).kind = "InvalidCharacter"
    BY <2>1 DEF FirstBad, Error
  <2>3. C!Return("INVALID_CHAR")
    BY <1>1, <1>2, <1>4
  <2> QED BY <1>3, <2>2, <2>3, StatusIs DEF CRejects
<1>5. CASE Clean(cIn, cPos, n)
  <2>1. Fault(cIn, cPos) = Error("InvalidFinalBlock", cPos)
    BY <1>2, <1>5 DEF Fault
  <2>2. Fault(cIn, cPos).kind = "InvalidFinalBlock"
    BY <2>1 DEF Error
  <2>3. C!Return("INVALID_FINAL_BLOCK")
    BY <1>1, <1>2, <1>5
  <2> QED BY <1>3, <2>2, <2>3, StatusIs DEF CRejects
<1> QED BY <1>4, <1>5

\* One step of the scan.
LEMMA CScans ==
  ASSUME cIn \in Seq(Char), cPos \in 0..Len(cIn), CacheSound, C!Scan
  PROVE  /\ C!Scanning
         /\ CReads \/ CRejects \/ C!Return("ALLOC") \/ (cPos = Len(cIn) /\ C!Return("OK"))
<1>1. C!Scanning
  BY DEF C!Scan, C!RejectGroup, C!ReadBlock, C!RejectSignal, C!ReadTail, C!ReadFill,
         C!RejectCutSegment, C!RejectSegment, C!ReadSegment, C!RejectFinal, C!ReadFinal, C!Finish,
         C!Signals, C!SegmentHere, C!GroupHere, C!FinalHere
<1>2. CASE C!Finish
  <2>1. cPos = Len(cIn)
    <3>1. Len(cIn) - cPos = 0 /\ Len(cIn) \in Nat
      BY <1>2, LenProperties DEF C!Finish, C!Remaining
    <3> QED BY <3>1
  <2> QED BY <1>1, <1>2, <2>1 DEF C!Finish
<1> QED
  BY <1>1, <1>2, CRejectGroup, CReadBlock, CRejectSignal, CReadTail, CReadFill, CRejectCutSegment,
     CRejectSegment, CReadSegment, CRejectFinal, CReadFinal
  DEF C!Scan

-----------------------------------------------------------------------------
(* The C call around its scans.                                            *)

\* What an answer makes an entry point return, and leave to its caller.
Hands(status, heap, result, r) ==
  /\ status = StatusOf(r.kind)
  /\ r.kind = "OK" => heap = {"out"} /\ result = [set |-> TRUE, data |-> r.data]
  /\ r.kind # "OK" => heap = {} /\ result = [set |-> FALSE]

\* The C call: what it scans, what it has read, and what it has answered.
CCall ==
  /\ text \in Seq(Char) /\ cLegal \in BOOLEAN
  /\ cPhase \in {"call", "scan", "rescan", "scanned", "rescanned", "returned"}
  /\ cIn \in Seq(Char) /\ cPos \in 0..Len(cIn) /\ cBuf \in Seq(Byte) /\ CacheSound
  /\ cPhase \in {"call", "scan", "scanned"} => cIn = text
  /\ cPhase \in {"rescan", "rescanned"} => cIn = WithoutSpace(text)
  /\ cPhase = "call" => cPos = 0 /\ cBuf = <<>> /\ cHeap = {}
  /\ cPhase \notin {"call", "returned"} => cLegal
  /\ cPhase # "returned" => cResult = C!Unset

CScanSound ==
  cPhase \in {"scan", "rescan"} =>
    \A f : Answers(cIn, f) => f[0] = After(cBuf, f[cPos])

CScannedSound ==
  cPhase \in {"scanned", "rescanned"} =>
    cStatus = "ALLOC" \/ \A f : Answers(cIn, f) =>
                           /\ cStatus = StatusOf(f[0].kind)
                           /\ f[0].kind = "OK" => f[0] = Decoded(cBuf)

CReturnedSound ==
  C!Returned =>
    /\ ~cLegal => cStatus = "INVALID_ARGUMENT" /\ cHeap = {} /\ cResult = [set |-> FALSE]
    /\ cLegal => \/ cStatus = "ALLOC" /\ cHeap = {} /\ cResult = [set |-> FALSE]
                 \/ \A g : Answers(WithoutSpace(text), g) =>
                          Hands(cStatus, cHeap, cResult, g[0])

CInv == CCall /\ CScanSound /\ CScannedSound /\ CReturnedSound

\* No bytes before an answer.
LEMMA AfterNothing ==
  ASSUME NEW r \in Verdicts
  PROVE  After(<<>>, r) = r
<1>1. CASE r.kind # "OK"
  BY <1>1 DEF After
<1>2. CASE r.kind = "OK"
  <2>1. r \in [kind : {"OK"}, data : Seq(Byte)]
    BY <1>2 DEF Verdicts, Faults
  <2>2. r.data \in Seq(Byte) /\ r = [kind |-> "OK", data |-> r.data]
    BY <2>1
  <2>3. <<>> \o r.data = r.data
    BY <2>2
  <2> QED BY <1>2, <2>2, <2>3 DEF After, Decoded
<1> QED BY <1>1, <1>2

\* Only an answer that is OK has the status OK.
LEMMA StatusOK ==
  ASSUME NEW r \in Verdicts
  PROVE  /\ StatusOf(r.kind) = "OK" <=> r.kind = "OK"
         /\ StatusOf(r.kind) # "ALLOC"
<1>1. r.kind \in Faults \cup {"OK"}
  BY DEF Verdicts
<1> QED BY <1>1, StatusIs DEF Faults

\* The initial states satisfy the invariant of the C call.
LEMMA CInitInv == C!Init => CInv
<1> SUFFICES ASSUME C!Init PROVE CInv
  OBVIOUS
<1>1. /\ text \in Seq(Char) /\ cLegal \in BOOLEAN /\ cPhase = "call" /\ cIn = text /\ cPos = 0
      /\ cBuf = <<>> /\ cCache = C!NoKey /\ cHeap = {} /\ cResult = C!Unset
  BY DEF C!Init
<1>2. CacheSound
  <2>1. cCache.key = <<>>
    BY <1>1 DEF C!NoKey
  <2>2. \A q, m : <<q, m>> # <<>>
    <3> TAKE q, m
    <3>1. Len(<<q, m>>) = 2 /\ Len(<<>>) = 0
      OBVIOUS
    <3> QED BY <3>1
  <2> QED BY <2>1, <2>2 DEF CacheSound
<1>3. cPos \in 0..Len(cIn)
  BY <1>1, LenProperties
<1>4. CCall
  BY <1>1, <1>2, <1>3 DEF CCall
<1> QED BY <1>1, <1>4 DEF CInv, CScanSound, CScannedSound, CReturnedSound, C!Returned

\* What a step of the scan leaves.
LEMMA CScanKeeps ==
  ASSUME CInv, C!Scan
  PROVE  CInv' /\ text' = text
<1>1. /\ text \in Seq(Char) /\ cLegal \in BOOLEAN /\ cIn \in Seq(Char) /\ cPos \in 0..Len(cIn)
      /\ cBuf \in Seq(Byte) /\ CacheSound /\ Len(cIn) \in Nat
  BY LenProperties DEF CInv, CCall
<1>2. cPhase \in {"scan", "rescan"}
  BY <1>1, CScans DEF C!Scanning
<1>3. \A f : Answers(cIn, f) => f[0] = After(cBuf, f[cPos])
  BY <1>2 DEF CInv, CScanSound
<1>4. ASSUME NEW f, Answers(cIn, f)
      PROVE  f[0] \in Verdicts /\ f[cPos] \in Verdicts /\ f[0].kind = f[cPos].kind
             /\ (f[cPos].kind # "OK" => f[0] = f[cPos])
  <2>1. f[0] \in Verdicts /\ f[cPos] \in Verdicts
    BY <1>1, <1>4, AnswerType
  <2> QED BY <1>1, <1>3, <1>4, <2>1, AfterIs
<1>5. ASSUME NEW a, C!Return(a),
             a = "ALLOC" \/ \A f : Answers(cIn, f) => /\ a = StatusOf(f[0].kind)
                                                      /\ f[0].kind = "OK" => f[0] = Decoded(cBuf)
      PROVE  CInv' /\ text' = text
  <2>1. /\ cPhase' = (IF cPhase = "scan" THEN "scanned" ELSE "rescanned") /\ cStatus' = a
        /\ UNCHANGED <<text, cLegal, cIn, cPos, cBuf, cCache, cHeap, cResult>>
    BY <1>5 DEF C!Return
  <2>2. CCall'
    <3>1. CacheSound'
      BY <1>1, <2>1 DEF CacheSound
    <3> QED BY <1>1, <1>2, <2>1, <3>1 DEF CInv, CCall
  <2>3. CScannedSound'
    BY <1>5, <2>1 DEF CScannedSound
  <2> QED BY <1>2, <2>1, <2>2, <2>3 DEF CInv, CScanSound, CReturnedSound, C!Returned
<1>6. CASE CReads
  <2> DEFINE n == TokenLen(cIn, cPos)
             b == TokenBytes(cIn, cPos)
  <2>1. /\ n # 0 /\ cBuf' = cBuf \o b /\ cPos' = cPos + n /\ CacheSound'
        /\ UNCHANGED <<text, cLegal, cPhase, cIn, cStatus, cHeap, cResult>>
    BY <1>6 DEF CReads
  <2>2. cPos # Len(cIn) /\ ~Stuck(cIn, cPos)
    <3>1. n \in 0..(Len(cIn) - cPos)
      BY <1>1, TokenRange
    <3> QED BY <1>1, <2>1, <3>1 DEF Stuck
  <2>3. b \in Seq(Byte) /\ cPos + n \in (cPos + 1)..Len(cIn)
    <3>1. PICK f : Answers(cIn, f)
      BY <1>1, AnswersExist
    <3> QED BY <1>1, <2>2, <3>1, AnswerSteps
  <2>4. ASSUME NEW f, Answers(cIn, f) PROVE f[0] = After(cBuf \o b, f[cPos + n])
    <3>1. f[cPos] = After(b, f[cPos + n])
      BY <1>1, <2>2, <2>4, AnswerSteps
    <3>2. f[cPos + n] \in Verdicts
      BY <1>1, <2>3, <2>4, AnswerType
    <3>3. After(cBuf, After(b, f[cPos + n])) = After(cBuf \o b, f[cPos + n])
      BY <1>1, <2>3, <3>2, AfterIs
    <3> QED BY <1>3, <2>4, <3>1, <3>3
  <2>5. cPos' \in 0..Len(cIn) /\ cBuf' \in Seq(Byte)
    <3> HIDE DEF n, b
    <3> QED BY <1>1, <2>1, <2>3, ConcatProperties
  <2> HIDE DEF n, b
  <2>6. CCall'
    BY <1>1, <1>2, <2>1, <2>5 DEF CInv, CCall
  <2>7. CScanSound'
    BY <2>1, <2>4 DEF CScanSound
  <2> QED BY <1>2, <2>1, <2>6, <2>7 DEF CInv, CScannedSound, CReturnedSound, C!Returned
<1>7. CASE CRejects
  <2> DEFINE a == StatusOf(Fault(cIn, cPos).kind)
  <2>1. Stuck(cIn, cPos) /\ C!Return(a)
    BY <1>7 DEF CRejects
  <2>2. ASSUME NEW f, Answers(cIn, f)
        PROVE  a = StatusOf(f[0].kind) /\ f[0].kind # "OK"
    <3>1. f[cPos] = Fault(cIn, cPos) /\ f[cPos].kind # "OK"
      BY <1>1, <2>1, <2>2, AnswerSteps
    <3> QED BY <1>4, <2>2, <3>1
  <2> HIDE DEF a
  <2> QED BY <1>5, <2>1, <2>2
<1>8. CASE C!Return("ALLOC")
  BY <1>5, <1>8
<1>9. CASE cPos = Len(cIn) /\ C!Return("OK")
  <2>1. ASSUME NEW f, Answers(cIn, f)
        PROVE  "OK" = StatusOf(f[0].kind) /\ f[0] = Decoded(cBuf)
    <3>1. f[cPos] = Decoded(<<>>)
      BY <1>1, <1>9, <2>1, AnswerSteps
    <3>2. f[cPos].kind = "OK" /\ f[cPos].data = <<>>
      BY <3>1 DEF Decoded
    <3>3. f[0] = Decoded(cBuf \o <<>>)
      <4>1. f[0] = After(cBuf, f[cPos]) /\ f[cPos] \in Verdicts
        BY <1>3, <1>4, <2>1
      <4>2. After(cBuf, f[cPos]) = Decoded(cBuf \o f[cPos].data)
        BY <1>1, <3>2, <4>1, AfterIs
      <4> QED BY <3>2, <4>1, <4>2
    <3>4. cBuf \o <<>> = cBuf
      BY <1>1
    <3> QED BY <1>4, <2>1, <3>2, <3>3, <3>4, StatusIs
  <2> QED BY <1>5, <1>9, <2>1
<1> QED BY <1>1, <1>6, <1>7, <1>8, <1>9, CScans

\* A text without white space is left as it is.
LEMMA NothingToDrop ==
  ASSUME NEW s \in Seq(Char), \A i \in 1..Len(s) : s[i] \notin Whitespace
  PROVE  WithoutSpace(s) = s
BY WithoutSpaceFacts

\* What is accepted has none.
LEMMA AcceptedWhole ==
  ASSUME NEW s \in Seq(Char), NEW f, Answers(s, f), f[0].kind = "OK"
  PROVE  WithoutSpace(s) = s
<1>1. Len(s) \in Nat /\ 0 \in 0..Len(s)
  BY LenProperties
<1>2. Clean(s, 0, Len(s) - 0)
  BY <1>1, AnswerClean
<1>3. \A i \in 1..Len(s) : i \in (0 + 1)..(0 + (Len(s) - 0))
  BY <1>1
<1>4. \A i \in 1..Len(s) : s[i] \notin Whitespace
  BY <1>2, <1>3, WireAssumption DEF Clean
<1> QED BY <1>4, NothingToDrop

\* The steps of the call before and after a scan.
LEMMA CCallKeeps ==
  ASSUME CInv, C!RefuseArguments \/ C!AllocateOutput \/ C!Rescan
  PROVE  CInv' /\ text' = text
<1>1. /\ text \in Seq(Char) /\ cLegal \in BOOLEAN /\ cIn \in Seq(Char) /\ cPos \in 0..Len(cIn)
      /\ cBuf \in Seq(Byte) /\ CacheSound /\ Len(cIn) \in Nat
      /\ cPhase # "returned" => cResult = [set |-> FALSE]
  BY LenProperties DEF CInv, CCall, C!Unset
<1>2. CASE C!RefuseArguments
  <2>1. /\ cPhase = "call" /\ ~cLegal /\ cPhase' = "returned" /\ cStatus' = "INVALID_ARGUMENT"
        /\ UNCHANGED <<text, cLegal, cIn, cPos, cBuf, cCache, cHeap, cResult>>
    BY <1>2 DEF C!RefuseArguments
  <2>2. cHeap = {} /\ cResult = [set |-> FALSE]
    BY <1>1, <2>1 DEF CInv, CCall
  <2>3. CacheSound'
    BY <1>1, <2>1 DEF CacheSound
  <2>4. CCall'
    BY <1>1, <2>1, <2>3 DEF CCall
  <2>5. CReturnedSound'
    BY <2>1, <2>2 DEF CReturnedSound
  <2> QED BY <2>1, <2>4, <2>5 DEF CInv, CScanSound, CScannedSound
<1>3. CASE C!AllocateOutput
  <2>1. /\ cPhase = "call" /\ cLegal
        /\ UNCHANGED <<text, cLegal, cIn, cPos, cBuf, cCache, cResult>>
        /\ \/ cPhase' = "scan"
           \/ cPhase' = "returned" /\ cStatus' = "ALLOC" /\ cHeap' = cHeap
    BY <1>3 DEF C!AllocateOutput
  <2>2. cIn = text /\ cPos = 0 /\ cBuf = <<>> /\ cHeap = {}
    BY <2>1 DEF CInv, CCall
  <2>3. CacheSound'
    BY <1>1, <2>1 DEF CacheSound
  <2>4. CCall'
    BY <1>1, <2>1, <2>2, <2>3 DEF CInv, CCall
  <2>5. ASSUME NEW f, Answers(cIn, f) PROVE f[0] = After(cBuf, f[cPos])
    <3>1. f[0] \in Verdicts
      BY <1>1, <2>2, <2>5, AnswerType
    <3> QED BY <2>2, <3>1, AfterNothing
  <2>6. CScanSound'
    BY <2>1, <2>5 DEF CScanSound
  <2>7. CReturnedSound'
    BY <1>1, <2>1, <2>2 DEF CReturnedSound, C!Returned
  <2> QED BY <2>1, <2>4, <2>6, <2>7 DEF CInv, CScannedSound
<1>4. CASE C!Rescan
  <2>1. /\ cPhase = "scanned" /\ UNCHANGED <<text, cLegal, cResult>>
        /\ \/ /\ cPhase' = "rescan" /\ cIn' = C!WithoutSpace(text) /\ cPos' = 0 /\ cBuf' = <<>>
              /\ cCache' = C!NoKey
           \/ /\ cPhase' = "returned" /\ cStatus' = "ALLOC" /\ cHeap' = {}
              /\ UNCHANGED <<cIn, cPos, cBuf, cCache>>
    BY <1>4 DEF C!Rescan, C!Rescans
  <2>2. cLegal
    BY <2>1 DEF CInv, CCall
  <2>3. CASE /\ cPhase' = "rescan" /\ cIn' = C!WithoutSpace(text) /\ cPos' = 0 /\ cBuf' = <<>>
             /\ cCache' = C!NoKey
    <3>1. cIn' = WithoutSpace(text) /\ cIn' \in Seq(Char)
      BY <1>1, <2>3, SameFormat, WithoutSpaceFacts
    <3>2. cPos' \in 0..Len(cIn')
      BY <2>3, <3>1, LenProperties
    <3>3. CacheSound'
      <4>1. cCache'.key = <<>>
        BY <2>3 DEF C!NoKey
      <4>2. \A q, m : <<q, m>> # <<>>
        <5> TAKE q, m
        <5>1. Len(<<q, m>>) = 2 /\ Len(<<>>) = 0
          OBVIOUS
        <5> QED BY <5>1
      <4> QED BY <4>1, <4>2 DEF CacheSound
    <3>4. cBuf' \in Seq(Byte)
      BY <2>3
    <3>5. CCall'
      BY <1>1, <2>1, <2>2, <2>3, <3>1, <3>2, <3>3, <3>4 DEF CInv, CCall
    <3>6. ASSUME NEW f, Answers(cIn', f) PROVE f[0] = After(cBuf', f[cPos'])
      <4>1. f[0] \in Verdicts
        BY <2>3, <3>1, <3>2, <3>6, AnswerType
      <4> QED BY <2>3, <4>1, AfterNothing
    <3>7. CScanSound'
      BY <3>6 DEF CScanSound
    <3> QED BY <2>1, <2>3, <3>5, <3>7 DEF CInv, CScannedSound, CReturnedSound, C!Returned
  <2>4. CASE /\ cPhase' = "returned" /\ cStatus' = "ALLOC" /\ cHeap' = {}
             /\ UNCHANGED <<cIn, cPos, cBuf, cCache>>
    <3>1. CacheSound'
      BY <1>1, <2>4 DEF CacheSound
    <3>2. CCall'
      BY <1>1, <2>1, <2>2, <2>4, <3>1 DEF CCall
    <3>3. CReturnedSound'
      BY <1>1, <2>1, <2>2, <2>4 DEF CReturnedSound
    <3> QED BY <2>1, <2>4, <3>2, <3>3 DEF CInv, CScanSound, CScannedSound
  <2> QED BY <2>1, <2>3, <2>4
<1> QED BY <1>2, <1>3, <1>4

\* The call's end.
LEMMA CEndKeeps ==
  ASSUME CInv, C!Fail \/ C!Succeed
  PROVE  CInv' /\ text' = text
<1>1. /\ text \in Seq(Char) /\ cLegal \in BOOLEAN /\ cIn \in Seq(Char) /\ cPos \in 0..Len(cIn)
      /\ cBuf \in Seq(Byte) /\ CacheSound /\ Len(cIn) \in Nat
      /\ cPhase # "returned" => cResult = [set |-> FALSE]
  BY LenProperties DEF CInv, CCall, C!Unset
<1>2. /\ cPhase \in {"scanned", "rescanned"} /\ cPhase' = "returned"
      /\ UNCHANGED <<text, cLegal, cIn, cPos, cBuf, cCache, cStatus>>
      /\ C!Fail => /\ cStatus # "OK" /\ cHeap' = {} /\ cResult' = cResult
                   /\ cPhase = "scanned" => ~C!HasWhitespace
      /\ C!Succeed => /\ cStatus = "OK" /\ cHeap' = {"out"}
                      /\ cResult' = [set |-> TRUE, data |-> cBuf]
  BY DEF C!Fail, C!Succeed, C!Released
<1>3. cLegal /\ cResult = [set |-> FALSE]
  BY <1>1, <1>2 DEF CInv, CCall
<1>4. CacheSound'
  BY <1>1, <1>2 DEF CacheSound
<1>5. CCall'
  BY <1>1, <1>2, <1>3, <1>4 DEF CCall
<1>6. ASSUME cStatus # "ALLOC", NEW g, Answers(WithoutSpace(text), g)
      PROVE  Hands(cStatus, cHeap', cResult', g[0])
  <2>1. \A f : Answers(cIn, f) => /\ cStatus = StatusOf(f[0].kind)
                                  /\ f[0].kind = "OK" => f[0] = Decoded(cBuf)
    BY <1>2, <1>6 DEF CInv, CScannedSound
  <2>2. \A f : Answers(cIn, f) => f[0] \in Verdicts
    <3>1. 0 \in 0..Len(cIn)
      BY <1>1
    <3> QED BY <1>1, <3>1, AnswerType
  <2>3. cIn = WithoutSpace(text)
    <3>1. CASE cPhase = "rescanned"
      BY <3>1 DEF CInv, CCall
    <3>2. CASE cPhase = "scanned"
      <4>1. cIn = text
        BY <3>2 DEF CInv, CCall
      <4>2. CASE C!Fail
        BY <1>1, <1>2, <3>2, <4>1, <4>2, NothingToDrop DEF C!HasWhitespace
      <4>3. CASE C!Succeed
        <5>1. PICK f : Answers(cIn, f)
          BY <1>1, AnswersExist
        <5>2. f[0].kind = "OK"
          BY <1>2, <2>1, <2>2, <4>3, <5>1, StatusOK
        <5> QED BY <1>1, <4>1, <5>1, <5>2, AcceptedWhole
      <4> QED BY <4>2, <4>3
    <3> QED BY <1>2, <3>1, <3>2
  <2>4. /\ cStatus = StatusOf(g[0].kind) /\ (g[0].kind = "OK" => g[0] = Decoded(cBuf))
        /\ g[0] \in Verdicts
    BY <1>6, <2>1, <2>2, <2>3
  <2>5. cStatus = "OK" <=> g[0].kind = "OK"
    BY <2>4, StatusOK
  <2>6. g[0].kind = "OK" => g[0].data = cBuf
    BY <2>4 DEF Decoded
  <2> QED BY <1>2, <1>3, <2>4, <2>5, <2>6 DEF Hands
<1>7. CReturnedSound'
  <2>1. cStatus = "ALLOC" => cHeap' = {} /\ cResult' = [set |-> FALSE]
    BY <1>2, <1>3
  <2> QED BY <1>2, <1>3, <1>6, <2>1 DEF CReturnedSound
<1> QED BY <1>2, <1>5, <1>7 DEF CInv, CScanSound, CScannedSound

\* Every step of the C decoder keeps it.
LEMMA CNextKeeps ==
  ASSUME CInv, C!Next
  PROVE  CInv' /\ text' = text
BY CScanKeeps, CCallKeeps, CEndKeeps DEF C!Next

\* So does a step that is not one.
LEMMA CRestKeeps ==
  ASSUME CInv, UNCHANGED <<text, cVars>>
  PROVE  CInv'
<1>1. UNCHANGED <<text, cLegal, cPhase, cIn, cPos, cBuf, cCache, cStatus, cHeap, cResult>>
  BY DEF cVars
<1>2. CacheSound => CacheSound'
  BY <1>1 DEF CacheSound
<1> QED BY <1>1, <1>2 DEF CInv, CCall, CScanSound, CScannedSound, CReturnedSound, C!Returned

-----------------------------------------------------------------------------
(* Both decoders behind one interface.                                     *)

\* The Rust entry point: what it has returned.
RustSide ==
  /\ Answered => cLegal
  /\ rStatus = Pending => rHeap = {} /\ rResult = [set |-> FALSE]
  /\ rStatus # Pending =>
       /\ C!Returned
       /\ ~cLegal => rStatus = "INVALID_ARGUMENT" /\ rHeap = {} /\ rResult = [set |-> FALSE]
       /\ cLegal => /\ Answered
                    /\ \/ /\ rStatus = "ALLOC" /\ rHeap = {} /\ rResult = [set |-> FALSE]
                          /\ \A g : Answers(Significant, g) => g[0].kind = "OK"
                       \/ \A g : Answers(Significant, g) =>
                                Hands(rStatus, rHeap, rResult, g[0])

\* The inductive invariant of the two decoders.
BothInv == DecInv /\ SourceSound /\ AnswerSound /\ CInv /\ RustSide

\* The initial states satisfy the invariant of both.
LEMMA InitBothInv == DifferentialInit => BothInv
<1> SUFFICES ASSUME DifferentialInit PROVE BothInv
  OBVIOUS
<1>1. Init /\ C!Init /\ rStatus = Pending /\ rHeap = {} /\ rResult = C!Unset
  BY DEF DifferentialInit
<1>2. DecInv /\ SourceSound /\ AnswerSound /\ CInv
  BY <1>1, InitDecInv, InitSourceSound, InitAnswerSound, CInitInv
<1>3. RustSide
  <2>1. ~Answered
    BY <1>1 DEF Init, Answered
  <2> QED BY <1>1, <2>1 DEF RustSide, C!Unset
<1> QED BY <1>2, <1>3 DEF BothInv

\* A step that leaves the Rust decoder alone, or is one of it.
LEMMA DecoderKeeps ==
  ASSUME DecInv, SourceSound, AnswerSound, [Next]_vars
  PROVE  DecInv' /\ SourceSound' /\ AnswerSound'
<1>1. DecInv'
  BY NextKeeps
<1>2. SourceSound'
  BY NextSourceSound
<1> QED BY <1>1, <1>2, NextAnswerSound

\* Once answered it makes no step.
LEMMA AnsweredStops ==
  ASSUME Answered
  PROVE  ~Next
<1>1. ~Scanning /\ ~Reporting
  BY DEF Answered, Scanning, Reporting
<1>2. Scan => Scanning
  BY DEF Scan, ReadBlocks, ReadLoneBlock, ReadTail, ReadFill, ReadSegment, ReadFinal, Accept,
         RejectGroup, RejectSignal, RejectShortSegment, RejectSegment, RejectFinal, Alone,
         SegmentHere, TailHere
<1>3. Report => Reporting
  BY DEF Report, ReportGroup, ReportSignal, PassGroup, ReportSegment, PassSegment, ReportEnd,
         FullGroup, CleanGroup, AtSegment
<1> QED BY <1>1, <1>2, <1>3 DEF Next

\* No step of the C decoder changes the caller's pointers.
LEMMA CLegalStays == C!Next => cLegal' = cLegal
BY DEF C!Next, C!RefuseArguments, C!AllocateOutput, C!Rescan, C!Fail, C!Succeed,
       C!Scan, C!RejectGroup, C!ReadBlock, C!RejectSignal, C!ReadTail, C!ReadFill,
       C!RejectCutSegment, C!RejectSegment, C!ReadSegment, C!RejectFinal, C!ReadFinal, C!Finish,
       C!Return, C!Write, C!Step, C!WriteFill

\* The C call goes on.
LEMMA CDecodesKeeps ==
  ASSUME BothInv, CDecodes
  PROVE  BothInv'
<1>1. /\ C!Next /\ UNCHANGED <<sent, tier, src, pos, out, w, table, read, verdict>>
      /\ UNCHANGED <<rStatus, rHeap, rResult>>
  BY DEF CDecodes, rVars
<1>2. CInv' /\ text' = text
  BY <1>1, CNextKeeps DEF BothInv
<1>3. DecInv' /\ SourceSound' /\ AnswerSound'
  <2>1. UNCHANGED vars
    BY <1>1, <1>2 DEF vars
  <2> QED BY <2>1, DecoderKeeps DEF BothInv
<1>4. ~C!Returned
  BY <1>1
  DEF C!Next, C!RefuseArguments, C!AllocateOutput, C!Rescan, C!Rescans, C!Fail, C!Succeed,
      C!Scan, C!RejectGroup, C!ReadBlock, C!RejectSignal, C!ReadTail, C!ReadFill,
      C!RejectCutSegment, C!RejectSegment, C!ReadSegment, C!RejectFinal, C!ReadFinal, C!Finish,
      C!Signals, C!SegmentHere, C!GroupHere, C!FinalHere, C!Scanning, C!Returned
<1>5. rStatus = Pending /\ RustSide'
  <2>1. cLegal' = cLegal
    BY <1>1, CLegalStays
  <2> QED BY <1>1, <1>4, <2>1 DEF BothInv, RustSide, Answered
<1> QED BY <1>2, <1>3, <1>5 DEF BothInv

\* The Rust entry point refuses, decodes, returns, or does nothing.
LEMMA RustRefusesKeeps ==
  ASSUME BothInv, RustRefuses
  PROVE  BothInv'
<1>1. /\ C!Returned /\ rStatus = Pending /\ ~cLegal /\ rStatus' = "INVALID_ARGUMENT"
      /\ UNCHANGED <<vars, cVars, rHeap, rResult>>
  BY DEF RustRefuses
<1>2. UNCHANGED vars /\ UNCHANGED <<text, cVars>>
  BY <1>1 DEF vars
<1>3. DecInv' /\ SourceSound' /\ AnswerSound' /\ CInv'
  BY <1>2, DecoderKeeps, CRestKeeps DEF BothInv
<1>4. RustSide'
  BY <1>1, <1>2 DEF BothInv, RustSide, C!Returned, cVars, Pending, Answered, vars
<1> QED BY <1>3, <1>4 DEF BothInv

\* The Rust entry point's decoder makes a step.
LEMMA RustDecodesKeeps ==
  ASSUME BothInv, RustDecodes
  PROVE  BothInv'
<1>1. C!Returned /\ cLegal /\ Next /\ UNCHANGED <<cVars, rVars>>
  BY DEF RustDecodes
<1>2. rStatus = Pending
  BY <1>1, AnsweredStops DEF BothInv, RustSide
<1>3. DecInv' /\ SourceSound' /\ AnswerSound'
  BY <1>1, DecoderKeeps DEF BothInv
<1>4. text' = text
  BY <1>1, StaysSent DEF Next
<1>5. CInv'
  BY <1>1, <1>4, CRestKeeps DEF BothInv
<1>6. RustSide'
  BY <1>1, <1>2 DEF BothInv, RustSide, rVars, cVars
<1> QED BY <1>3, <1>5, <1>6 DEF BothInv

\* It returns what the decoder has answered.
LEMMA RustReturnsKeeps ==
  ASSUME BothInv, RustReturns
  PROVE  BothInv'
<1>1. /\ C!Returned /\ Answered /\ rStatus = Pending
      /\ \/ /\ tier = "ok" /\ rStatus' = "OK"
            /\ rHeap' = {"out"} /\ rResult' = [set |-> TRUE, data |-> Data]
         \/ tier = "ok" /\ rStatus' = "ALLOC" /\ UNCHANGED <<rHeap, rResult>>
         \/ tier # "ok" /\ rStatus' = StatusOf(verdict.kind) /\ UNCHANGED <<rHeap, rResult>>
      /\ UNCHANGED <<vars, cVars>>
  BY DEF RustReturns
<1>2. UNCHANGED vars /\ UNCHANGED <<text, cVars>>
  BY <1>1 DEF vars
<1>3. DecInv' /\ SourceSound' /\ AnswerSound' /\ CInv'
  BY <1>2, DecoderKeeps, CRestKeeps DEF BothInv
<1>4. rHeap = {} /\ rResult = [set |-> FALSE]
  BY <1>1 DEF BothInv, RustSide
<1>5. \/ /\ rStatus' = "ALLOC" /\ rHeap' = {} /\ rResult' = [set |-> FALSE]
         /\ \A g : Answers(Significant, g) => g[0].kind = "OK"
      \/ \A g : Answers(Significant, g) => Hands(rStatus', rHeap', rResult', g[0])
  <2>1. ASSUME NEW g, Answers(Significant, g)
        PROVE  /\ tier = "ok" => g[0] = Decoded(Data)
               /\ tier # "ok" => verdict.kind = g[0].kind /\ g[0].kind # "OK"
    BY <1>1, <2>1, RustAnswers DEF BothInv
  <2>2. CASE tier = "ok" /\ rStatus' = "ALLOC" /\ UNCHANGED <<rHeap, rResult>>
    BY <1>4, <2>1, <2>2 DEF Decoded
  <2>3. CASE tier = "ok" /\ rStatus' = "OK"
             /\ rHeap' = {"out"} /\ rResult' = [set |-> TRUE, data |-> Data]
    <3> SUFFICES ASSUME NEW g, Answers(Significant, g)
                 PROVE  Hands(rStatus', rHeap', rResult', g[0])
      OBVIOUS
    <3>1. g[0].kind = "OK" /\ g[0].data = Data
      BY <2>1, <2>3 DEF Decoded
    <3> QED BY <2>3, <3>1, StatusIs DEF Hands
  <2>4. CASE tier # "ok" /\ rStatus' = StatusOf(verdict.kind) /\ UNCHANGED <<rHeap, rResult>>
    BY <1>4, <2>1, <2>4 DEF Hands
  <2> QED BY <1>1, <2>2, <2>3, <2>4
<1>6. cLegal
  BY <1>1 DEF BothInv, RustSide
<1>7. RustSide'
  <2>1. UNCHANGED <<text, tier>>
    BY <1>2 DEF vars
  <2>2. C!Returned' /\ Answered' /\ Significant' = Significant /\ cLegal' = cLegal
    BY <1>1, <1>2, <2>1 DEF C!Returned, cVars, Answered, Significant
  <2>3. \A g : Answers(Significant', g) <=> Answers(Significant, g)
    BY <2>2
  <2>4. rStatus' = Pending => rHeap' = {} /\ rResult' = [set |-> FALSE]
    BY <1>1, <1>4 DEF Pending
  <2> QED BY <1>5, <1>6, <2>2, <2>4 DEF RustSide
<1> QED BY <1>3, <1>7 DEF BothInv

\* Every step keeps the invariant of both.
LEMMA NextBothInv ==
  ASSUME BothInv, [DifferentialNext]_<<vars, cVars, rVars>>
  PROVE  BothInv'
<1>1. CASE UNCHANGED <<vars, cVars, rVars>>
  <2>1. UNCHANGED vars /\ UNCHANGED <<text, cVars>>
    BY <1>1 DEF vars
  <2>2. DecInv' /\ SourceSound' /\ AnswerSound' /\ CInv'
    BY <2>1, DecoderKeeps, CRestKeeps DEF BothInv
  <2>3. RustSide'
    BY <1>1 DEF BothInv, RustSide, rVars, cVars, vars, Answered, C!Returned, Significant
  <2> QED BY <2>2, <2>3 DEF BothInv
<1> QED
  BY <1>1, CDecodesKeeps, RustRefusesKeeps, RustDecodesKeeps, RustReturnsKeeps
  DEF DifferentialNext

\* On the same text the two answer alike.
LEMMA BothAgree ==
  ASSUME BothInv
  PROVE  VerdictsAgree
<1> SUFFICES ASSUME rStatus # Pending, "ALLOC" \notin {cStatus, rStatus}
             PROVE  /\ cStatus = rStatus /\ cResult = rResult /\ cHeap = rHeap
                    /\ cLegal => LET go == GoDecode(text)
                                 IN  /\ StatusOf(go.kind) = cStatus /\ PyAnswer.code = go.kind
                                     /\ go.kind = "OK" => {go.data, PyAnswer.data} = {cResult.data}
                                     /\ go.kind = "InvalidCharacter" =>
                                          PyAnswer.position = ByteAfter(go.offset)
                                     /\ TsDecode(text) = go
  BY DEF VerdictsAgree
<1>1. C!Returned
  BY DEF BothInv, RustSide
<1>2. CASE ~cLegal
  BY <1>1, <1>2 DEF BothInv, RustSide, CInv, CReturnedSound
<1>3. CASE cLegal
  <2>1. text \in Seq(Char) /\ Significant = WithoutSpace(text) /\ Significant \in Seq(Char)
    BY WithoutSpaceFacts DEF BothInv, CInv, CCall, Significant
  <2>2. PICK g : Answers(Significant, g)
    BY <2>1, AnswersExist
  <2> DEFINE go == g[0]
  <2>3. GoDecode(text) = go /\ TsDecode(text) = go /\ go \in Verdicts
    BY <2>1, <2>2, PortsAnswer
  <2>4. Hands(cStatus, cHeap, cResult, go)
    BY <1>1, <1>3, <2>1, <2>2 DEF BothInv, CInv, CReturnedSound
  <2>5. Answered /\ Hands(rStatus, rHeap, rResult, go)
    BY <1>3, <2>2 DEF BothInv, RustSide
  <2>6. /\ tier = "ok" => go = Decoded(Data)
        /\ tier # "ok" => verdict.kind = go.kind /\ go.kind # "OK"
    BY <2>2, <2>5, RustAnswers DEF BothInv
  <2>7. verdict.kind = "InvalidCharacter" /\ go.kind = "InvalidCharacter"
          => verdict.position = ByteAfter(go.offset)
    BY <2>2, PositionIs DEF BothInv
  <2> HIDE DEF go
  <2>8. cStatus = rStatus /\ cResult = rResult /\ cHeap = rHeap /\ StatusOf(go.kind) = cStatus
    BY <2>4, <2>5 DEF Hands
  <2>9. CASE tier = "ok"
    <3>1. go.kind = "OK" /\ go.data = Data
      BY <2>6, <2>9 DEF Decoded
    <3>2. PyAnswer = [code |-> "OK", data |-> Data]
      <4>1. verdict.kind # "InvalidCharacter"
        BY <2>9 DEF BothInv, DecInv, ReportSound, NoVerdict
      <4> QED BY <2>9, <4>1 DEF PyAnswer
    <3>3. PyAnswer.code = "OK" /\ PyAnswer.data = Data
      BY <3>2
    <3>4. cResult.data = go.data
      <4>1. cResult = [set |-> TRUE, data |-> go.data]
        BY <2>4, <3>1 DEF Hands
      <4> QED BY <4>1
    <3>5. {go.data, PyAnswer.data} = {cResult.data}
      BY <3>1, <3>3, <3>4
    <3>6. go.kind # "InvalidCharacter"
      BY <3>1
    <3> QED BY <1>3, <2>3, <2>8, <3>1, <3>3, <3>5, <3>6
  <2>10. CASE tier # "ok"
    <3>1. verdict.kind = go.kind /\ go.kind # "OK"
      BY <2>6, <2>10
    <3>2. PyAnswer.code = go.kind
      <4>1. CASE go.kind = "InvalidCharacter"
        <5>1. PyAnswer = [code |-> verdict.kind, position |-> verdict.position]
          BY <2>10, <3>1, <4>1 DEF PyAnswer
        <5> QED BY <3>1, <5>1
      <4>2. CASE go.kind # "InvalidCharacter"
        <5>1. PyAnswer = [code |-> verdict.kind]
          BY <2>10, <3>1, <4>2 DEF PyAnswer
        <5> QED BY <3>1, <5>1
      <4> QED BY <4>1, <4>2
    <3>3. go.kind = "InvalidCharacter" => PyAnswer.position = ByteAfter(go.offset)
      <4> SUFFICES ASSUME go.kind = "InvalidCharacter"
                   PROVE  PyAnswer.position = ByteAfter(go.offset)
        OBVIOUS
      <4>1. PyAnswer = [code |-> verdict.kind, position |-> verdict.position]
        BY <2>10, <3>1 DEF PyAnswer
      <4> QED BY <2>7, <3>1, <4>1
    <3> QED BY <1>3, <2>3, <2>8, <3>1, <3>2, <3>3
  <2> QED BY <2>9, <2>10
<1> QED BY <1>2, <1>3

\* The decoders of all implementations agree, on every text.
THEOREM DecodersAgree == DifferentialSpec => []VerdictsAgree
<1>1. BothInv /\ [DifferentialNext]_<<vars, cVars, rVars>> => BothInv'
  BY NextBothInv
<1>2. BothInv => VerdictsAgree
  BY BothAgree
<1> QED BY InitBothInv, <1>1, <1>2, PTL DEF DifferentialSpec

\* What is handed over for an answer is the whole of it, or nothing.
LEMMA HandsAll ==
  ASSUME cLegal, GoDecode(text) \in Verdicts, NEW status, NEW heap, NEW result,
         Hands(status, heap, result, GoDecode(text))
  PROVE  Handed(status, heap, result) /\ status # "ALLOC"
<1> DEFINE go == GoDecode(text)
<1>1. /\ go \in Verdicts /\ status = StatusOf(go.kind)
      /\ go.kind = "OK" => heap = {"out"} /\ result = [set |-> TRUE, data |-> go.data]
      /\ go.kind # "OK" => heap = {} /\ result = [set |-> FALSE]
  BY DEF Hands
<1> HIDE DEF go
<1>2. (status = "OK" <=> go.kind = "OK") /\ status # "ALLOC"
  BY <1>1, StatusOK
<1> QED BY <1>1, <1>2 DEF Handed, C!Unset, go

\* So the C call and the Rust entry point hand over everything or nothing.
LEMMA BothHand ==
  ASSUME BothInv
  PROVE  WholeOrUntouched
<1>1. CASE ~cLegal
  <2>1. C!Returned => Handed(cStatus, cHeap, cResult)
    BY <1>1 DEF BothInv, CInv, CReturnedSound, Handed, C!Unset
  <2>2. rStatus # Pending => Handed(rStatus, rHeap, rResult) /\ rStatus # "ALLOC"
    BY <1>1 DEF BothInv, RustSide, Handed, C!Unset
  <2> QED BY <2>1, <2>2 DEF WholeOrUntouched, Pending
<1>2. CASE cLegal
  <2>1. text \in Seq(Char) /\ Significant = WithoutSpace(text) /\ Significant \in Seq(Char)
    BY WithoutSpaceFacts DEF BothInv, CInv, CCall, Significant
  <2>2. PICK g : Answers(Significant, g)
    BY <2>1, AnswersExist
  <2>3. GoDecode(text) = g[0] /\ GoDecode(text) \in Verdicts
    BY <2>1, <2>2, PortsAnswer
  <2>4. ASSUME C!Returned PROVE Handed(cStatus, cHeap, cResult)
    <3>1. CASE cStatus = "ALLOC" /\ cHeap = {} /\ cResult = [set |-> FALSE]
      BY <3>1 DEF Handed, C!Unset
    <3>2. CASE Hands(cStatus, cHeap, cResult, g[0])
      BY <1>2, <2>3, <3>2, HandsAll
    <3> QED BY <1>2, <2>1, <2>2, <2>4, <3>1, <3>2 DEF BothInv, CInv, CReturnedSound
  <2>5. ASSUME rStatus # Pending
        PROVE  Handed(rStatus, rHeap, rResult) /\ (rStatus = "ALLOC" => GoDecode(text).kind = "OK")
    <3>1. CASE /\ rStatus = "ALLOC" /\ rHeap = {} /\ rResult = [set |-> FALSE]
               /\ \A f : Answers(Significant, f) => f[0].kind = "OK"
      BY <2>2, <2>3, <3>1 DEF Handed, C!Unset
    <3>2. CASE Hands(rStatus, rHeap, rResult, g[0])
      BY <1>2, <2>3, <3>2, HandsAll
    <3> QED BY <1>2, <2>2, <2>5, <3>1, <3>2 DEF BothInv, RustSide
  <2> QED BY <1>2, <2>4, <2>5 DEF WholeOrUntouched, Pending
<1> QED BY <1>1, <1>2

\* Whichever allocations fail, a C caller of either decoder has the whole of what
\* the text stands for, or nothing.
THEOREM DecodersHandOver == DifferentialSpec => []WholeOrUntouched
<1>1. BothInv /\ [DifferentialNext]_<<vars, cVars, rVars>> => BothInv'
  BY NextBothInv
<1>2. BothInv => WholeOrUntouched
  BY BothHand
<1> QED BY InitBothInv, <1>1, <1>2, PTL DEF DifferentialSpec
=============================================================================
