--------------------------- MODULE CDecodeProofs ----------------------------
(***************************************************************************)
(* The C decoder, on every text and with every allocation failing or not,  *)
(* keeps its loop's invariant: it writes nothing past its buffer, though   *)
(* it looks at the buffer's size at the Fill signals only; and it leaves   *)
(* no allocated block behind.                                              *)
(***************************************************************************)
EXTENDS CDecode, WireProofs

\* A second scan is given the size the first one started with, so the buffer
\* must never have become smaller than that.
RoomKept ==
  /\ phase = "scan" => Larger(Len(text), 1) <= cap
  /\ phase = "scanned" => Larger(Len(text), 1) <= room

\* The cached substitution is the one of its key.
CacheSound ==
  cache = NoKey \/ cache.map = DpTable(cache.key[1], cache.key[2])

\* What is allocated at each point of the call.
HeapSound ==
  /\ phase = "call" => heap = {}
  /\ phase \in {"scan", "scanned"} => heap = {"out"}
  /\ phase \in {"rescan", "rescanned"} => heap = {"out", "filtered"}
  /\ phase # "returned" => result = Unset

\* Before the first scan nothing is read or written.
StartOfCall == phase = "call" => in = text /\ pos = 0 /\ buf = <<>>

\* The inductive invariant.
CInv ==
  TypeOK /\ StartOfCall /\ RoomLeft /\ RoomKept /\ CacheSound /\ HeapSound /\ NothingLeaks

-----------------------------------------------------------------------------
(* The inductive step.                                                     *)

\* A scan that ends, with whatever answer.
LEMMA ReturnKeeps ==
  ASSUME CInv, Scanning, NEW answer, Return(answer)
  PROVE  CInv'
<1>1. phase' = IF phase = "scan" THEN "scanned" ELSE "rescanned"
  BY DEF Return
<1>2. UNCHANGED <<text, legal, in, pos, buf, cap, room, cache, heap, result>>
  BY DEF Return
<1>3. phase = "scan" \/ phase = "rescan"
  BY DEF Scanning
<1>4. TypeOK'
  BY <1>1, <1>2, <1>3 DEF CInv, TypeOK
<1>5. RoomLeft' /\ RoomKept'
  <2>1. Larger(Len(text), 1) \in Nat /\ cap \in Nat /\ room \in Nat
    BY LenProperties DEF CInv, TypeOK, Larger
  <2> QED BY <1>1, <1>2, <1>3, <2>1 DEF CInv, RoomLeft, RoomKept, Scanning, w, Larger
<1>6. CacheSound'
  BY <1>2 DEF CInv, CacheSound, NoKey
<1>7. HeapSound' /\ NothingLeaks'
  BY <1>1, <1>2, <1>3 DEF CInv, HeapSound, NothingLeaks, Returned, Unset
<1>8. StartOfCall'
  BY <1>1, <1>3 DEF StartOfCall
<1> QED BY <1>4, <1>5, <1>6, <1>7, <1>8 DEF CInv

\* Reading length characters and writing no more bytes than that, into a buffer
\* that has not become smaller.
LEMMA StepKeeps ==
  ASSUME CInv, Scanning, NEW bytes \in Seq(Byte), NEW length \in 0..Remaining,
         Step(length), buf' = buf \o bytes,
         cap' \in Nat, room' \in Nat, cap' <= room', cap <= cap',
         Remaining - length <= cap' - (w + Len(bytes)),
         CacheSound'
  PROVE  CInv'
<1>1. /\ pos' = pos + length
      /\ UNCHANGED <<text, legal, phase, in, status, heap, result>>
  BY DEF Step
<1>2. /\ in \in Seq(Char) /\ pos \in 0..Len(in) /\ buf \in Seq(Byte)
      /\ Len(in) \in Nat
  BY LenProperties DEF CInv, TypeOK
<1>3. pos' \in 0..Len(in) /\ Len(in) - pos' = Remaining - length
  BY <1>1, <1>2 DEF Remaining
<1>4. buf' \in Seq(Byte) /\ Len(buf') = w + Len(bytes) /\ w \in Nat /\ Len(bytes) \in Nat
  BY <1>2, ConcatProperties, LenProperties DEF w
<1>5. TypeOK'
  BY <1>1, <1>3, <1>4 DEF CInv, TypeOK
<1>6. RoomLeft'
  <2>1. Remaining' = Remaining - length /\ w' = w + Len(bytes)
    BY <1>1, <1>3, <1>4 DEF Remaining, w
  <2>2. Remaining - length \in Nat
    BY <1>2 DEF Remaining
  <2>3. Remaining' \in Nat /\ w' \in Nat /\ cap' \in Nat /\ room' \in Nat
        /\ Remaining' <= cap' - w' /\ cap' <= room'
    BY <1>4, <2>1, <2>2
  <2>4. ASSUME NEW left \in Nat, NEW written \in Nat, NEW c \in Nat, NEW r \in Nat,
               left <= c - written, c <= r
        PROVE  written <= r
    BY <2>4
  <2>5. room' \in Nat
    OBVIOUS
  <2>6. w' <= room'
    BY ONLY <2>3, <2>4, <2>5
  <2> QED BY <2>3, <2>6 DEF RoomLeft
<1>7. RoomKept'
  <2>1. Larger(Len(text), 1) \in Nat
    BY LenProperties DEF CInv, TypeOK, Larger
  <2>2. cap \in Nat
    BY DEF CInv, TypeOK
  <2> QED BY <1>1, <2>1, <2>2 DEF CInv, RoomKept, Larger, Scanning
<1>8. HeapSound' /\ NothingLeaks'
  BY <1>1 DEF CInv, HeapSound, NothingLeaks, Returned, Unset
<1>9. StartOfCall'
  BY <1>1 DEF StartOfCall, Scanning
<1> QED BY <1>5, <1>6, <1>7, <1>8, <1>9 DEF CInv

\* A construct other than Fill.
LEMMA WriteKeeps ==
  ASSUME CInv, Scanning, NEW bytes \in Seq(Byte), NEW length \in 0..Remaining,
         Len(bytes) <= length, Write(bytes, length), CacheSound'
  PROVE  CInv'
<1>1. Step(length) /\ buf' = buf \o bytes /\ cap' = cap /\ room' = room
  BY DEF Write
<1>2. cap \in Nat /\ room \in Nat /\ cap <= room /\ Remaining <= cap - w
  BY DEF CInv, TypeOK, RoomLeft
<1>3. w \in Nat /\ Len(bytes) \in Nat /\ Remaining \in Int
  BY LenProperties DEF CInv, TypeOK, w, Remaining
<1>4. Remaining - length <= cap - (w + Len(bytes))
  BY <1>2, <1>3
<1> QED BY <1>1, <1>2, <1>4, StepKeeps

\* A Fill signal, which leaves room for the rest of the input or returns.
LEMMA WriteFillKeeps ==
  ASSUME CInv, Scanning, Remaining >= 5, NEW bytes \in Seq(Byte), WriteFill(bytes)
  PROVE  CInv'
<1>1. /\ cap \in Nat /\ room \in Nat /\ cap <= room /\ w \in Nat
      /\ Len(bytes) \in Nat /\ Remaining \in Int
  BY LenProperties DEF CInv, TypeOK, RoomLeft, w, Remaining
<1>2. 5 \in 0..Remaining /\ Need(bytes) = Len(bytes) + (Remaining - 5)
  BY <1>1 DEF Need
<1>3. cache' = cache
  BY DEF WriteFill, Return
<1>4. CacheSound'
  BY <1>3 DEF CInv, CacheSound, NoKey
<1>5. CASE Need(bytes) <= cap - w /\ Write(bytes, 5)
  <2>1. Step(5) /\ buf' = buf \o bytes /\ cap' = cap /\ room' = room
    BY <1>5 DEF Write
  <2>2. Remaining - 5 <= cap - (w + Len(bytes))
    BY <1>1, <1>2, <1>5
  <2> QED BY <1>1, <1>2, <1>4, <2>1, <2>2, StepKeeps
<1>6. CASE /\ Need(bytes) > cap - w
           /\ cap' = Grown(Need(bytes)) /\ room' = cap'
           /\ buf' = buf \o bytes /\ Step(5)
  <2> DEFINE want == w + Need(bytes)
  <2>1. want \in Nat /\ want > cap
    BY <1>1, <1>2, <1>6
  <2> HIDE DEF want
  <2>2. want \div 4 \in Int /\ want \div 4 >= 0
    BY <2>1
  <2>3. Grown(Need(bytes)) = want + want \div 4
    BY DEF Grown, want
  <2>4. cap' \in Nat /\ cap' >= want
    BY <1>6, <2>1, <2>2, <2>3
  <2>5. Remaining - 5 <= cap' - (w + Len(bytes))
    BY <1>1, <1>2, <2>4 DEF want
  <2>6. cap' \in Nat /\ room' \in Nat /\ cap' <= room' /\ cap <= cap'
    BY <1>1, <1>6, <2>1, <2>4
  <2>7. Step(5) /\ buf' = buf \o bytes
    BY <1>6
  <2> QED BY <1>2, <1>4, <2>5, <2>6, <2>7, StepKeeps
<1>7. CASE Return("ALLOC")
  BY <1>7, ReturnKeeps
<1> QED BY <1>5, <1>6, <1>7 DEF WriteFill

\* The group read here, when its characters are digits.
LEMMA GroupHolds ==
  ASSUME CInv, GroupHere, AllDigits(Group)
  PROVE  GroupValue \in Nat /\ Remaining \in Nat /\ 5 \in 0..Remaining
<1>1. in \in Seq(Char) /\ pos \in 0..Len(in) /\ Len(in) \in Nat /\ Remaining >= 5
  BY LenProperties DEF CInv, TypeOK, GroupHere
<1>2. \A i \in (pos + 1)..(pos + 5) : in[i] \in Char
  BY <1>1, ElementOfSeq DEF Remaining
<1>3. Group \in Seq(Char) /\ Len(Group) = 5
  <2>1. pos + 1 \in Int /\ pos + 5 \in Int /\ pos + 1 <= pos + 5
        /\ (pos + 5) - (pos + 1) + 1 = 5
    BY <1>1
  <2> QED BY <1>2, <2>1, SubSeqProperties DEF Group
<1>4. Values(Group) \in Seq(Digit) /\ Len(Values(Group)) = 5
  BY <1>3, ValuesAreDigits DEF AllDigits
<1> QED BY <1>1, <1>4, WeightIsNat DEF GroupValue, Remaining

\* A signal between two values.
LEMMA SignalsHolds ==
  ASSUME CInv, NEW first \in Int, NEW end \in Int, Signals(first, end)
  PROVE  /\ Scanning /\ Remaining \in Nat /\ Remaining >= 5 /\ 5 \in 0..Remaining
         /\ GroupValue - first \in 0..(end - first - 1)
<1>1. GroupHere /\ AllDigits(Group) /\ GroupValue \in first..(end - 1)
  BY DEF Signals
<1>2. GroupValue \in Nat /\ Remaining \in Nat /\ 5 \in 0..Remaining
  BY <1>1, GroupHolds
<1> QED BY <1>1, <1>2 DEF GroupHere

\* The final group.
LEMMA FinalHolds ==
  ASSUME CInv, FinalHere, AllDigits(Final)
  PROVE  /\ Values(Final) \in Seq(Digit) /\ Len(Values(Final)) = Remaining
         /\ Remaining \in 1..4
<1>1. in \in Seq(Char) /\ pos \in 0..Len(in) /\ Len(in) \in Nat /\ Remaining \in 1..4
  BY LenProperties DEF CInv, TypeOK, FinalHere
<1>2. \A i \in (pos + 1)..Len(in) : in[i] \in Char
  BY <1>1, ElementOfSeq
<1>3. Final \in Seq(Char) /\ Len(Final) = Remaining
  <2>1. /\ pos + 1 \in Int /\ Len(in) \in Int /\ pos + 1 <= Len(in)
        /\ Len(in) - (pos + 1) + 1 = Remaining
    BY <1>1 DEF Remaining
  <2> QED BY <1>2, <2>1, SubSeqProperties DEF Final
<1> QED BY <1>1, <1>3, ValuesAreDigits DEF AllDigits

\* An iteration of the loop keeps the invariant.
LEMMA ScanKeeps ==
  ASSUME CInv, Scan
  PROVE  CInv'
<1>1. CASE RejectGroup
  BY <1>1, ReturnKeeps DEF RejectGroup, GroupHere
<1>2. CASE ReadBlock
  <2>1. Signals(0, DpSignalBase) /\ cache' = cache /\ Write(ValueToBytes(GroupValue), 5)
    BY <1>2 DEF ReadBlock
  <2>2. /\ Scanning /\ Remaining \in Nat /\ 5 \in 0..Remaining
        /\ GroupValue - 0 \in 0..(DpSignalBase - 0 - 1)
    BY <2>1, RangeTypes, SignalsHolds
  <2>3. GroupValue \in Nat
    BY <2>1, GroupHolds DEF Signals
  <2>4. GroupValue \in 0..(Radix_4 - 1)
    BY <2>2, <2>3, RangeTypes
  <2>5. ValueToBytes(GroupValue) \in Seq(Byte) /\ Len(ValueToBytes(GroupValue)) = 4
    BY <2>4, BlockBytes
  <2>6. CacheSound'
    BY <2>1 DEF CInv, CacheSound, NoKey
  <2>7. Len(ValueToBytes(GroupValue)) <= 5
    BY <2>5
  <2> QED BY <2>1, <2>2, <2>5, <2>6, <2>7, WriteKeeps
<1>3. CASE RejectSignal
  BY <1>3, ReturnKeeps DEF RejectSignal, Signals, GroupHere
<1>4. CASE ReadTail
  <2> DEFINE p == GroupValue - TailSignalBase
             tail == SplitTail(p)
             zeros == [i \in 1..tail.zeros |-> 0]
             bytes == IF tail.order = 1 THEN tail.lit \o zeros ELSE zeros \o tail.lit
  <2>1. Signals(TailSignalBase, FutureSignalBase) /\ WriteFill(bytes)
    BY <1>4 DEF ReadTail
  <2>2. Scanning /\ Remaining >= 5 /\ p \in Nat
    BY <2>1, RangeTypes, SignalsHolds
  <2> HIDE DEF p
  <2>3. tail.zeros \in Nat /\ tail.lit \in Seq(Byte)
    BY <2>2, TailParts, ThresholdsAssumption
  <2> HIDE DEF tail
  <2>4. zeros \in Seq(Byte)
    <3>1. 0 \in Byte
      BY WireAssumption, BytesAssumption
    <3> QED BY <2>3, <3>1
  <2> HIDE DEF zeros
  <2>5. bytes \in Seq(Byte)
    BY <2>3, <2>4
  <2> QED BY <2>1, <2>2, <2>5, WriteFillKeeps
<1>5. CASE ReadFill
  <2> DEFINE p == GroupValue - FillSignalBase
             fill == SplitFill(p)
             bytes == [i \in 1..fill.len |-> fill.byte]
  <2>1. Signals(FillSignalBase, TailSignalBase) /\ WriteFill(bytes)
    BY <1>5 DEF ReadFill
  <2>2. Scanning /\ Remaining >= 5 /\ p \in 0..(TailSignalBase - FillSignalBase - 1)
    BY <2>1, RangeTypes, SignalsHolds
  <2> HIDE DEF p
  <2>3. p \in 0..(FillSignalSpan - 1)
    BY <2>2, RangeTypes
  <2>4. fill.len \in Nat /\ fill.byte \in Byte
    BY <2>3, FillParts, ThresholdsAssumption
  <2> HIDE DEF fill
  <2>5. bytes \in Seq(Byte)
    BY <2>4
  <2> QED BY <2>1, <2>2, <2>5, WriteFillKeeps
<1>6. CASE RejectCutSegment
  BY <1>6, ReturnKeeps DEF RejectCutSegment, SegmentHere, Signals, GroupHere
<1>7. CASE RejectSegment
  BY <1>7, ReturnKeeps DEF RejectSegment, SegmentHere, Signals, GroupHere
<1>8. CASE ReadSegment
  <2> DEFINE q == Segment.profile  m == Segment.mask  len == Segment.len
             bytes == [j \in 1..len |-> cache'.map[SegmentChars[j]]]
  <2>1. /\ Signals(DpSignalBase, FillSignalBase) /\ ~ (Remaining - 5 < len)
        /\ AllDigits(SegmentChars)
        /\ cache' = IF cache.key = <<q, m>> THEN cache
                    ELSE [key |-> <<q, m>>, map |-> DpTable(q, m)]
        /\ Write(bytes, 5 + len)
    BY <1>8 DEF ReadSegment, SegmentHere, SegmentCut
  <2>2. /\ Scanning /\ Remaining \in Nat
        /\ GroupValue - DpSignalBase \in Nat
    BY <2>1, RangeTypes, SignalsHolds
  <2>3. len \in Nat /\ m \in SUBSET Byte
    <3>1. len \in Nat
      BY <2>2, SegmentLength, ThresholdsAssumption DEF Segment
    <3>2. RSetBytes \subseteq Byte
      BY BytesAssumption, ElementOfSeq DEF RSetBytes
    <3>3. m \subseteq RSetBytes
      BY DEF Segment, SplitDp
    <3> QED BY <3>1, <3>2, <3>3
  <2>4. cache'.map = DpTable(q, m) /\ CacheSound'
    <3>1. CASE cache.key = <<q, m>>
      <4>1. cache' = cache /\ cache # NoKey
        BY <2>1, <3>1 DEF NoKey
      <4> QED BY <3>1, <4>1 DEF CInv, CacheSound
    <3>2. CASE cache.key # <<q, m>>
      BY <2>1, <3>2 DEF CacheSound
    <3> QED BY <3>1, <3>2
  <2>5. \A j \in 1..len : SegmentChars[j] \in AlphabetN
    <3>1. in \in Seq(Char) /\ pos \in 0..Len(in) /\ Len(in) \in Nat
      BY LenProperties DEF CInv, TypeOK
    <3>2. pos + 5 + len <= Len(in)
      BY <2>1, <2>2, <2>3, <3>1 DEF Remaining
    <3>3. SegmentChars \in Seq(Char) /\ Len(SegmentChars) = len
      <4>1. \A i \in (pos + 6)..(pos + 5 + len) : in[i] \in Char
        BY <2>3, <3>1, <3>2, ElementOfSeq
      <4>2. pos \in Int
        BY <3>1
      <4>3. pos + 6 \in Int /\ pos + 5 + len \in Int /\ pos + 6 <= pos + 5 + len + 1
            /\ (pos + 5 + len) - (pos + 6) + 1 = len
        <5> HIDE DEF len
        <5> QED BY <2>3, <4>2
      <4> QED BY <2>3, <4>1, <4>3, SubSeqProperties DEF SegmentChars
    <3>4. \A j \in 1..len : SegmentChars[j] \in Char /\ ValueOf(SegmentChars[j]) # NoValue
      BY <2>1, <3>3, ElementOfSeq DEF AllDigits
    <3> QED BY <3>4, ValueOfDigit
  <2>6. \A j \in 1..len : cache'.map[SegmentChars[j]] \in Byte
    BY <2>3, <2>4, <2>5, TableBytes
  <2> HIDE DEF len
  <2>7. bytes \in Seq(Byte) /\ Len(bytes) = len
    BY <2>3, <2>6
  <2>8. 5 + len \in 0..Remaining /\ Len(bytes) <= 5 + len
    BY <2>1, <2>2, <2>3, <2>7
  <2> HIDE DEF bytes
  <2> QED BY <2>1, <2>2, <2>4, <2>7, <2>8, WriteKeeps
<1>9. CASE RejectFinal
  BY <1>9, ReturnKeeps DEF RejectFinal, FinalHere
<1>10. CASE ReadFinal
  <2>1. /\ FinalHere /\ Remaining # 1 /\ AllDigits(Final) /\ TailAccepted(Values(Final))
        /\ Write(TailBytes(Values(Final)), Remaining) /\ cache' = cache
    BY <1>10 DEF ReadFinal
  <2>2. /\ Values(Final) \in Seq(Digit) /\ Len(Values(Final)) = Remaining
        /\ Remaining \in 2..4 /\ Scanning
    BY <2>1, FinalHolds DEF FinalHere
  <2>3. TailBytes(Values(Final)) \in Seq(Byte)
        /\ Len(TailBytes(Values(Final))) = Remaining - 1
    BY <2>1, <2>2, FinalBytes
  <2>4. CacheSound'
    BY <2>1 DEF CInv, CacheSound, NoKey
  <2>5. Remaining \in 0..Remaining /\ Len(TailBytes(Values(Final))) <= Remaining
    BY <2>2, <2>3
  <2> QED BY <2>1, <2>2, <2>3, <2>4, <2>5, WriteKeeps
<1>11. CASE Finish
  BY <1>11, ReturnKeeps DEF Finish
<1> QED BY <1>1, <1>2, <1>3, <1>4, <1>5, <1>6, <1>7, <1>8, <1>9, <1>10, <1>11 DEF Scan

\* So does every step of a call.
LEMMA NextKeeps ==
  ASSUME CInv, [Next]_vars
  PROVE  CInv'
<1>1. CASE UNCHANGED vars
  BY <1>1 DEF CInv, TypeOK, StartOfCall, RoomLeft, RoomKept, CacheSound, HeapSound,
              NothingLeaks, vars, Scanning, Remaining, w, Returned, NoKey, Unset
<1>2. CASE RefuseArguments
  <2>1. /\ phase = "call" /\ phase' = "returned" /\ status' = "INVALID_ARGUMENT"
        /\ UNCHANGED <<text, legal, in, pos, buf, cap, room, cache, heap, result>>
    BY <1>2 DEF RefuseArguments
  <2> QED BY <2>1 DEF CInv, TypeOK, StartOfCall, RoomLeft, RoomKept, CacheSound,
                      HeapSound, NothingLeaks, Scanning, w, Returned, NoKey, Unset
<1>3. CASE AllocateOutput
  <2>1. Larger(Len(text), 1) \in Nat /\ Len(text) \in Nat
        /\ Len(text) <= Larger(Len(text), 1)
    BY LenProperties DEF CInv, TypeOK, Larger
  <2>2. CASE /\ phase' = "scan" /\ heap' = {"out"}
             /\ cap' = Larger(Len(text), 1) /\ room' = cap' /\ status' = status
    <3>1. TypeOK'
      BY <1>3, <2>1, <2>2 DEF CInv, TypeOK, AllocateOutput
    <3>2. RoomLeft' /\ RoomKept'
      BY <1>3, <2>1, <2>2 DEF CInv, StartOfCall, RoomLeft, RoomKept, AllocateOutput,
                              Scanning, Remaining, w, Larger
    <3>3. CacheSound' /\ HeapSound' /\ NothingLeaks'
      BY <1>3, <2>2 DEF CInv, CacheSound, HeapSound, NothingLeaks, AllocateOutput,
                        Returned, NoKey, Unset
    <3>4. StartOfCall'
      BY <2>2 DEF StartOfCall
    <3> QED BY <3>1, <3>2, <3>3, <3>4 DEF CInv
  <2>3. CASE /\ phase' = "returned" /\ status' = "ALLOC"
             /\ UNCHANGED <<heap, cap, room>>
    BY <1>3, <2>3 DEF CInv, TypeOK, StartOfCall, RoomLeft, RoomKept, CacheSound, HeapSound,
                      NothingLeaks, AllocateOutput, Scanning, w, Returned, NoKey, Unset
  <2> QED BY <1>3, <2>2, <2>3 DEF AllocateOutput
<1>4. CASE Scan
  BY <1>4, ScanKeeps
<1>5. CASE Rescan
  <2>1. Larger(Len(text), 1) \in Nat /\ Len(text) \in Nat
        /\ Len(text) <= Larger(Len(text), 1)
    BY LenProperties DEF CInv, TypeOK, Larger
  <2>2. /\ WithoutSpace(text) \in Seq(Char) /\ Len(WithoutSpace(text)) <= Len(text)
        /\ Len(WithoutSpace(text)) \in Nat
    <3>1. text \in Seq(Char)
      BY DEF CInv, TypeOK
    <3>2. Len(WithoutSpace(text)) \in 0..Len(text)
      BY <3>1, WithoutSpaceFacts
    <3> QED BY <2>1, <3>1, <3>2, WithoutSpaceFacts
  <2>3. CASE /\ phase' = "rescan" /\ heap' = {"out", "filtered"} /\ in' = WithoutSpace(text)
             /\ pos' = 0 /\ buf' = <<>> /\ cache' = NoKey
             /\ cap' = Larger(Len(text), 1) /\ status' = status
    <3>1. phase = "scanned" /\ UNCHANGED <<text, legal, room, result>>
      BY <1>5 DEF Rescan, Rescans
    <3>2. buf' \in Seq(Byte) /\ Len(buf') = 0
      BY <2>3
    <3>3. TypeOK'
      BY <2>1, <2>2, <2>3, <3>1, <3>2 DEF CInv, TypeOK
    <3>4. RoomLeft' /\ RoomKept' /\ StartOfCall'
      BY <2>1, <2>2, <2>3, <3>1, <3>2
         DEF CInv, TypeOK, RoomLeft, RoomKept, StartOfCall, Scanning, Remaining, w
    <3>5. CacheSound' /\ HeapSound' /\ NothingLeaks'
      BY <2>3, <3>1 DEF CInv, CacheSound, HeapSound, NothingLeaks, Returned, NoKey, Unset
    <3> QED BY <3>3, <3>4, <3>5 DEF CInv
  <2>4. CASE /\ phase' = "returned" /\ heap' = {} /\ status' = "ALLOC"
             /\ UNCHANGED <<in, pos, buf, cache, cap>>
    BY <1>5, <2>4 DEF CInv, TypeOK, StartOfCall, RoomLeft, RoomKept, CacheSound, HeapSound,
                      NothingLeaks, Rescan, Rescans, Scanning, w, Returned, NoKey, Unset
  <2> QED BY <1>5, <2>3, <2>4 DEF Rescan, Rescans
<1>6. CASE Fail
  BY <1>6 DEF CInv, TypeOK, StartOfCall, RoomLeft, RoomKept, CacheSound, HeapSound,
              NothingLeaks, Fail, Released, Scanning, w, Returned, NoKey, Unset
<1>7. CASE Succeed
  <2>1. /\ phase' = "returned" /\ heap' = {"out"} /\ status = "OK"
        /\ room' \in {room, Larger(w, 1)} /\ result'.set
        /\ UNCHANGED <<text, legal, in, pos, buf, cap, cache, status>>
    BY <1>7 DEF Succeed
  <2>2. w \in Nat /\ Larger(w, 1) \in Nat /\ w <= Larger(w, 1)
    BY LenProperties DEF CInv, TypeOK, w, Larger
  <2>3. room' \in Nat /\ w' <= room'
    BY <2>1, <2>2 DEF CInv, TypeOK, RoomLeft, w
  <2> QED BY <2>1, <2>3 DEF CInv, TypeOK, StartOfCall, RoomLeft, RoomKept, CacheSound,
                            HeapSound, NothingLeaks, Scanning, w, Returned, NoKey
<1> QED BY <1>1, <1>2, <1>3, <1>4, <1>5, <1>6, <1>7 DEF Next

\* The initial states satisfy it.
LEMMA InitCInv == Init => CInv
<1> SUFFICES ASSUME Init PROVE CInv
  OBVIOUS
<1>1. text \in Seq(Char) /\ Len(text) \in Nat
  BY StreamsAssumption, LenProperties DEF Init
<1>2. buf \in Seq(Byte) /\ Len(buf) = 0
  BY DEF Init
<1>3. TypeOK
  BY <1>1, <1>2 DEF Init, TypeOK
<1> QED BY <1>2, <1>3 DEF Init, CInv, StartOfCall, RoomLeft, RoomKept, CacheSound,
                          HeapSound, NothingLeaks, Scanning, w, Returned

\* The C decoder's invariant holds at every step of every call.
THEOREM CInvariant == Spec => []CInv
<1>1. CInv /\ [Next]_vars => CInv'
  BY NextKeeps
<1> QED BY InitCInv, <1>1, PTL DEF Spec

\* Type correctness: a scan stays inside its input.
THEOREM CTypeOK == Spec => []TypeOK
<1>1. CInv => TypeOK
  BY DEF CInv
<1> QED BY CInvariant, <1>1, PTL

\* Nothing is written past the end of the buffer, and the room the loop relies
\* on is there at each of its iterations.
THEOREM CRoomLeft == Spec => []RoomLeft
<1>1. CInv => RoomLeft
  BY DEF CInv
<1> QED BY CInvariant, <1>1, PTL

\* A call frees all it allocated but the block it hands out.
THEOREM CNothingLeaks == Spec => []NothingLeaks
<1>1. CInv => NothingLeaks
  BY DEF CInv
<1> QED BY CInvariant, <1>1, PTL
=============================================================================
