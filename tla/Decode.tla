------------------------------- MODULE Decode -------------------------------
(***************************************************************************)
(* The decoder (rust/src/decode.rs).  A fast tier, scan, walks the bytes   *)
(* of the text and only answers whether they decode.  What it rejects is,  *)
(* if the text has white space in it, scanned again without it, into the   *)
(* same buffer; what is rejected for good is walked once more, character   *)
(* by character, by report_error, which says what is wrong and where.      *)
(***************************************************************************)
EXTENDS Wire

CONSTANT Cases   \* the texts decoded, each with the data it was encoded from and
                 \* the constructs it was encoded as; or CutShort for a text that
                 \* ends inside a segment, or Garbled for one that may be anything

CutShort == <<-1>>
Garbled == <<-2>>

ASSUME CasesAssumption ==
  \A c \in Cases :
    LET chars == WithoutSpace(c.text)
    IN  /\ c.text \in Seq(Char)
        /\ \/ c.sent = Garbled
           \/ /\ c.sent = CutShort
              /\ \E q \in ProfileIds, mask \in SUBSET RSetBytes, len \in 1..MaxDpSegment :
                   /\ SubSeq(chars, 1, 5) = Signal(DpSignal(q, mask, len))
                   /\ Len(chars) \in 5..(4 + len)
           \/ /\ c.sent \in Seq(Byte)
              /\ Spells(c.sent, c.units) /\ chars = Written(c.sent, c.units)

VARIABLES
  text,     \* the text to decode
  sent,     \* what it was encoded from
  tier,     \* "scan", "rescan", "report", "ok" or "error"
  src,      \* the bytes scanned
  pos,      \* how many of them are decoded
  out,      \* the output buffer
  w,        \* how many bytes of it are written
  table,    \* the last segment's substitution, with its profile and mask
  read,     \* how many significant characters the report has read
  verdict   \* the error reported

vars == <<text, sent, tier, src, pos, out, w, table, read, verdict>>

NoTable == [key |-> <<>>, map |-> <<>>]
NoVerdict == [kind |-> "none"]

Init ==
  \E c \in Cases :
    /\ text = c.text /\ sent = c.sent
    /\ tier = "scan" /\ src = Utf8(c.text) /\ pos = 0
    /\ out = [i \in 1..Len(src) |-> 0] /\ w = 0
    /\ table = NoTable /\ read = 0 /\ verdict = NoVerdict

-----------------------------------------------------------------------------
(* The buffer.                                                             *)

Zeros(n) == [i \in 1..n |-> 0]

\* The buffer grown, if it has to be, so that need bytes can be written at w.
Reserved_Exact(need) == out
Reserved(need) ==
  IF need > Len(out) - w
  THEN LET want == w + need
       IN  out \o Zeros(want + want \div 4 - Len(out))
  ELSE out

\* It with the bytes b written at w: its length stays, and a byte past its end
\* has no place in it (the code panics there).
Put(buffer, b) ==
  [i \in 1..Len(buffer) |-> IF i \in (w + 1)..(w + Len(b)) THEN b[i - w] ELSE buffer[i]]

Emit(b, length) ==
  \E bytes \in {b} :
    /\ out' = Put(Reserved(Len(bytes)), bytes)
    /\ w' = w + Len(bytes)
    /\ pos' = pos + length

-----------------------------------------------------------------------------
(* The fast tier.                                                          *)

Scanning == tier \in {"scan", "rescan"}
Remaining == Len(src) - pos

\* The k-th group of five from here, and what it holds.
Group(k) == SubSeq(src, pos + 5 * k - 4, pos + 5 * k)
GroupValid_FourOfFive(k) == \A i \in 1..4 : ValueOf(Group(k)[i]) # NoValue
GroupValid(k) == \A i \in 1..5 : ValueOf(Group(k)[i]) # NoValue
GroupValue(k) == WeighDigits(Values(Group(k)))
IsBlock(k) == GroupValid(k) /\ GroupValue(k) < DpSignalBase

\* The groups the run looks at, limited by the input and by the output room,
\* and how many it takes.
Run == Smaller(Remaining \div 5, (Len(out) - w) \div 4)
Done == CHOOSE k \in 0..Run :
          (k = Run \/ ~IsBlock(k + 1)) /\ \A j \in 1..k : IsBlock(j)
RunMeetsInvalid == Done < Run /\ ~GroupValid(Done + 1)

ReadBlocks ==
  /\ Scanning /\ Remaining >= 5
  /\ Done > 0 /\ ~RunMeetsInvalid
  /\ Emit(FlattenSeq([k \in 1..Done |-> ValueToBytes(GroupValue(k))]), 5 * Done)
  /\ UNCHANGED <<text, sent, tier, src, table, read, verdict>>

\* A signal, or a group the run had no room for.
Alone == Scanning /\ Remaining >= 5 /\ Done = 0 /\ GroupValid(1)

ReadLoneBlock ==
  /\ Alone /\ GroupValue(1) < DpSignalBase
  /\ Emit(ValueToBytes(GroupValue(1)), 5)
  /\ UNCHANGED <<text, sent, tier, src, table, read, verdict>>

ReadTail ==
  /\ Alone /\ GroupValue(1) \in TailSignalBase..(FutureSignalBase - 1)
  /\ LET tail == SplitTail(GroupValue(1) - TailSignalBase)
     IN  Emit(IF tail.order = 0 THEN Zeros(tail.zeros) \o tail.lit
              ELSE tail.lit \o Zeros(tail.zeros), 5)
  /\ UNCHANGED <<text, sent, tier, src, table, read, verdict>>

ReadFill ==
  /\ Alone /\ GroupValue(1) \in FillSignalBase..(TailSignalBase - 1)
  /\ LET fill == SplitFill(GroupValue(1) - FillSignalBase)
     IN  Emit([i \in 1..fill.len |-> fill.byte], 5)
  /\ UNCHANGED <<text, sent, tier, src, table, read, verdict>>

\* The segment a signal here announces, and its characters.
Segment == SplitDp(GroupValue(1) - DpSignalBase)
SegmentHere == Alone /\ GroupValue(1) \in DpSignalBase..(FillSignalBase - 1)
SegmentFits_Strict == Remaining - 5 > Segment.len
SegmentFits == Remaining - 5 >= Segment.len
SegmentChars == SubSeq(src, pos + 6, pos + 5 + Segment.len)
SegmentTable_MaskOnly ==
  IF table.key # <<>> /\ table.key[2] = Segment.mask THEN table
  ELSE [key |-> <<Segment.profile, Segment.mask>>,
        map |-> DpTable(Segment.profile, Segment.mask)]
SegmentTable ==
  IF table.key = <<Segment.profile, Segment.mask>> THEN table
  ELSE [key |-> <<Segment.profile, Segment.mask>>,
        map |-> DpTable(Segment.profile, Segment.mask)]

ReadSegment ==
  /\ SegmentHere /\ SegmentFits
  /\ \A j \in 1..Segment.len : SegmentChars[j] \in AlphabetN
  /\ table' = SegmentTable
  /\ Emit([j \in 1..Segment.len |-> table'.map[SegmentChars[j]]], 5 + Segment.len)
  /\ UNCHANGED <<text, sent, tier, src, read, verdict>>

\* Fewer than five characters: the short group that ends the stream.
TailHere == Scanning /\ Remaining \in 1..4
TailChars == SubSeq(src, pos + 1, Len(src))
TailValid ==
  /\ Remaining # 1
  /\ \A i \in 1..Remaining : TailChars[i] \in AlphabetN
  /\ TailAccepted(Values(TailChars))

ReadFinal ==
  /\ TailHere /\ TailValid
  /\ Emit(TailBytes(Values(TailChars)), Remaining)
  /\ UNCHANGED <<text, sent, tier, src, table, read, verdict>>

Accept ==
  /\ Scanning /\ Remaining = 0
  /\ tier' = "ok" /\ out' = SubSeq(out, 1, w)
  /\ UNCHANGED <<text, sent, src, pos, w, table, read, verdict>>

-----------------------------------------------------------------------------
(* Rejection.                                                              *)

\* What the scan leaves behind in the buffer does not matter to the verdict,
\* but a second scan starts on it.
Retry_EveryTime == \E i \in 1..Len(text) : text[i] \in Whitespace
Retry == tier = "scan" /\ \E i \in 1..Len(src) : src[i] \in Whitespace

Reject(buffer) ==
  /\ out' = buffer /\ pos' = 0 /\ w' = 0 /\ table' = NoTable
  /\ IF Retry
     THEN tier' = "rescan" /\ src' = WithoutSpace(src)
     ELSE tier' = "report" /\ UNCHANGED src
  /\ UNCHANGED <<text, sent, read, verdict>>

\* A group with a foreign character, after the run's groups before it.
RejectGroup ==
  /\ Scanning /\ Remaining >= 5
  /\ \/ RunMeetsInvalid
     \/ Done = 0 /\ ~GroupValid(1)
  /\ Reject(Put(out, FlattenSeq([k \in 1..Done |-> ValueToBytes(GroupValue(k))])))

RejectSignal ==
  /\ Alone /\ GroupValue(1) >= FutureSignalBase
  /\ Reject(out)

\* A segment that runs off the end, or with a foreign character in it.
RejectShortSegment ==
  /\ SegmentHere /\ ~SegmentFits
  /\ Reject(out)

RejectSegment ==
  /\ SegmentHere /\ SegmentFits
  /\ \E bad \in 1..Segment.len :
       /\ SegmentChars[bad] \notin AlphabetN
       /\ \A j \in 1..(bad - 1) : SegmentChars[j] \in AlphabetN
       /\ Reject(Put(Reserved(Segment.len),
                     [j \in 1..(bad - 1) |-> SegmentTable.map[SegmentChars[j]]]))

RejectFinal ==
  /\ TailHere /\ ~TailValid
  /\ Reject(out)

Scan ==
  \/ ReadBlocks \/ ReadLoneBlock \/ ReadTail \/ ReadFill \/ ReadSegment
  \/ ReadFinal \/ Accept
  \/ RejectGroup \/ RejectSignal \/ RejectShortSegment \/ RejectSegment \/ RejectFinal

-----------------------------------------------------------------------------
(* The report.  It reads the significant characters of the original text,  *)
(* and its positions are byte offsets in it.                               *)

Significant == WithoutSpace(text)

\* The byte offset in the text of the k-th significant character.
Offset_Filtered(k) == Len(Utf8(SubSeq(Significant, 1, k - 1)))
Offset(k) ==
  LET i == CHOOSE i \in 1..Len(text) :
             /\ text[i] \notin Whitespace
             /\ Len(WithoutSpace(SubSeq(text, 1, i))) = k
  IN  Len(Utf8(SubSeq(text, 1, i - 1)))

Left == Len(Significant) - read
Foreign(k) == Significant[k] \notin AlphabetN

\* The characters from k to l, the first foreign one of which is to blame.
ForeignIn(k, l) == {i \in k..l : Foreign(i)}
InvalidCharacter(k) == [kind |-> "InvalidCharacter", character |-> Significant[k],
                        position |-> Offset(k)]
Blame(v) ==
  /\ tier' = "error" /\ verdict' = v
  /\ UNCHANGED <<text, sent, src, pos, out, w, table, read>>
\* The first of the foreign characters is.
BlameFirst(foreign) ==
  \E k \in foreign : (\A j \in foreign : k <= j) /\ Blame(InvalidCharacter(k))
Pass(length) ==
  /\ read' = read + length
  /\ UNCHANGED <<text, sent, tier, src, pos, out, w, table, verdict>>

Reporting == tier = "report"
NextGroup == SubSeq(Significant, read + 1, read + 5)
NextValue == DigitsToValue(Values(NextGroup))
FullGroup == Reporting /\ Left >= 5
CleanGroup == FullGroup /\ ForeignIn(read + 1, read + 5) = {}

ReportGroup ==
  /\ FullGroup /\ BlameFirst(ForeignIn(read + 1, read + 5))

ReportSignal ==
  /\ CleanGroup /\ NextValue >= FutureSignalBase
  /\ Blame([kind |-> "UndefinedSignal", value |-> NextValue])

PassGroup ==
  /\ CleanGroup
  /\ NextValue \in 0..(DpSignalBase - 1) \cup FillSignalBase..(FutureSignalBase - 1)
  /\ Pass(5)

\* A segment is read to its declared length before what is in it is judged.
NextSegment == SplitDp(NextValue - DpSignalBase)
AtSegment == CleanGroup /\ NextValue \in DpSignalBase..(FillSignalBase - 1)
ReportSegment_CharactersFirst ==
  /\ AtSegment
  /\ LET last == Smaller(read + 5 + NextSegment.len, Len(Significant))
         bad  == ForeignIn(read + 6, last)
     IN  \/ BlameFirst(bad)
         \/ /\ bad = {} /\ Left - 5 < NextSegment.len
            /\ Blame([kind |-> "UnexpectedEndOfStream"])
ReportSegment ==
  /\ AtSegment
  /\ IF Left - 5 < NextSegment.len
     THEN Blame([kind |-> "UnexpectedEndOfStream"])
     ELSE BlameFirst(ForeignIn(read + 6, read + 5 + NextSegment.len))

PassSegment ==
  /\ AtSegment /\ Left - 5 >= NextSegment.len
  /\ ForeignIn(read + 6, read + 5 + NextSegment.len) = {}
  /\ Pass(5 + NextSegment.len)

\* The last group, or nothing at all.  Where neither is at fault the two tiers
\* disagree, and the code has an assertion against it.
ReportEnd ==
  /\ Reporting /\ Left \in 0..4
  /\ LET foreign == ForeignIn(read + 1, read + Left)
     IN  \/ BlameFirst(foreign)
         \/ /\ foreign = {}
            /\ \E rest \in {Values(SubSeq(Significant, read + 1, read + Left))} :
                 Blame(IF Left = 1 \/ (Left > 1 /\ ~TailAccepted(rest))
                       THEN [kind |-> "InvalidFinalBlock", length |-> Left]
                       ELSE [kind |-> "Disagreement"])

Report ==
  \/ ReportGroup \/ ReportSignal \/ PassGroup \/ ReportSegment \/ PassSegment
  \/ ReportEnd

Next == Scan \/ Report

Spec == Init /\ [][Next]_vars

\* Neither tier waits for anything.
FairSpec == Spec /\ WF_vars(Next)

-----------------------------------------------------------------------------
Answered == tier \in {"ok", "error"}
Data == SubSeq(out, 1, w)

\* Type invariant: the scan stays inside its input and its buffer, and a second
\* scan needs no room the first one did not have.
TypeOK ==
  /\ tier \in {"scan", "rescan", "report", "ok", "error"}
  /\ src \in Seq(Char) /\ pos \in 0..Len(src)
  /\ out \in Seq(Byte) /\ w \in 0..Len(out)
  /\ tier = "rescan" => Len(src) <= Len(out)
  /\ read \in 0..Len(Significant)

\* What was encoded is what is decoded, wherever white space was put into the
\* text and whatever a first scan left in the buffer; and it is never rejected.
RoundTrip == Answered /\ sent \in Seq(Byte) => tier = "ok" /\ Data = sent

\* A text that ends inside a segment is reported as that, whatever foreign
\* characters the part of the segment that did arrive has in it.
CutSegmentsReported ==
  Answered /\ sent = CutShort => verdict.kind = "UnexpectedEndOfStream"

\* The scan and the report agree on what is malformed: the walk of a rejected
\* text never ends without a fault.
TiersAgree == verdict.kind # "Disagreement"

\* An invalid character that is reported is the first of the whole stream, at
\* its place in the original text, white space and wide characters counted;
\* and a malformed last group is only reported where there is no such one.
FirstInvalidReported ==
  LET foreign == {i \in 1..Len(text) : text[i] \notin AlphabetN \cup Whitespace}
  IN  /\ verdict.kind = "InvalidCharacter" =>
           /\ foreign # {}
           /\ verdict.character = text[Min(foreign)]
           /\ verdict.position = Len(Utf8(SubSeq(text, 1, Min(foreign) - 1)))
      /\ verdict.kind = "InvalidFinalBlock" => foreign = {}

\* No text with white space is accepted by the first scan, which is what lets
\* decode try it before it filters; and none is accepted that holds a foreign
\* character.
AcceptedIsClean ==
  tier = "ok" => \A i \in 1..Len(src) : src[i] \in AlphabetN

\* The characters block mode writes for the bytes b.
BlockText(b) ==
  FlattenSeq([k \in 1..((Len(b) + 3) \div 4) |->
                UnitChars(b, BlockUnit(b, 4 * (k - 1)))])

\* No two texts made of block groups alone decode to the same bytes: one that
\* is accepted is what encoding its bytes gives.
BlockTextsCanonical ==
  tier = "ok" /\ (\A k \in 1..(Len(src) \div 5) :
                    WeighDigits(Values(SubSeq(src, 5 * k - 4, 5 * k))) < DpSignalBase)
    => src = BlockText(Data)

\* The comments on scan: the buffer's size is the exact bound for every
\* construct but Solid Fill, which is the only one that can make it grow.
OnlySolidFillGrows ==
  [][Len(out') > Len(out) =>
       Alone /\ GroupValue(1) \in FillSignalBase..(TailSignalBase - 1)]_vars

\* Every text is answered.
EventuallyAnswered == <>Answered
=============================================================================
