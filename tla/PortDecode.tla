----------------------------- MODULE PortDecode -----------------------------
(***************************************************************************)
(* The Go and the TypeScript decoder (Decode, go/base85n.go; decode,       *)
(* typescript/src/decode.ts) as functions of the text.  Both scan it, and  *)
(* once more without white space if it is rejected and has some.  The Go   *)
(* scan finds the error itself; the TypeScript one only rejects, and what  *)
(* it rejects for good is read again to find out why.  Offsets count the   *)
(* characters that are left without white space.                           *)
(***************************************************************************)
EXTENDS Wire

Decoded(bytes) == [kind |-> "OK", data |-> bytes]
Error(kind, offset) == [kind |-> kind, offset |-> offset]

\* What follows is decoded as rest, which may be an error.
After(bytes, rest) == IF rest.kind = "OK" THEN Decoded(bytes \o rest.data) ELSE rest

Valued(chars) == \A i \in 1..Len(chars) : ValueOf(chars[i]) # NoValue
Ignored(s) == {i \in 1..Len(s) : s[i] \in Whitespace}

\* The first of the characters at offset that has no value.
Invalid(chars, offset) ==
  Error("InvalidCharacter",
        offset + Min({i \in 1..Len(chars) : ValueOf(chars[i]) = NoValue}) - 1)

\* The five characters at pos, and those of the segment their value announces.
GroupAt(in, pos) == SubSeq(in, pos + 1, pos + 5)
GroupValueAt(in, pos) == WeighDigits(Values(GroupAt(in, pos)))
SegmentAt(in, pos) == SplitDp(GroupValueAt(in, pos) - DpSignalBase)
SegmentCharsAt(in, pos) == SubSeq(in, pos + 6, pos + 5 + SegmentAt(in, pos).len)
AnnouncesSegment(in, pos) == GroupValueAt(in, pos) \in DpSignalBase..(FillSignalBase - 1)

\* What a group that is neither a segment's signal nor undefined stands for.
GroupBytes(v) ==
  LET tail  == SplitTail(v - TailSignalBase)
      zeros == [i \in 1..tail.zeros |-> 0]
      fill  == SplitFill(v - FillSignalBase)
  IN  CASE v < DpSignalBase -> ValueToBytes(v)
        [] v \in FillSignalBase..(TailSignalBase - 1) -> [i \in 1..fill.len |-> fill.byte]
        [] v >= TailSignalBase -> IF tail.order = 1 THEN tail.lit \o zeros
                                  ELSE zeros \o tail.lit

SegmentBytes(segment, chars) ==
  LET table == DpTable(segment.profile, segment.mask)
  IN  [j \in 1..Len(chars) |-> table[chars[j]]]

-----------------------------------------------------------------------------
(* Go.                                                                     *)

\* The stream's last group, of one to four characters, at pos.
GoFinal_Single(final, pos) ==
  IF Len(final) = 1 THEN Error("InvalidFinalBlock", pos)
  ELSE IF ~Valued(final) THEN Invalid(final, pos)
  ELSE IF TailAccepted(Values(final)) THEN Decoded(TailBytes(Values(final)))
  ELSE Error("InvalidFinalBlock", pos)
GoFinal(final, pos) ==
  IF ~Valued(final) THEN Invalid(final, pos)
  ELSE IF Len(final) > 1 /\ TailAccepted(Values(final))
  THEN Decoded(TailBytes(Values(final)))
  ELSE Error("InvalidFinalBlock", pos)

\* The segment whose signal is at pos.
GoSegment(in, pos) ==
  LET segment == SegmentAt(in, pos)
      chars   == SegmentCharsAt(in, pos)
  IN  IF pos + 5 + segment.len > Len(in) THEN Error("UnexpectedEndOfStream", pos + 5)
      ELSE IF ~Valued(chars) THEN Invalid(chars, pos + 5)
      ELSE Decoded(SegmentBytes(segment, chars))

GoScan(in) ==
  LET from[pos \in 0..Len(in)] ==
        LET segment == GoSegment(in, pos)
        IN  IF pos = Len(in) THEN Decoded(<<>>)
            ELSE IF Len(in) - pos < 5 THEN GoFinal(SubSeq(in, pos + 1, Len(in)), pos)
            ELSE IF ~Valued(GroupAt(in, pos)) THEN Invalid(GroupAt(in, pos), pos)
            ELSE IF GroupValueAt(in, pos) >= FutureSignalBase
            THEN Error("UndefinedSignal", pos)
            ELSE IF ~AnnouncesSegment(in, pos)
            THEN After(GroupBytes(GroupValueAt(in, pos)), from[pos + 5])
            ELSE IF segment.kind = "OK"
            THEN After(segment.data, from[pos + 5 + Len(segment.data)])
            ELSE segment
  IN  from[0]

GoDecode(s) ==
  LET first == GoScan(s)
  IN  IF first.kind = "OK" \/ Ignored(s) = {} THEN first ELSE GoScan(WithoutSpace(s))

-----------------------------------------------------------------------------
(* TypeScript.                                                             *)

Rejected == [kind |-> "REJECTED"]

TsScan(s) ==
  LET from[i \in 0..Len(s)] ==
        LET chars   == IF Len(s) - i < 5 THEN SubSeq(s, i + 1, Len(s)) ELSE GroupAt(s, i)
            value   == GroupValueAt(s, i)
            segment == SegmentAt(s, i)
        IN  IF i = Len(s) THEN Decoded(<<>>)
            ELSE IF ~Valued(chars) THEN Rejected
            ELSE IF Len(chars) < 5
            THEN IF Len(chars) > 1 /\ TailAccepted(Values(chars))
                 THEN Decoded(TailBytes(Values(chars))) ELSE Rejected
            ELSE IF value >= FutureSignalBase THEN Rejected
            ELSE IF ~AnnouncesSegment(s, i) THEN After(GroupBytes(value), from[i + 5])
            ELSE IF i + 5 + segment.len > Len(s) \/ ~Valued(SegmentCharsAt(s, i))
            THEN Rejected
            ELSE After(SegmentBytes(segment, SegmentCharsAt(s, i)), from[i + 5 + segment.len])
  IN  from[0]

\* Why a text without white space was rejected; or, should it find nothing
\* wrong, the error the code ends with.
TsReport_CharactersFirst(s) ==
  LET bad == {i \in 1..Len(s) : ValueOf(s[i]) = NoValue}
  IN  IF bad = {} THEN Error("InvalidFinalBlock", 0) ELSE Error("InvalidCharacter", Min(bad) - 1)
TsReport(s) ==
  LET from[i \in 0..Len(s)] ==
        LET left    == Len(s) - i
            chars   == IF left < 5 THEN SubSeq(s, i + 1, Len(s)) ELSE GroupAt(s, i)
            value   == GroupValueAt(s, i)
            next    == i + 5 + SegmentAt(s, i).len
        IN  IF left = 0 THEN Error("InvalidCharacter", 0)
            ELSE IF ~Valued(chars) THEN Invalid(chars, i)
            ELSE IF left = 1 \/ (left < 5 /\ ~TailAccepted(Values(chars)))
            THEN Error("InvalidFinalBlock", i)
            ELSE IF left < 5 THEN from[Len(s)]
            ELSE IF value >= FutureSignalBase THEN Error("UndefinedSignal", i)
            ELSE IF ~AnnouncesSegment(s, i) THEN from[i + 5]
            ELSE IF next > Len(s) THEN Error("UnexpectedEndOfStream", i + 5)
            ELSE IF ~Valued(SegmentCharsAt(s, i)) THEN Invalid(SegmentCharsAt(s, i), i + 5)
            ELSE from[next]
  IN  from[0]

TsDecode(s) ==
  LET first == TsScan(s)
      clean == WithoutSpace(s)
  IN  IF first # Rejected THEN first
      ELSE IF Ignored(s) = {} THEN TsReport(s)
      ELSE IF TsScan(clean) # Rejected THEN TsScan(clean)
      ELSE TsReport(clean)
=============================================================================
