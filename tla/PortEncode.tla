----------------------------- MODULE PortEncode -----------------------------
(***************************************************************************)
(* The Go and the TypeScript encoder (Encode, go/base85n.go; encode,       *)
(* typescript/src/encode.ts), which agree statement for statement: the     *)
(* loop of EncodeRange as a call over the whole input, with a lookahead    *)
(* that tests every position of its grid by itself, no gate before the     *)
(* scan, and a substitution built for each segment.                        *)
(***************************************************************************)
EXTENDS EncodeRange

PortCall(d) == Call(0, Len(d), {}, FALSE)

\* What the lookahead asks at q, each test inside the input.
PortFillAt_GatedAtStart(d, q) ==
  \/ d[q + 1] = Zero
     /\ \/ q + MinTailZeros + 2 <= Len(d) /\ ZerosAt(d, q)
        \/ q + 2 + MinTailZeros <= Len(d) /\ ZerosAt(d, q + 2)
  \/ q + MinFill <= Len(d) /\ RunAt(d, q)
PortFillAt(d, q) ==
  \/ q + 2 < Len(d) /\ d[q + 3] = Zero
     /\ \/ q + MinTailZeros + 2 <= Len(d) /\ ZerosAt(d, q)
        \/ q + 2 + MinTailZeros <= Len(d) /\ ZerosAt(d, q + 2)
  \/ q + MinFill <= Len(d) /\ RunAt(d, q)
PortDpAt(d, q) == q + MinPassthrough <= Len(d) /\ TextAt(d, q)

PortDecisionPoint(d, from) ==
  CHOOSE q \in Grid(from, Len(d)) \cup {Len(d)} :
    /\ q = Len(d) \/ PortFillAt(d, q) \/ PortDpAt(d, q)
    /\ \A g \in Grid(from, q) : ~PortFillAt(d, g) /\ ~PortDpAt(d, g)

PortSkipFrom(d, pos) ==
  IF SkipGate(d, pos) THEN pos + ((PortDecisionPoint(d, pos) - pos) \div 4) * 4 ELSE pos

PortReturn(r) == Return(r)
PortFill(r) == EmitFill(r)

PortDp(r) ==
  LET e   == enc[r]
      len == DpLen(data, e.pos)
  IN  /\ e.running /\ e.pos < Len(data)
      /\ FillCovers(data, e.pos) = 0
      /\ len >= MinPassthrough
      /\ LET donors == Donors(DpProfile(data, e.pos, len), DpMask(data, e.pos, len))
         IN  Advance(r, Emitted(data, e, DpUnit(data, e.pos, len, donors)))

PortBlock(r) ==
  LET e == enc[r]
  IN  /\ e.running /\ e.pos < Len(data)
      /\ FillCovers(data, e.pos) = 0
      /\ DpLen(data, e.pos) < MinPassthrough
      /\ Advance(r, [e EXCEPT
           !.block_start = IF e.block_start = NoBlock THEN e.pos ELSE e.block_start,
           !.pos = PortSkipFrom(data, e.pos + Smaller(Len(data) - e.pos, 4))])

PortStep(r) == PortReturn(r) \/ PortFill(r) \/ PortDp(r) \/ PortBlock(r)
=============================================================================
