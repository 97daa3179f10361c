----------------------------- MODULE EncodeRange -----------------------------
(***************************************************************************)
(* The encoding loop (encode_range, rust/src/encode.rs) as a set of calls  *)
(* that run side by side over one input: the sequential encoder is a       *)
(* single call over all of it, the parallel encoder makes one per chunk    *)
(* and one per seam.  enc[r] is the frame of call r.  One action is one    *)
(* iteration of the loop.                                                  *)
(***************************************************************************)
EXTENDS Skip

\* What the size of an output buffer rests on: a Fill, or a segment, never has
\* more characters than block mode would write.
ASSUME CostAssumption == MinPassthrough >= 20 /\ MinFill >= 5 /\ MinTailZeros >= 3

VARIABLES
  data,     \* the input
  enc       \* enc[r]: the frame of call r

NoBlock == -1
NoXlat == [key |-> <<>>, donors |-> <<>>]

\* The frame of a call that has just started.
Call(start, stop, meet, record) ==
  [start |-> start, stop |-> stop, meet |-> meet, record |-> record,
   pos |-> start, block_start |-> NoBlock, out |-> <<>>, points |-> <<>>,
   xlat |-> NoXlat, running |-> TRUE]

\* The groups of the pending block-mode run from start to end.
Groups(d, start, end) ==
  [k \in 1..((end - start + 3) \div 4) |->
     LET at  == start + 4 * (k - 1)
         len == Smaller(end - at, 4)
     IN  [kind |-> "block", at |-> at, len |-> len,
          sig |-> SubSeq(d, at + 1, at + len)]]

\* What the call has produced once its pending run is flushed.
Flushed(d, e) ==
  IF e.block_start = NoBlock THEN e.out
  ELSE e.out \o Groups(d, e.block_start, e.pos)

\* Up to where the call's output, without its pending run, accounts for the
\* input.
OutEnd(e) == IF e.block_start = NoBlock THEN e.pos ELSE e.block_start

\* The characters of a unit (the last group of an input may be partial).
Chars(u) ==
  CASE u.kind = "dp"    -> 5 + u.len
    [] u.kind = "block" -> u.len + 1
    [] OTHER            -> 5

\* The characters of units.
CharsOf(units) ==
  LET sum[k \in 0..Len(units)] == IF k = 0 THEN 0 ELSE sum[k - 1] + Chars(units[k])
  IN  sum[Len(units)]

-----------------------------------------------------------------------------
(* The top of the loop.                                                    *)

\* The loop ends at this position: at the end of the input, or, with nothing
\* pending, at the call's bound or at a splice point of the other encoder.
Stops(d, e) ==
  \/ e.pos >= Len(d)
  \/ e.block_start = NoBlock /\ e.pos >= e.stop
  \/ e.block_start = NoBlock /\ e.pos > e.start /\ e.pos \in e.meet

\* The splice points, with the one this position is where nothing is pending.
Recorded_Pending(e) ==
  IF e.record THEN Append(e.points, [pos |-> e.pos, w |-> Len(e.out)]) ELSE e.points
Recorded_OnePast(e) ==
  IF e.record /\ e.block_start = NoBlock
  THEN Append(e.points, [pos |-> e.pos, w |-> Len(e.out) + 1])
  ELSE e.points
Recorded(e) ==
  IF e.record /\ e.block_start = NoBlock
  THEN Append(e.points, [pos |-> e.pos, w |-> Len(e.out)])
  ELSE e.points

Advance(r, e) == enc' = [enc EXCEPT ![r] = e] /\ UNCHANGED data

\* The end of the call: the pending run is flushed.
Returned(d, e) ==
  [e EXCEPT !.out = Flushed(d, e), !.block_start = NoBlock, !.running = FALSE]

Return(r) ==
  LET e == enc[r]
  IN  /\ e.running /\ Stops(data, e)
      /\ Advance(r, Returned(data, e))

\* A signal or segment unit: the pending run goes first.
Emitted(d, e, unit) ==
  [e EXCEPT !.points = Recorded(e), !.out = Append(Flushed(d, e), unit),
            !.block_start = NoBlock, !.pos = e.pos + unit.len]

\* Step 1.
EmitFill(r) ==
  LET e == enc[r]
  IN  /\ e.running /\ ~Stops(data, e)
      /\ FillCovers(data, e.pos) > 0
      /\ Advance(r, Emitted(data, e, ChooseFill(data, e.pos)))

\* Steps 2 and 3 apply: the scan is only run where its gates let it.
DpApplies_NoLength(d, pos) == Len(d) - pos >= MinPassthrough /\ DpGate(d, pos)
DpApplies(d, pos) ==
  /\ Len(d) - pos >= MinPassthrough
  /\ DpGate(d, pos)
  /\ DpLen(d, pos) >= MinPassthrough

\* The substitution of the segment: the last one built, if its key is the same.
Xlat_Stale(e, key) ==
  IF e.xlat.key # <<>> THEN e.xlat
  ELSE [key |-> key, donors |-> Donors(key[1], key[2])]
Xlat(e, key) ==
  IF e.xlat.key = key THEN e.xlat
  ELSE [key |-> key, donors |-> Donors(key[1], key[2])]

EmitDp(r) ==
  LET e    == enc[r]
      len  == DpLen(data, e.pos)
      xlat == Xlat(e, <<DpProfile(data, e.pos, len), DpMask(data, e.pos, len)>>)
      unit == DpUnit(data, e.pos, len, xlat.donors)
  IN  /\ e.running /\ ~Stops(data, e)
      /\ FillCovers(data, e.pos) = 0
      /\ DpApplies(data, e.pos)
      /\ Advance(r, [Emitted(data, e, unit) EXCEPT !.xlat = xlat])

\* Whether the skip looks ahead from pos at all.
SkipGate(d, pos) == pos < Len(d) /\ d[pos + 1] \notin Representable

\* How far the skip carries a call that stands at pos: a whole number of groups.
SkipFrom_Unrounded(d, pos, stop) ==
  IF SkipGate(d, pos)
  THEN NextDecisionPoint(d, pos, Smaller(Len(d), Larger(stop, pos))) ELSE pos
SkipFrom_Unbounded(d, pos, stop) ==
  IF SkipGate(d, pos)
  THEN pos + ((NextDecisionPoint(d, pos, Len(d)) - pos) \div 4) * 4 ELSE pos
SkipFrom_OneShort(d, pos, stop) ==
  IF SkipGate(d, pos)
  THEN LET next == NextDecisionPoint(d, pos, Smaller(Len(d), Larger(stop, pos)))
       IN  pos + ((next - pos) \div 4) * 4 - 4
  ELSE pos
SkipFrom(d, pos, stop) ==
  IF SkipGate(d, pos)
  THEN LET next == NextDecisionPoint(d, pos, Smaller(Len(d), Larger(stop, pos)))
       IN  pos + ((next - pos) \div 4) * 4
  ELSE pos

\* Step 4: one group joins the pending run and the skip follows.
Taken_WholeGroup(d, e) ==
  [e EXCEPT !.points = Recorded(e),
            !.block_start = IF e.block_start = NoBlock THEN e.pos ELSE e.block_start,
            !.pos = SkipFrom(d, e.pos + 4, e.stop)]
Taken(d, e) ==
  [e EXCEPT !.points = Recorded(e),
            !.block_start = IF e.block_start = NoBlock THEN e.pos ELSE e.block_start,
            !.pos = SkipFrom(d, e.pos + Smaller(Len(d) - e.pos, 4), e.stop)]

\* The call returns at once if that took it to its bound.
TakeBlock(r) ==
  LET e     == enc[r]
      taken == Taken(data, e)
  IN  /\ e.running /\ ~Stops(data, e)
      /\ FillCovers(data, e.pos) = 0
      /\ ~DpApplies(data, e.pos)
      /\ Advance(r, IF taken.pos < e.stop THEN taken ELSE Returned(data, taken))

EncodeStep(r) == Return(r) \/ EmitFill(r) \/ EmitDp(r) \/ TakeBlock(r)
=============================================================================
