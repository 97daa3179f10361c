-------------------------------- MODULE Skip --------------------------------
(***************************************************************************)
(* The block-mode skip of the encoder: next_decision_point and its gates   *)
(* (rust/src/encode.rs).  Inside a block-mode run the encoder only visits  *)
(* every fourth position, and jumps to the next of them at which a Fill or *)
(* a passthrough segment could begin.  The loops look at a whole vector    *)
(* where the build has them (groups_may_hold, rust/src/simd.rs), then at   *)
(* two groups, then at one, then, within MinPassthrough bytes of the end,  *)
(* at single bytes; each position is settled by the loop that reaches it.  *)
(***************************************************************************)
EXTENDS Base85N

CONSTANT SkipBytes   \* SKIP_BYTES (32), or 0 in a build without vectors

\* A vector holds whole pairs of groups: the loop over pairs takes up where it
\* would have stood without vectors.
ASSUME SkipAssumption == SkipBytes \in Nat /\ SkipBytes % 8 = 0

\* All of the eight bytes at q lie in the range a whole-word test can tell.
WordWithin(d, q) == \A j \in 1..8 : d[q + j] \in WordRange

\* The first four bytes at q are representable.
DpTableGate(d, q) == \A j \in 1..4 : d[q + j] \in Representable

\* Whether a segment can begin at q, as far as the gate before the scan tells.
DpGate(d, q) ==
  /\ q + 8 <= Len(d) => WordWithin(d, q)
  /\ q + 4 <= Len(d)
  /\ DpTableGate(d, q)

\* The two-group window at q: can a Fill, can a segment begin at q or q + 4?
WindowMayHoldFill_FirstOfPair(d, q) ==
  d[q + 3] = Zero \/ d[q + 1] = d[q + 2] \/ d[q + 5] = d[q + 6]
WindowMayHoldFill(d, q) ==
  \/ d[q + 3] = Zero \/ d[q + 7] = Zero
  \/ d[q + 1] = d[q + 2] \/ d[q + 5] = d[q + 6]
WindowMayHoldDp(d, q) == WordWithin(d, q + 4)

ZerosAt(d, q) == \A j \in 1..MinTailZeros : d[q + j] = Zero
RunAt(d, q) == \A j \in 2..MinFill : d[q + j] = d[q + 1]
TextAt(d, q) == \A j \in 1..MinPassthrough : d[q + j] \in Representable

\* decision_at, with MinPassthrough bytes from q inside the input.
DecisionAt(d, q, dpMaybe) ==
  \/ d[q + 3] = Zero /\ (ZerosAt(d, q) \/ ZerosAt(d, q + 2))
  \/ RunAt(d, q)
  \/ dpMaybe /\ TextAt(d, q)

\* The same questions near the end of the input, each with its bound.
BoundedDecisionAt(d, q) ==
  LET n == Len(d)
  IN  \/ q + MinTailZeros + 2 <= n /\ ZerosAt(d, q)
      \/ q + 2 + MinTailZeros <= n /\ ZerosAt(d, q + 2)
      \/ q + MinFill <= n /\ RunAt(d, q)
      \/ q + MinPassthrough <= n /\ TextAt(d, q)

\* Positions below FastEnd have MinPassthrough bytes of input after them.
FastEnd(d, limit) == Smaller(limit, Larger(0, Len(d) - MinPassthrough))

\* The positions the skip visits.
Grid(from, limit) == {q \in from..(limit - 1) : (q - from) % 4 = 0}

\* Can a Fill or a segment begin at any of the groups of the vector at v?
GroupMayHold(d, q) == d[q + 3] = Zero \/ d[q + 1] = d[q + 2] \/ WordWithin(d, q)
GroupsMayHold_LastMissed(d, v) ==
  \E q \in Grid(v, v + SkipBytes - 4) : GroupMayHold(d, q)
GroupsMayHold(d, v) == \E q \in Grid(v, v + SkipBytes) : GroupMayHold(d, q)

\* Whether the loop that settles q stops there, having started at from.
StopsAt(d, from, limit, q) ==
  LET window == q - ((q - from) % 8)
      vector == q - ((q - from) % SkipBytes)
      end    == FastEnd(d, limit)
  IN  IF SkipBytes > 0 /\ vector + SkipBytes <= end
      THEN GroupsMayHold(d, vector) /\ DecisionAt(d, q, TRUE)
      ELSE IF window + 4 <= end
      THEN /\ WindowMayHoldFill(d, window) \/ WindowMayHoldDp(d, window)
           /\ DecisionAt(d, q, WindowMayHoldDp(d, window))
      ELSE IF q < end THEN DecisionAt(d, q, TRUE)
      ELSE BoundedDecisionAt(d, q)

NextDecisionPoint(d, from, limit) ==
  CHOOSE q \in Grid(from, limit) \cup {limit} :
    /\ q = limit \/ StopsAt(d, from, limit, q)
    /\ \A g \in Grid(from, q) : ~StopsAt(d, from, limit, g)
=============================================================================
