------------------------- MODULE EncodeRangeProofs -------------------------
(***************************************************************************)
(* The encoding loop, for every input and every alphabet.  First facts of  *)
(* the format: what a construct needs of the input it begins at, that the  *)
(* gates and windows of the skip only rule out what cannot be there, and   *)
(* how canonical encodings are joined and cut.  Then the inductive         *)
(* invariant of one frame of encode_range, and that every iteration of the *)
(* loop keeps it and extends the call's output by a canonical piece.       *)
(* Everything the encoders promise rests on this one.                      *)
(***************************************************************************)
EXTENDS EncodeRange, WireProofs

-----------------------------------------------------------------------------
(* What a construct needs of the input it begins at.                       *)

\* A Fill needs a run of MinFill bytes, or MinTailZeros zeros at its start or
\* two bytes in, all of it inside the input.
LEMMA FillNeeds ==
  ASSUME NEW d \in Seq(Byte), NEW p \in 0..(Len(d) - 1)
  PROVE  /\ FillCovers(d, p) \in 0..(Len(d) - p)
         /\ FillCovers(d, p) > 0 =>
              \/ p + MinFill <= Len(d) /\ RunAt(d, p)
              \/ p + MinTailZeros + 2 <= Len(d) /\ ZerosAt(d, p)
              \/ p + 2 + MinTailZeros <= Len(d) /\ ZerosAt(d, p + 2)
<1>0. /\ FillRun(d, p) \in 1..(Len(d) - p)
      /\ \A j \in 1..FillRun(d, p) : d[p + j] = d[p + 1]
  BY FillRunFacts
<1>1. /\ SolidCovers(d, p) \in 0..(Len(d) - p)
      /\ SolidCovers(d, p) > 0 => p + MinFill <= Len(d) /\ RunAt(d, p)
  <2>1. CASE FillRun(d, p) >= MinFill
    <3>1. \A j \in 2..MinFill : d[p + j] = d[p + 1]
      BY <1>0, <2>1, ThresholdsAssumption
    <3> QED BY <1>0, <2>1, <3>1, ThresholdsAssumption DEF SolidCovers, RunAt
  <2>2. CASE ~(FillRun(d, p) >= MinFill)
    BY <1>0, <2>2 DEF SolidCovers
  <2> QED BY <2>1, <2>2
<1>2. /\ ZerosFirstCovers(d, p) \in 0..(Len(d) - p)
      /\ ZerosFirstCovers(d, p) > 0 => p + MinTailZeros + 2 <= Len(d) /\ ZerosAt(d, p)
  <2>1. ZerosFirstCovers(d, p) \in 0..(Len(d) - p)
    BY FillRunFacts, ThresholdsAssumption DEF ZerosFirstCovers, Smaller
  <2>2. ASSUME ZerosFirstCovers(d, p) > 0
        PROVE  p + MinTailZeros + 2 <= Len(d) /\ ZerosAt(d, p)
    <3>1. d[p + 1] = Zero /\ FillRun(d, p) >= MinTailZeros /\ p + MinTailZeros + 2 <= Len(d)
      BY <2>2, FillRunFacts, ThresholdsAssumption DEF ZerosFirstCovers, Smaller
    <3>2. \A j \in 1..MinTailZeros : d[p + j] = Zero
      BY <1>0, <3>1, ThresholdsAssumption
    <3> QED BY <3>1, <3>2 DEF ZerosAt
  <2> QED BY <2>1, <2>2
<1>3. /\ LiteralsFirstCovers(d, p) \in 0..(Len(d) - p)
      /\ LiteralsFirstCovers(d, p) > 0 =>
           p + 2 + MinTailZeros <= Len(d) /\ ZerosAt(d, p + 2)
  <2> SUFFICES ASSUME LiteralsFirstCovers(d, p) # 0
               PROVE  /\ LiteralsFirstCovers(d, p) \in 0..(Len(d) - p)
                      /\ p + 2 + MinTailZeros <= Len(d) /\ ZerosAt(d, p + 2)
    OBVIOUS
  <2>1. /\ Len(d) - p >= 3 /\ ZeroRun(d, p + 2) >= MinTailZeros
        /\ LiteralsFirstCovers(d, p) = ZeroRun(d, p + 2) + 2
    BY DEF LiteralsFirstCovers
  <2>2. p + 2 \in 0..Len(d)
    BY <2>1
  <2>3. /\ ZeroRun(d, p + 2) \in 0..(Len(d) - (p + 2))
        /\ \A j \in 1..ZeroRun(d, p + 2) : d[p + 2 + j] = Zero
    BY <2>2, ZeroRunFacts
  <2>4. \A j \in 1..MinTailZeros : d[p + 2 + j] = Zero
    BY <2>1, <2>3, ThresholdsAssumption
  <2> QED BY <2>1, <2>3, <2>4, ThresholdsAssumption DEF ZerosAt
<1> QED BY <1>1, <1>2, <1>3 DEF FillCovers

\* A passthrough segment needs MinPassthrough representable bytes.
LEMMA DpNeeds ==
  ASSUME NEW d \in Seq(Byte), NEW p \in 0..Len(d), DpLen(d, p) >= MinPassthrough
  PROVE  p + MinPassthrough <= Len(d) /\ TextAt(d, p)
<1>1. DpLen(d, p) \in 0..(Len(d) - p) /\ MinPassthrough \in Nat
  BY DpLenFacts, ThresholdsAssumption
<1>2. ASSUME NEW j \in 1..MinPassthrough PROVE d[p + j] \in Representable
  <2> DEFINE i == j - 1
  <2>1. i \in 0..(DpLen(d, p) - 1)
    BY <1>1
  <2>2. ~DpEnds(d, p, i)
    BY <2>1, DpLenFacts
  <2>3. d[p + i + 1] \in Representable
    BY <2>2 DEF DpEnds
  <2>4. p + i + 1 = p + j
    BY <1>1
  <2> QED BY <2>3, <2>4
<1> QED BY <1>1, <1>2 DEF TextAt

-----------------------------------------------------------------------------
(* The tests of the skip only rule out what cannot be there.               *)


\* The whole-word test of the gate accepts every representable byte.
LEMMA RepresentableInRange == \A b : b \in Representable => b \in WordRange
BY BytesAssumption

\* The gate before the scan lets every segment pass.
LEMMA GateSound ==
  ASSUME NEW d \in Seq(Byte), NEW p \in 0..Len(d), DpLen(d, p) >= MinPassthrough
  PROVE  DpApplies(d, p)
<1>1. p + MinPassthrough <= Len(d) /\ TextAt(d, p)
  BY DpNeeds
<1>2. DpTableGate(d, p)
  <2>1. \A j \in 1..4 : j \in 1..MinPassthrough
    BY ThresholdsAssumption
  <2> QED BY <1>1, <2>1 DEF TextAt, DpTableGate
<1>3. WordWithin(d, p)
  BY <1>1, ThresholdsAssumption, RepresentableInRange, SMTT(30) DEF TextAt, WordWithin
<1> QED BY <1>1, <1>2, <1>3, ThresholdsAssumption DEF DpGate, DpApplies

\* Near the end of the input, a position the skip passes holds neither a
\* Fill nor a segment.
LEMMA BoundedDecisionSound ==
  ASSUME NEW d \in Seq(Byte), NEW q \in 0..(Len(d) - 1), ~BoundedDecisionAt(d, q)
  PROVE  OnlyBlock(d, q)
<1>1. FillCovers(d, q) = 0
  BY FillNeeds DEF BoundedDecisionAt
<1>2. ~(DpLen(d, q) >= MinPassthrough)
  BY DpNeeds DEF BoundedDecisionAt
<1> QED BY <1>1, <1>2 DEF OnlyBlock

\* Away from the end, too, provided a segment was asked about or is ruled out.
LEMMA DecisionSound ==
  ASSUME NEW d \in Seq(Byte), NEW q \in 0..(Len(d) - 1), NEW dpMaybe \in BOOLEAN,
         ~DecisionAt(d, q, dpMaybe), dpMaybe \/ ~(DpLen(d, q) >= MinPassthrough)
  PROVE  OnlyBlock(d, q)
<1>1. ZerosAt(d, q) \/ ZerosAt(d, q + 2) => d[q + 3] = Zero
  <2>1. ZerosAt(d, q) => d[q + 3] = Zero
    BY ThresholdsAssumption DEF ZerosAt
  <2>2. ZerosAt(d, q + 2) => d[q + 2 + 1] = Zero
    BY ThresholdsAssumption DEF ZerosAt
  <2> QED BY <2>1, <2>2
<1>2. FillCovers(d, q) = 0
  BY <1>1, FillNeeds DEF DecisionAt
<1>3. ~(DpLen(d, q) >= MinPassthrough)
  BY DpNeeds DEF DecisionAt
<1> QED BY <1>2, <1>3 DEF OnlyBlock

\* Both groups of a window, the one at w and the one at w + 4.
LEMMA WindowSound ==
  ASSUME NEW d \in Seq(Byte), NEW w \in Nat, NEW q \in {w, w + 4}, q < Len(d)
  PROVE  /\ ~WindowMayHoldFill(d, w) => FillCovers(d, q) = 0
         /\ ~WindowMayHoldDp(d, w) => ~(DpLen(d, q) >= MinPassthrough)
<1>1. ASSUME FillCovers(d, q) # 0 PROVE WindowMayHoldFill(d, w)
  <2>1. \/ RunAt(d, q)
        \/ ZerosAt(d, q)
        \/ ZerosAt(d, q + 2)
    BY <1>1, FillNeeds
  <2>2. RunAt(d, q) => d[q + 1] = d[q + 2]
    BY ThresholdsAssumption DEF RunAt
  <2>3. ZerosAt(d, q) => d[q + 3] = Zero
    BY ThresholdsAssumption DEF ZerosAt
  <2>4. ZerosAt(d, q + 2) => d[q + 2 + 1] = Zero
    BY ThresholdsAssumption DEF ZerosAt
  <2> QED BY <2>1, <2>2, <2>3, <2>4 DEF WindowMayHoldFill
<1>2. ASSUME DpLen(d, q) >= MinPassthrough PROVE WindowMayHoldDp(d, w)
  <2>1. TextAt(d, q)
    BY <1>2, DpNeeds
  <2>2. ASSUME NEW j \in 1..8 PROVE d[w + 4 + j] \in WordRange
    <3> DEFINE i == w + 4 + j - q
    <3>1. i \in 1..MinPassthrough /\ q + i = w + 4 + j
      BY ThresholdsAssumption
    <3>2. d[q + i] \in Representable
      BY <2>1, <3>1 DEF TextAt
    <3> QED BY <3>1, <3>2, RepresentableInRange
  <2> QED BY <2>2 DEF WindowMayHoldDp, WordWithin
<1> QED BY <1>1, <1>2

\* The remainder of a multiple of four by the size of a vector is one, too.
LEMMA VectorPhase ==
  ASSUME NEW x \in Nat, x % 4 = 0, SkipBytes > 0
  PROVE  /\ x % SkipBytes \in 0..(SkipBytes - 1) /\ x % SkipBytes <= x
         /\ (x % SkipBytes) % 4 = 0
<1> DEFINE m == SkipBytes \div 8
           k == x \div SkipBytes
           p == m * k
<1>1. m \in Nat /\ SkipBytes = 8 * m
  BY SkipAssumption
<1>2. k \in Nat /\ x = SkipBytes * k + (x % SkipBytes) /\ x % SkipBytes \in 0..(SkipBytes - 1)
  BY SkipAssumption
<1>3. p \in Nat /\ SkipBytes * k = 8 * p
  BY <1>1, <1>2
<1>4. x % SkipBytes = x - 8 * p
  BY <1>2, <1>3, SkipAssumption
<1> HIDE DEF p
<1> QED BY <1>2, <1>3, <1>4

\* Each group of a vector.
LEMMA GroupSound ==
  ASSUME NEW d \in Seq(Byte), NEW q \in 0..(Len(d) - 1), ~GroupMayHold(d, q)
  PROVE  OnlyBlock(d, q)
<1>1. FillCovers(d, q) = 0
  <2>1. RunAt(d, q) => d[q + 1] = d[q + 2]
    BY ThresholdsAssumption DEF RunAt
  <2>2. ZerosAt(d, q) => d[q + 3] = Zero
    BY ThresholdsAssumption DEF ZerosAt
  <2>3. ZerosAt(d, q + 2) => d[q + 2 + 1] = Zero
    BY ThresholdsAssumption DEF ZerosAt
  <2> QED BY <2>1, <2>2, <2>3, FillNeeds DEF GroupMayHold
<1>2. ASSUME DpLen(d, q) >= MinPassthrough PROVE WordWithin(d, q)
  BY <1>2, GateSound, DpNeeds, ThresholdsAssumption DEF DpApplies, DpGate
<1> QED BY <1>1, <1>2 DEF GroupMayHold, OnlyBlock

\* Whichever loop of the skip settles a position: where it does not stop, only
\* a block-mode group begins.
LEMMA StopsAtSound ==
  ASSUME NEW d \in Seq(Byte), NEW from \in Nat, NEW limit \in 0..Len(d),
         NEW q \in Grid(from, limit), ~StopsAt(d, from, limit, q)
  PROVE  OnlyBlock(d, q)
<1> DEFINE window == q - ((q - from) % 8)
           vector == q - ((q - from) % SkipBytes)
           end == FastEnd(d, limit)
           vectored == SkipBytes > 0 /\ vector + SkipBytes <= end
<1>1. q \in 0..(Len(d) - 1) /\ q \in from..(limit - 1) /\ (q - from) % 4 = 0
  BY DEF Grid
<1>2. window \in Nat /\ q \in {window, window + 4}
  BY <1>1
<1>7. CASE vectored /\ ~GroupsMayHold(d, vector)
  <2>1. q \in Grid(vector, vector + SkipBytes)
    <3> DEFINE r == (q - from) % SkipBytes
    <3>1. r \in 0..(SkipBytes - 1) /\ r <= q - from /\ r % 4 = 0
      BY <1>1, <1>7, VectorPhase
    <3>2. vector = q - r
      OBVIOUS
    <3> HIDE DEF r, vector
    <3> QED BY <1>1, <3>1, <3>2, SkipAssumption DEF Grid
  <2>2. ~GroupMayHold(d, q)
    BY <1>7, <2>1 DEF GroupsMayHold
  <2> QED BY <1>1, <2>2, GroupSound
<1>8. CASE vectored /\ ~DecisionAt(d, q, TRUE)
  BY <1>1, <1>8, DecisionSound
<1>3. CASE window + 4 <= end /\ ~(WindowMayHoldFill(d, window) \/ WindowMayHoldDp(d, window))
  BY <1>1, <1>2, <1>3, WindowSound, SMTT(30) DEF OnlyBlock
<1>4. CASE window + 4 <= end /\ ~DecisionAt(d, q, WindowMayHoldDp(d, window))
  <2>1. WindowMayHoldDp(d, window) \in BOOLEAN
    BY DEF WindowMayHoldDp, WordWithin
  <2> QED BY <1>1, <1>2, <1>4, <2>1, WindowSound, DecisionSound, SMTT(30)
<1>5. CASE ~(window + 4 <= end) /\ ~DecisionAt(d, q, TRUE)
  BY <1>1, <1>5, DecisionSound
<1>6. CASE ~(window + 4 <= end) /\ ~BoundedDecisionAt(d, q)
  BY <1>1, <1>6, BoundedDecisionSound
<1> QED BY <1>3, <1>4, <1>5, <1>6, <1>7, <1>8 DEF StopsAt

\* The skip ends in its range, and takes only block-mode groups to get there.
LEMMA SkipSound ==
  ASSUME NEW d \in Seq(Byte), NEW from \in Nat, NEW limit \in from..Len(d)
  PROVE  /\ NextDecisionPoint(d, from, limit) \in from..limit
         /\ \A q \in Grid(from, NextDecisionPoint(d, from, limit)) : OnlyBlock(d, q)
<1> DEFINE stops(q) == q = limit \/ StopsAt(d, from, limit, q)
           first(q) == stops(q) /\ \A g \in Grid(from, q) : ~StopsAt(d, from, limit, g)
           R == Grid(from, limit) \cup {limit}
           S == {q \in R : stops(q)}
           next == NextDecisionPoint(d, from, limit)
<1>1. R \subseteq from..limit
  BY DEF Grid
<1>2. PICK m \in S : \A x \in S : m <= x
  <2>1. S \in SUBSET Nat /\ limit \in S
    BY <1>1
  <2> QED BY <2>1, LeastNat, Zenon
<1>3. ASSUME NEW g \in Grid(from, m) PROVE ~StopsAt(d, from, limit, g)
  <2>1. g \in Grid(from, limit) /\ g < m
    BY <1>1, <1>2 DEF Grid
  <2>2. g \notin S
    BY <1>1, <1>2, <2>1
  <2> QED BY <2>1, <2>2
<1>4. m \in R /\ first(m)
  BY <1>2, <1>3
<1>5. next = CHOOSE q \in R : first(q)
  BY Zenon DEF NextDecisionPoint
<1>6. next \in R /\ first(next)
  <2> HIDE DEF first, R, next
  <2> QED BY <1>4, <1>5, Zenon
<1>7. ASSUME NEW q \in Grid(from, next) PROVE OnlyBlock(d, q)
  <2>1. q \in Grid(from, limit) /\ ~StopsAt(d, from, limit, q)
    BY <1>1, <1>6 DEF Grid
  <2> QED BY <2>1, StopsAtSound
<1> QED BY <1>1, <1>6, <1>7

\* From where it stands the skip moves on by whole groups, not past the bound,
\* and past block-mode groups only.
LEMMA SkipFromFacts ==
  ASSUME NEW d \in Seq(Byte), NEW pos \in 0..Len(d), NEW stop \in Nat
  PROVE  /\ SkipFrom(d, pos, stop) \in pos..Len(d)
         /\ SkipFrom(d, pos, stop) <= Larger(stop, pos)
         /\ (SkipFrom(d, pos, stop) - pos) % 4 = 0
         /\ \A q \in Grid(pos, SkipFrom(d, pos, stop)) : OnlyBlock(d, q)
<1> DEFINE limit == Smaller(Len(d), Larger(stop, pos))
           next == NextDecisionPoint(d, pos, limit)
           to == SkipFrom(d, pos, stop)
<1>1. CASE ~SkipGate(d, pos)
  <2>1. to = pos
    BY <1>1 DEF SkipFrom
  <2> QED BY <2>1 DEF Grid, Larger
<1>2. CASE SkipGate(d, pos)
  <2>1. limit \in pos..Len(d) /\ limit <= Larger(stop, pos)
    BY DEF Smaller, Larger
  <2>2. next \in pos..limit /\ \A q \in Grid(pos, next) : OnlyBlock(d, q)
    BY <2>1, SkipSound
  <2>3. to = pos + ((next - pos) \div 4) * 4
    BY <1>2 DEF SkipFrom
  <2> HIDE DEF limit, next, to
  <2>4. to \in pos..next /\ (to - pos) % 4 = 0
    <3> DEFINE k == (next - pos) \div 4
    <3>1. k \in Nat /\ k * 4 <= next - pos
      BY <2>1, <2>2
    <3>2. to = pos + k * 4
      BY <2>3
    <3> QED BY <2>1, <2>2, <3>1, <3>2
  <2>5. \A q \in Grid(pos, to) : OnlyBlock(d, q)
    BY <2>1, <2>2, <2>4 DEF Grid
  <2>6. Larger(stop, pos) \in Nat
    BY DEF Larger
  <2> QED BY <2>1, <2>2, <2>4, <2>5, <2>6 DEF to
<1> QED BY <1>1, <1>2

-----------------------------------------------------------------------------
(* Runs of groups.                                                         *)

\* A pending run that stands for block-mode groups only, whole ones but for
\* the last one of the input.
BlockRun(d, start, end) ==
  /\ start \in 0..Len(d) /\ end \in start..Len(d)
  /\ (end - start) % 4 = 0 \/ end = Len(d)
  /\ \A q \in Grid(start, end) : OnlyBlock(d, q)

\* A flushed run is canonical, one unit per position of its grid.
LEMMA GroupsCanon ==
  ASSUME NEW d \in Seq(Byte), NEW start, NEW end, BlockRun(d, start, end)
  PROVE  /\ Groups(d, start, end) \in Seq(Units(d))
         /\ Canon(d, start, Groups(d, start, end), end)
         /\ Len(Groups(d, start, end)) = (end - start + 3) \div 4
         /\ \A k \in 1..Len(Groups(d, start, end)) :
              Groups(d, start, end)[k] = UnitAt(d, start + 4 * (k - 1))
         /\ Groups(d, start, end) # <<>> <=> start < end
<1> DEFINE g == Groups(d, start, end)
           n == (end - start + 3) \div 4
           at(k) == start + 4 * (k - 1)
<1>1. /\ start \in 0..Len(d) /\ end \in start..Len(d) /\ n \in Nat
      /\ n * 4 <= end - start + 3 /\ end - start + 3 < n * 4 + 4
  BY DEF BlockRun
<1>2. ASSUME NEW k \in 1..n
      PROVE  /\ at(k) \in 0..(Len(d) - 1) /\ at(k) \in Grid(start, end)
             /\ Smaller(end - at(k), 4) = Smaller(Len(d) - at(k), 4)
             /\ at(k) + Smaller(Len(d) - at(k), 4) = (IF k = n THEN end ELSE at(k + 1))
  <2>1. at(k) \in start..(end - 1) /\ (at(k) - start) % 4 = 0
    BY <1>1
  <2>2. k # n => at(k) + 4 <= end
    BY <1>1
  <2>3. k = n => at(k) + 4 >= end
    BY <1>1
  <2>4. k = n /\ end # Len(d) => at(k) + 4 = end
    BY <1>1 DEF BlockRun
  <2>5. at(k) + 4 <= end \/ end = Len(d)
    BY <1>1, <2>1, <2>2, <2>3, <2>4
  <2>6. at(k + 1) = at(k) + 4
    BY <1>1
  <2> HIDE DEF at, n
  <2>7. at(k) \in Nat /\ end \in Nat /\ Len(d) \in Nat /\ end <= Len(d)
    BY <1>1, <2>1
  <2>8. Smaller(end - at(k), 4) = Smaller(Len(d) - at(k), 4)
    BY <2>5, <2>7 DEF Smaller
  <2>9. at(k) + Smaller(Len(d) - at(k), 4) = (IF k = n THEN end ELSE at(k + 1))
    BY <2>2, <2>3, <2>4, <2>6, <2>7 DEF Smaller
  <2> QED BY <1>1, <2>1, <2>8, <2>9 DEF Grid
<1>3. ASSUME NEW k \in 1..n
      PROVE  /\ UnitAt(d, at(k)) = BlockUnit(d, at(k))
             /\ UnitAt(d, at(k)).at = at(k) /\ UnitAt(d, at(k)) \in Units(d)
             /\ UnitAt(d, at(k)).len = Smaller(Len(d) - at(k), 4)
  <2>1. UnitAt(d, at(k)) = BlockUnit(d, at(k))
    BY <1>2, UnitFacts DEF BlockRun
  <2>2. BlockUnit(d, at(k)).len = Smaller(Len(d) - at(k), 4)
    BY DEF BlockUnit
  <2> QED BY <1>2, <2>1, <2>2, UnitFacts
<1>4. g = [k \in 1..n |-> UnitAt(d, at(k))]
  <2>1. g = [k \in 1..n |->
               [kind |-> "block", at |-> at(k), len |-> Smaller(end - at(k), 4),
                sig |-> SubSeq(d, at(k) + 1, at(k) + Smaller(end - at(k), 4))]]
    BY DEF Groups
  <2>2. ASSUME NEW k \in 1..n
        PROVE  UnitAt(d, at(k)) =
                 [kind |-> "block", at |-> at(k), len |-> Smaller(end - at(k), 4),
                  sig |-> SubSeq(d, at(k) + 1, at(k) + Smaller(end - at(k), 4))]
    BY <1>2, <1>3 DEF BlockUnit
  <2> HIDE DEF g, n, at
  <2> QED BY <2>1, <2>2
<1>5. /\ g \in Seq(Units(d)) /\ Len(g) = n /\ (g # <<>> <=> n > 0)
      /\ \A k \in 1..n : g[k] = UnitAt(d, at(k))
  <2> HIDE DEF n, at, g
  <2> QED BY <1>1, <1>3, <1>4, SMTT(30)
<1>6. ASSUME NEW k \in 1..n
      PROVE  /\ g[k].at \in 0..(Len(d) - 1)
             /\ g[k] = UnitAt(d, g[k].at)
             /\ g[k].at + g[k].len = (IF k = n THEN end ELSE g[k + 1].at)
  <2>1. g[k] = UnitAt(d, at(k)) /\ g[k].at = at(k) /\ g[k].len = Smaller(Len(d) - at(k), 4)
    BY <1>3, <1>5
  <2>2. ASSUME k # n PROVE g[k + 1].at = at(k + 1)
    <3>1. k + 1 \in 1..n
      BY <1>1, <2>2
    <3> HIDE DEF g, n, at
    <3> QED BY <1>3, <1>5, <3>1
  <2> HIDE DEF g, n, at
  <2> QED BY <1>2, <2>1, <2>2
<1>7. (IF g = <<>> THEN end ELSE g[1].at) = start
  <2>1. CASE n = 0
    <3>1. g = <<>> /\ end = start
      <4> HIDE DEF g
      <4> QED BY <1>1, <1>5, <2>1
    <3> HIDE DEF g
    <3> QED BY <3>1
  <2>2. CASE n > 0
    <3>1. 1 \in 1..n /\ at(1) = start
      BY <1>1, <2>2
    <3>2. g[1].at = at(1)
      BY <1>3, <1>5, <3>1
    <3> HIDE DEF g, at
    <3> QED BY <1>5, <2>2, <3>1, <3>2
  <2> QED BY <1>1, <2>1, <2>2
<1>8. n > 0 <=> start < end
  BY <1>1
<1>9. Canon(d, start, g, end)
  <2> HIDE DEF g, n
  <2> QED BY <1>5, <1>6, <1>7 DEF Canon
<1>10. \A k \in 1..Len(g) : g[k] = UnitAt(d, start + 4 * (k - 1))
  BY <1>5
<1> HIDE DEF g
<1> QED BY <1>5, <1>8, <1>9, <1>10 DEF g

-----------------------------------------------------------------------------
(* The invariant.                                                          *)

\* The substitutions a call can hold: each is the one of its key.
Keys(d) ==
  {<<DpProfile(d, p, len), DpMask(d, p, len)>> : p \in 0..Len(d), len \in 0..Len(d)}
Xlats(d) ==
  {NoXlat} \cup {[key |-> key, donors |-> Donors(key[1], key[2])] : key \in Keys(d)}

Frames(d) ==
  [start : Nat, stop : 0..Len(d), meet : SUBSET Nat, record : BOOLEAN,
   pos : 0..Len(d), block_start : Nat \cup {NoBlock},
   out : Seq(Units(d)), points : Seq([pos : Nat, w : Nat]),
   xlat : Xlats(d), running : BOOLEAN]

\* Splice points of a call from start that stands at pos: ascending, each at
\* the position where the part of the output u, which ends at b, begins.
PointsOK(points, start, meet, u, b, pos) ==
  \A k \in 1..Len(points) :
    /\ points[k].pos \in start..(pos - 1)
    /\ points[k].w \in 0..Len(u)
    /\ points[k].pos = StartOf(u, points[k].w, b)
    /\ k > 1 => points[k - 1].pos < points[k].pos
    /\ points[k].pos > start => points[k].pos \notin meet

\* A pending run holds block-mode groups only, all of them below the bound.
PendingOK(d, e) ==
  e.block_start # NoBlock =>
    /\ e.block_start \in e.start..(e.pos - 1)
    /\ BlockRun(d, e.block_start, e.pos)
    /\ \A q \in Grid(e.block_start, e.pos) : q < e.stop

FrameCore(d, e) ==
  /\ e \in Frames(d)
  /\ e.start <= e.pos /\ e.start <= e.stop
  /\ Canon(d, e.start, e.out, OutEnd(e))
  /\ \A k \in 1..Len(e.out) : e.out[k].at < e.stop
  /\ PendingOK(d, e)
  /\ PointsOK(e.points, e.start, e.meet, e.out, OutEnd(e), e.pos)

\* A call that still runs has its pending run below its bound; one that has
\* returned has none, and stands at its bound or at a meeting point.
FrameInv(d, e) ==
  /\ FrameCore(d, e)
  /\ e.running => (e.block_start # NoBlock => e.pos < e.stop)
  /\ ~e.running => /\ e.block_start = NoBlock
                   /\ e.pos >= e.stop \/ e.pos \in e.meet

\* From e to f the call's output grew by a canonical piece.
Grew(d, e, f) ==
  /\ f.start = e.start /\ f.stop = e.stop /\ f.meet = e.meet
  /\ f.pos >= e.pos
  /\ \E v \in Seq(Units(d)) :
       /\ Flushed(d, f) = Flushed(d, e) \o v
       /\ Canon(d, e.pos, v, f.pos)

-----------------------------------------------------------------------------
(* Splice points.                                                          *)

\* A splice point stays good when the output grows after it.
LEMMA PointsKept ==
  ASSUME NEW d \in Seq(Byte), NEW u \in Seq(Units(d)), NEW v \in Seq(Units(d)),
         NEW b, NEW c, Canon(d, b, v, c),
         NEW start \in Nat, NEW meet, NEW pos \in Nat, NEW to \in Nat, pos <= to,
         NEW points \in Seq([pos : Nat, w : Nat]),
         PointsOK(points, start, meet, u, b, pos)
  PROVE  PointsOK(points, start, meet, u \o v, c, to)
<1> DEFINE w == u \o v
<1>1. /\ Len(w) = Len(u) + Len(v) /\ Len(u) \in Nat /\ Len(v) \in Nat
      /\ \A k \in 1..Len(u) : w[k] = u[k]
      /\ Len(v) # 0 => w[Len(u) + 1] = v[1]
  OBVIOUS
<1>2. Len(v) = 0 <=> v = <<>>
  OBVIOUS
<1> HIDE DEF w
<1>3. ASSUME NEW i \in 0..Len(u) PROVE StartOf(w, i, c) = StartOf(u, i, b)
  <2>1. CASE i < Len(u)
    <3>1. i + 1 \in 1..Len(u) /\ i # Len(u) /\ i # Len(w)
      BY <1>1, <2>1
    <3> QED BY <1>1, <3>1 DEF StartOf
  <2>2. CASE i = Len(u) /\ Len(v) = 0
    BY <1>1, <1>2, <2>2 DEF StartOf, Canon
  <2>3. CASE i = Len(u) /\ Len(v) # 0
    <3>1. v[1].at = b
      BY <1>2, <2>3 DEF Canon
    <3>2. i # Len(w) /\ w[i + 1] = v[1]
      BY <1>1, <2>3
    <3> QED BY <2>3, <3>1, <3>2 DEF StartOf
  <2>4. i < Len(u) \/ i = Len(u)
    BY <1>1
  <2> QED BY <2>1, <2>2, <2>3, <2>4
<1>4. ASSUME NEW k \in 1..Len(points)
      PROVE  /\ points[k].pos \in start..(to - 1)
             /\ points[k].w \in 0..Len(w)
             /\ points[k].pos = StartOf(w, points[k].w, c)
             /\ k > 1 => points[k - 1].pos < points[k].pos
             /\ points[k].pos > start => points[k].pos \notin meet
  <2>1. /\ points[k].pos \in start..(pos - 1)
        /\ points[k].w \in 0..Len(u)
        /\ points[k].pos = StartOf(u, points[k].w, b)
        /\ k > 1 => points[k - 1].pos < points[k].pos
        /\ points[k].pos > start => points[k].pos \notin meet
    BY DEF PointsOK
  <2>2. StartOf(w, points[k].w, c) = StartOf(u, points[k].w, b)
    BY <1>3, <2>1
  <2>3. points[k].pos \in start..(to - 1)
    BY <2>1
  <2>4. points[k].w \in 0..Len(w)
    <3>1. points[k].w \in 0..Len(u)
      BY <2>1
    <3> QED BY <1>1, <3>1, SMTT(30)
  <2> QED BY <2>1, <2>2, <2>3, <2>4, Zenon
<1> QED BY <1>4 DEF PointsOK, w

\* The position of the cursor, with nothing pending, is a good splice point.
LEMMA PointRecorded ==
  ASSUME NEW d \in Seq(Byte), NEW u \in Seq(Units(d)),
         NEW start \in Nat, NEW meet, NEW pos \in Nat, NEW to \in Nat,
         start <= pos, pos < to, pos > start => pos \notin meet,
         NEW points \in Seq([pos : Nat, w : Nat]),
         PointsOK(points, start, meet, u, pos, pos)
  PROVE  LET more == Append(points, [pos |-> pos, w |-> Len(u)])
         IN  /\ more \in Seq([pos : Nat, w : Nat])
             /\ PointsOK(more, start, meet, u, pos, to)
<1> DEFINE point == [pos |-> pos, w |-> Len(u)]
           more == Append(points, point)
           n == Len(points)
<1>1. n \in Nat /\ Len(u) \in Nat /\ point \in [pos : Nat, w : Nat]
      /\ point.pos = pos /\ point.w = Len(u)
  OBVIOUS
<1>2. /\ more \in Seq([pos : Nat, w : Nat]) /\ Len(more) = n + 1
      /\ more[n + 1] = point /\ \A k \in 1..n : more[k] = points[k]
  BY <1>1
<1> HIDE DEF point, more
<1>3. ASSUME NEW k \in 1..(n + 1)
      PROVE  /\ more[k].pos \in start..(to - 1)
             /\ more[k].w \in 0..Len(u)
             /\ more[k].pos = StartOf(u, more[k].w, pos)
             /\ k > 1 => more[k - 1].pos < more[k].pos
             /\ more[k].pos > start => more[k].pos \notin meet
  <2>1. CASE k <= n
    <3>1. k \in 1..n /\ (k > 1 => k - 1 \in 1..n)
      BY <1>1, <2>1
    <3>2. more[k] = points[k] /\ (k > 1 => more[k - 1] = points[k - 1])
      BY <1>2, <3>1
    <3>3. /\ points[k].pos \in start..(pos - 1)
          /\ points[k].w \in 0..Len(u)
          /\ points[k].pos = StartOf(u, points[k].w, pos)
          /\ k > 1 => points[k - 1].pos < points[k].pos
          /\ points[k].pos > start => points[k].pos \notin meet
      BY <3>1 DEF PointsOK
    <3>4. points[k].pos \in start..(to - 1)
      BY <3>3
    <3>5. more[k].pos = StartOf(u, more[k].w, pos)
      BY <3>2, <3>3, Zenon
    <3>6. k > 1 => more[k - 1].pos < more[k].pos
      BY <3>2, <3>3, Zenon
    <3>7. more[k].pos > start => more[k].pos \notin meet
      BY <3>2, <3>3, Zenon
    <3> QED BY <3>2, <3>3, <3>4, <3>5, <3>6, <3>7, Zenon
  <2>2. CASE k = n + 1
    <3>1. k > 1 => more[k - 1].pos < pos
      <4>1. k > 1 => k - 1 \in 1..n /\ more[k - 1] = points[k - 1]
        BY <1>1, <1>2, <2>2
      <4>2. k > 1 => points[k - 1].pos \in start..(pos - 1)
        BY <4>1 DEF PointsOK
      <4> QED BY <4>1, <4>2
    <3> QED BY <1>1, <1>2, <2>2, <3>1, SMTT(30) DEF StartOf
  <2> QED BY <1>1, <2>1, <2>2, SMTT(30)
<1>4. PointsOK(more, start, meet, u, pos, to)
  BY <1>2, <1>3 DEF PointsOK
<1> QED BY <1>2, <1>4 DEF more, point
-----------------------------------------------------------------------------
(* The parts of an iteration.                                              *)

\* The groups of a pending run begin at the positions the skip visited.
LEMMA GroupsOnGrid ==
  ASSUME NEW d, NEW start \in Nat, NEW end \in Nat, start <= end
  PROVE  \A k \in 1..Len(Groups(d, start, end)) :
           Groups(d, start, end)[k].at \in Grid(start, end)
<1> DEFINE n == (end - start + 3) \div 4
           at(k) == start + 4 * (k - 1)
<1>1. n \in Nat /\ n * 4 <= end - start + 3
  OBVIOUS
<1>2. ASSUME NEW k \in 1..n PROVE at(k) \in Grid(start, end)
  <2>1. at(k) \in start..(end - 1) /\ (at(k) - start) % 4 = 0
    BY <1>1
  <2> QED BY <2>1 DEF Grid
<1>3. /\ Len(Groups(d, start, end)) = n
      /\ \A k \in 1..n : Groups(d, start, end)[k].at = at(k)
  <2>1. Groups(d, start, end) =
          [k \in 1..n |->
             [kind |-> "block", at |-> at(k), len |-> Smaller(end - at(k), 4),
              sig |-> SubSeq(d, at(k) + 1, at(k) + Smaller(end - at(k), 4))]]
    BY DEF Groups
  <2> HIDE DEF n, at
  <2> QED BY <1>1, <2>1
<1> QED BY <1>2, <1>3

\* Flushing the pending run leaves a canonical output that ends at the cursor.
LEMMA FlushedCanon ==
  ASSUME NEW d \in Seq(Byte), NEW e, FrameCore(d, e)
  PROVE  /\ Flushed(d, e) \in Seq(Units(d))
         /\ Canon(d, e.start, Flushed(d, e), e.pos)
         /\ \A k \in 1..Len(Flushed(d, e)) : Flushed(d, e)[k].at < e.stop
         /\ PointsOK(e.points, e.start, e.meet, Flushed(d, e), e.pos, e.pos)
<1>1. /\ e \in Frames(d) /\ Canon(d, e.start, e.out, OutEnd(e))
      /\ \A k \in 1..Len(e.out) : e.out[k].at < e.stop
      /\ PointsOK(e.points, e.start, e.meet, e.out, OutEnd(e), e.pos)
  BY DEF FrameCore
<1>2. /\ e.out \in Seq(Units(d)) /\ e.start \in Nat /\ e.pos \in Nat
      /\ e.points \in Seq([pos : Nat, w : Nat])
  BY <1>1 DEF Frames
<1>3. CASE e.block_start = NoBlock
  BY <1>1, <1>2, <1>3 DEF Flushed, OutEnd
<1>4. CASE e.block_start # NoBlock
  <2> DEFINE g == Groups(d, e.block_start, e.pos)
             f == e.out \o g
  <2>1. /\ e.block_start \in e.start..(e.pos - 1)
        /\ BlockRun(d, e.block_start, e.pos)
        /\ \A q \in Grid(e.block_start, e.pos) : q < e.stop
    BY <1>4 DEF FrameCore, PendingOK
  <2>2. OutEnd(e) = e.block_start /\ Flushed(d, e) = f
    BY <1>4 DEF OutEnd, Flushed
  <2>3. g \in Seq(Units(d)) /\ Canon(d, e.block_start, g, e.pos)
    BY <2>1, GroupsCanon
  <2>4. \A k \in 1..Len(g) : g[k].at < e.stop
    <3>1. e.block_start \in Nat /\ e.block_start <= e.pos
      BY <1>2, <2>1
    <3> QED BY <1>2, <2>1, <3>1, GroupsOnGrid
  <2> HIDE DEF g
  <2>5. f \in Seq(Units(d)) /\ Canon(d, e.start, f, e.pos)
    BY <1>1, <1>2, <2>2, <2>3, CanonConcat
  <2>6. PointsOK(e.points, e.start, e.meet, f, e.pos, e.pos)
    BY <1>1, <1>2, <2>2, <2>3, PointsKept
  <2>7. ASSUME NEW k \in 1..Len(f) PROVE f[k].at < e.stop
    <3>1. CASE k <= Len(e.out)
      <4>1. k \in 1..Len(e.out) /\ f[k] = e.out[k]
        BY <1>2, <2>3, <3>1
      <4> QED BY <1>1, <4>1
    <3>2. CASE k > Len(e.out)
      <4>1. k - Len(e.out) \in 1..Len(g) /\ f[k] = g[k - Len(e.out)]
        BY <1>2, <2>3, <3>2
      <4> QED BY <2>4, <4>1
    <3> QED BY <1>2, <3>1, <3>2
  <2> HIDE DEF f
  <2> QED BY <2>2, <2>5, <2>6, <2>7
<1> QED BY <1>3, <1>4

\* A call that stops keeps what it has produced.
LEMMA ReturnedGood ==
  ASSUME NEW d \in Seq(Byte), NEW e, FrameCore(d, e),
         e.pos >= e.stop \/ e.pos \in e.meet
  PROVE  /\ FrameInv(d, Returned(d, e))
         /\ Grew(d, e, Returned(d, e))
         /\ ~Returned(d, e).running
<1> DEFINE f == Returned(d, e)
<1>1. e \in Frames(d)
  BY DEF FrameCore
<1>2. /\ f.start = e.start /\ f.stop = e.stop /\ f.meet = e.meet /\ f.record = e.record
      /\ f.pos = e.pos /\ f.block_start = NoBlock /\ f.out = Flushed(d, e)
      /\ f.points = e.points /\ f.xlat = e.xlat /\ f.running = FALSE
  BY <1>1 DEF Returned, Frames
<1>3. /\ Flushed(d, e) \in Seq(Units(d))
      /\ Canon(d, e.start, Flushed(d, e), e.pos)
      /\ \A k \in 1..Len(Flushed(d, e)) : Flushed(d, e)[k].at < e.stop
      /\ PointsOK(e.points, e.start, e.meet, Flushed(d, e), e.pos, e.pos)
  BY FlushedCanon
<1>4. f \in Frames(d)
  BY <1>1, <1>3 DEF Returned, Frames
<1> HIDE DEF f
<1>5. OutEnd(f) = f.pos /\ Flushed(d, f) = f.out
  BY <1>2 DEF OutEnd, Flushed
<1>6. FrameCore(d, f)
  BY <1>2, <1>3, <1>4, <1>5 DEF FrameCore, PendingOK
<1>7. Grew(d, e, f)
  <2>1. Flushed(d, f) = Flushed(d, e) \o <<>> /\ <<>> \in Seq(Units(d))
    BY <1>2, <1>3, <1>5
  <2>2. Canon(d, e.pos, <<>>, f.pos)
    BY <1>2, CanonEmpty
  <2>3. e.pos \in Nat
    BY <1>1 DEF Frames
  <2>4. f.pos >= e.pos
    BY <1>2, <2>3
  <2>5. \E v \in Seq(Units(d)) :
          Flushed(d, f) = Flushed(d, e) \o v /\ Canon(d, e.pos, v, f.pos)
    BY <2>1, <2>2, Zenon
  <2> QED BY <1>2, <2>4, <2>5 DEF Grew
<1> QED BY <1>2, <1>6, <1>7 DEF FrameInv, f
\* A call that takes an iteration stands below its bound, and with nothing
\* pending not at a meeting point.
LEMMA NotStopped ==
  ASSUME NEW d \in Seq(Byte), NEW e, FrameInv(d, e), e.running, ~Stops(d, e)
  PROVE  /\ e.pos \in 0..(Len(d) - 1) /\ e.pos < e.stop
         /\ e.block_start = NoBlock /\ e.pos > e.start => e.pos \notin e.meet
<1>1. e \in Frames(d)
  BY DEF FrameInv, FrameCore
<1>2. e.pos \in 0..Len(d) /\ e.stop \in 0..Len(d)
  BY <1>1 DEF Frames
<1>3. ~(e.pos >= Len(d))
  BY DEF Stops
<1>4. e.pos < e.stop
  BY <1>2 DEF Stops, FrameInv
<1>5. e.block_start = NoBlock /\ e.pos > e.start => e.pos \notin e.meet
  BY DEF Stops
<1> QED BY <1>2, <1>3, <1>4, <1>5

\* Recording the cursor keeps the splice points good as the cursor moves on.
LEMMA RecordedGood ==
  ASSUME NEW d \in Seq(Byte), NEW e, FrameInv(d, e), e.running, ~Stops(d, e),
         NEW to \in Nat, e.pos < to
  PROVE  /\ Recorded(e) \in Seq([pos : Nat, w : Nat])
         /\ PointsOK(Recorded(e), e.start, e.meet, e.out, OutEnd(e), to)
<1>1. /\ e \in Frames(d) /\ e.start <= e.pos
      /\ Canon(d, e.start, e.out, OutEnd(e))
      /\ PointsOK(e.points, e.start, e.meet, e.out, OutEnd(e), e.pos)
  BY DEF FrameInv, FrameCore
<1>2. /\ e.out \in Seq(Units(d)) /\ e.start \in Nat /\ e.pos \in Nat
      /\ e.points \in Seq([pos : Nat, w : Nat])
  BY <1>1 DEF Frames
<1>3. CASE ~(e.record /\ e.block_start = NoBlock)
  <2>1. Recorded(e) = e.points
    BY <1>3 DEF Recorded
  <2>2. Canon(d, OutEnd(e), <<>>, OutEnd(e)) /\ <<>> \in Seq(Units(d)) /\ e.pos <= to
    BY <1>2, CanonEmpty
  <2>3. PointsOK(e.points, e.start, e.meet, e.out \o <<>>, OutEnd(e), to)
    BY <1>1, <1>2, <2>2, PointsKept
  <2>4. e.out \o <<>> = e.out
    BY <1>2
  <2> QED BY <1>2, <2>1, <2>3, <2>4
<1>4. CASE e.record /\ e.block_start = NoBlock
  <2>1. /\ Recorded(e) = Append(e.points, [pos |-> e.pos, w |-> Len(e.out)])
        /\ OutEnd(e) = e.pos
    BY <1>4 DEF Recorded, OutEnd
  <2>2. e.pos > e.start => e.pos \notin e.meet
    BY <1>4, NotStopped
  <2>3. PointsOK(e.points, e.start, e.meet, e.out, e.pos, e.pos)
    BY <1>1, <2>1
  <2> DEFINE more == Append(e.points, [pos |-> e.pos, w |-> Len(e.out)])
  <2>4. more \in Seq([pos : Nat, w : Nat]) /\ PointsOK(more, e.start, e.meet, e.out, e.pos, to)
    BY <1>1, <1>2, <2>2, <2>3, PointRecorded
  <2> HIDE DEF more
  <2>5. Recorded(e) = more
    BY <2>1 DEF more
  <2> QED BY <2>1, <2>4, <2>5
<1> QED BY <1>3, <1>4

\* A call that emits the construct its cursor stands at, whatever substitution
\* it keeps, keeps its invariant.
LEMMA EmittedGood ==
  ASSUME NEW d \in Seq(Byte), NEW e, FrameInv(d, e), e.running, ~Stops(d, e),
         NEW xlat \in Xlats(d)
  PROVE  LET f == [Emitted(d, e, UnitAt(d, e.pos)) EXCEPT !.xlat = xlat]
         IN  FrameInv(d, f) /\ Grew(d, e, f)
<1> DEFINE unit == UnitAt(d, e.pos)
           f == [Emitted(d, e, unit) EXCEPT !.xlat = xlat]
           to == e.pos + unit.len
           out == Append(Flushed(d, e), unit)
<1>1. FrameCore(d, e) /\ e \in Frames(d)
  BY DEF FrameInv, FrameCore
<1>2. e.pos \in 0..(Len(d) - 1) /\ e.pos < e.stop
  BY NotStopped
<1>3. /\ unit \in Units(d) /\ unit.at = e.pos /\ unit.len \in 1..(Len(d) - e.pos)
      /\ Canon(d, e.pos, <<unit>>, to)
  BY <1>2, UnitFacts, CanonUnit
<1> HIDE DEF unit
<1>4. to \in 1..Len(d) /\ e.pos < to
  BY <1>2, <1>3
<1> HIDE DEF to
<1>5. /\ f.start = e.start /\ f.stop = e.stop /\ f.meet = e.meet /\ f.record = e.record
      /\ f.pos = to /\ f.block_start = NoBlock /\ f.out = out
      /\ f.points = Recorded(e) /\ f.xlat = xlat /\ f.running = TRUE
  BY <1>1, <1>3 DEF Emitted, Frames, to
<1>6. /\ Flushed(d, e) \in Seq(Units(d))
      /\ Canon(d, e.start, Flushed(d, e), e.pos)
      /\ \A k \in 1..Len(Flushed(d, e)) : Flushed(d, e)[k].at < e.stop
      /\ PointsOK(e.points, e.start, e.meet, Flushed(d, e), e.pos, e.pos)
  BY <1>1, FlushedCanon
<1>7. out = Flushed(d, e) \o <<unit>> /\ <<unit>> \in Seq(Units(d))
  BY <1>3, <1>6
<1>8. out \in Seq(Units(d)) /\ Canon(d, e.start, out, to)
  <2>1. /\ Flushed(d, e) \o <<unit>> \in Seq(Units(d))
        /\ Canon(d, e.start, Flushed(d, e) \o <<unit>>, to)
    BY <1>3, <1>6, <1>7, CanonConcat
  <2> HIDE DEF out
  <2> QED BY <1>7, <2>1
<1>9. ASSUME NEW k \in 1..Len(out) PROVE out[k].at < e.stop
  <2>1. CASE k <= Len(Flushed(d, e))
    BY <1>6, <2>1
  <2>2. CASE k > Len(Flushed(d, e))
    BY <1>2, <1>3, <1>6, <2>2
  <2> QED BY <1>6, <2>1, <2>2
<1> HIDE DEF out
<1>10. /\ Recorded(e) \in Seq([pos : Nat, w : Nat])
       /\ PointsOK(Recorded(e), e.start, e.meet, out, to, to)
  <2>1. /\ Recorded(e) \in Seq([pos : Nat, w : Nat])
        /\ PointsOK(Recorded(e), e.start, e.meet, e.out, OutEnd(e), to)
    BY <1>4, RecordedGood
  <2>2. e.out \in Seq(Units(d)) /\ e.start \in Nat /\ to \in Nat /\ to <= to
    BY <1>1, <1>4 DEF Frames
  <2>3. CASE e.block_start = NoBlock
    <3>1. OutEnd(e) = e.pos /\ out = e.out \o <<unit>>
      BY <1>7, <2>3 DEF OutEnd, Flushed
    <3>2. PointsOK(Recorded(e), e.start, e.meet, e.out, e.pos, to)
      BY <2>1, <3>1
    <3>3. PointsOK(Recorded(e), e.start, e.meet, e.out \o <<unit>>, to, to)
      BY <1>3, <1>7, <2>1, <2>2, <3>2, PointsKept, Zenon
    <3> QED BY <2>1, <3>1, <3>3
  <2>4. CASE e.block_start # NoBlock
    <3> DEFINE g == Groups(d, e.block_start, e.pos)
    <3>1. BlockRun(d, e.block_start, e.pos)
      BY <1>1, <2>4 DEF FrameCore, PendingOK
    <3>2. g \in Seq(Units(d)) /\ Canon(d, e.block_start, g, e.pos)
      BY <3>1, GroupsCanon
    <3>3. OutEnd(e) = e.block_start /\ Flushed(d, e) = e.out \o g
      BY <2>4 DEF OutEnd, Flushed
    <3> HIDE DEF g
    <3>4. g \o <<unit>> \in Seq(Units(d)) /\ Canon(d, e.block_start, g \o <<unit>>, to)
      BY <1>3, <1>7, <3>2, CanonConcat
    <3>5. PointsOK(Recorded(e), e.start, e.meet, e.out, e.block_start, to)
      BY <2>1, <3>3
    <3>6. PointsOK(Recorded(e), e.start, e.meet, e.out \o (g \o <<unit>>), to, to)
      BY <2>1, <2>2, <3>4, <3>5, PointsKept, Zenon
    <3>7. (e.out \o g) \o <<unit>> = e.out \o (g \o <<unit>>)
      <4> DEFINE S == Units(d)
                 o == e.out
                 v == <<unit>>
      <4>1. o \in Seq(S) /\ g \in Seq(S) /\ v \in Seq(S)
        BY <1>7, <2>2, <3>2
      <4> HIDE DEF S, o, v
      <4>2. (o \o g) \o v = o \o (g \o v)
        BY <4>1, ConcatAssociative
      <4> QED BY <4>2 DEF o, v
    <3> QED BY <1>7, <2>1, <3>3, <3>6, <3>7
  <2> QED BY <2>3, <2>4
<1>11. f \in Frames(d)
  <2>1. Emitted(d, e, unit) =
          [e EXCEPT !.points = Recorded(e), !.out = out,
                    !.block_start = NoBlock, !.pos = to]
    BY DEF Emitted, out, to
  <2> DEFINE points == Recorded(e)
  <2>2. /\ points \in Seq([pos : Nat, w : Nat]) /\ out \in Seq(Units(d)) /\ to \in 0..Len(d)
        /\ NoBlock \in Nat \cup {NoBlock}
    BY <1>4, <1>8, <1>10
  <2> HIDE DEF points
  <2>3. f = [[e EXCEPT !.points = points, !.out = out,
                       !.block_start = NoBlock, !.pos = to] EXCEPT !.xlat = xlat]
    BY <2>1 DEF points
  <2> QED BY <1>1, <2>2, <2>3 DEF Frames
<1> HIDE DEF f
<1>12. OutEnd(f) = to /\ Flushed(d, f) = out
  BY <1>5 DEF OutEnd, Flushed
<1>13. FrameCore(d, f)
  <2>1. f.start <= f.pos /\ f.start <= f.stop
    <3>1. e.start \in Nat /\ e.start <= e.pos /\ e.start <= e.stop
      BY <1>1 DEF FrameCore, Frames
    <3> QED BY <1>2, <1>4, <1>5, <3>1
  <2> QED BY <1>5, <1>8, <1>9, <1>10, <1>11, <1>12, <2>1 DEF FrameCore, PendingOK
<1>14. Grew(d, e, f)
  <2>1. f.pos >= e.pos
    BY <1>2, <1>4, <1>5
  <2>2. \E v \in Seq(Units(d)) :
          Flushed(d, f) = Flushed(d, e) \o v /\ Canon(d, e.pos, v, f.pos)
    <3>1. Flushed(d, f) = Flushed(d, e) \o <<unit>> /\ Canon(d, e.pos, <<unit>>, f.pos)
      BY <1>3, <1>5, <1>7, <1>12
    <3> QED BY <1>7, <3>1, Zenon
  <2> QED BY <1>5, <2>1, <2>2 DEF Grew
<1> QED BY <1>5, <1>13, <1>14 DEF FrameInv, f, unit
\* Being a whole number of groups apart.
LEMMA OnGrid ==
  ASSUME NEW a \in Int, NEW b \in Int, NEW c \in Int, (b - a) % 4 = 0
  PROVE  (c - b) % 4 = 0 <=> (c - a) % 4 = 0
OBVIOUS

\* Groups of two runs that meet on the grid are the groups of the whole run.
LEMMA GroupsSplit ==
  ASSUME NEW d \in Seq(Byte), NEW a, NEW b, NEW c, (b - a) % 4 = 0,
         BlockRun(d, a, b), BlockRun(d, b, c), BlockRun(d, a, c)
  PROVE  Groups(d, a, c) = Groups(d, a, b) \o Groups(d, b, c)
<1> DEFINE u == Groups(d, a, b)
           v == Groups(d, b, c)
           w == Groups(d, a, c)
           x == u \o v
           m == (b - a) \div 4
<1>1. a \in Nat /\ b \in Nat /\ c \in Nat /\ a <= b /\ b <= c /\ b = a + 4 * m /\ m \in Nat
  BY DEF BlockRun
<1>2. /\ u \in Seq(Units(d)) /\ Len(u) = (b - a + 3) \div 4
      /\ \A k \in 1..Len(u) : u[k] = UnitAt(d, a + 4 * (k - 1))
  BY GroupsCanon
<1>3. /\ v \in Seq(Units(d)) /\ Len(v) = (c - b + 3) \div 4
      /\ \A k \in 1..Len(v) : v[k] = UnitAt(d, b + 4 * (k - 1))
  BY GroupsCanon
<1>4. /\ w \in Seq(Units(d)) /\ Len(w) = (c - a + 3) \div 4
      /\ \A k \in 1..Len(w) : w[k] = UnitAt(d, a + 4 * (k - 1))
  BY GroupsCanon
<1>5. Len(u) = m /\ Len(w) = m + Len(v) /\ Len(v) \in Nat
  BY <1>1, <1>2, <1>3, <1>4
<1> HIDE DEF u, v, w, m
<1>6. /\ x \in Seq(Units(d)) /\ Len(x) = Len(w)
      /\ \A k \in 1..Len(u) : x[k] = u[k]
      /\ \A k \in (Len(u) + 1)..Len(x) : x[k] = v[k - Len(u)]
  <2>1. u \in Seq(Units(d)) /\ v \in Seq(Units(d)) /\ Len(u) \in Nat
    BY <1>2, <1>3
  <2>2. /\ x \in Seq(Units(d)) /\ Len(x) = Len(u) + Len(v)
        /\ \A i \in 1..(Len(u) + Len(v)) : x[i] = IF i <= Len(u) THEN u[i] ELSE v[i - Len(u)]
    BY <2>1, ConcatProperties
  <2> HIDE DEF x
  <2> QED BY <1>5, <2>1, <2>2
<1> HIDE DEF x
<1>7. ASSUME NEW k \in 1..Len(w) PROVE x[k] = w[k]
  <2>1. CASE k <= m
    BY <1>1, <1>2, <1>4, <1>5, <1>6, <2>1
  <2>2. CASE k > m
    <3> DEFINE j == k - m
    <3>1. j \in 1..Len(v) /\ b + 4 * (j - 1) = a + 4 * (k - 1)
      BY <1>1, <1>5, <2>2
    <3>2. x[k] = v[j]
      BY <1>1, <1>5, <1>6, <2>2
    <3> QED BY <1>3, <1>4, <3>1, <3>2
  <2> QED BY <1>1, <1>5, <2>1, <2>2
<1>8. w = x
  BY <1>4, <1>6, <1>7, SeqEqual
<1> QED BY <1>8 DEF u, v, w, x

\* Where the cursor stands behind the group it takes.
Behind(d, e) == e.pos + Smaller(Len(d) - e.pos, 4)

\* The frame of a call whose pending run was made to end at to.
TakenTo(e, to) ==
  [e EXCEPT !.points = Recorded(e),
            !.block_start = IF e.block_start = NoBlock THEN e.pos ELSE e.block_start,
            !.pos = to]

\* A call that takes one group, and those a lookahead finds after it, keeps its
\* invariant, save that the pending run may have reached the bound.
LEMMA TakenToGood ==
  ASSUME NEW d \in Seq(Byte), NEW e, FrameInv(d, e), e.running, ~Stops(d, e),
         OnlyBlock(d, e.pos),
         NEW to \in Behind(d, e)..Len(d), to <= Larger(e.stop, Behind(d, e)),
         (to - Behind(d, e)) % 4 = 0,
         \A q \in Grid(Behind(d, e), to) : OnlyBlock(d, q)
  PROVE  FrameCore(d, TakenTo(e, to)) /\ Grew(d, e, TakenTo(e, to)) /\ TakenTo(e, to).running
<1> DEFINE len == Smaller(Len(d) - e.pos, 4)
           next == e.pos + len
           bs == IF e.block_start = NoBlock THEN e.pos ELSE e.block_start
           f == TakenTo(e, to)
           v == Groups(d, e.pos, to)
<1>1. FrameCore(d, e) /\ e \in Frames(d) /\ PendingOK(d, e)
  BY DEF FrameInv, FrameCore
<1>2. /\ e.pos \in 0..(Len(d) - 1) /\ e.pos < e.stop
      /\ e.start \in Nat /\ e.start <= e.pos /\ e.stop \in 0..Len(d)
  BY <1>1, NotStopped DEF FrameCore, Frames
<1>3. /\ len \in 1..4 /\ next \in 1..Len(d) /\ e.pos < next
      /\ len # 4 => next = Len(d)
  <2>1. Len(d) \in Nat /\ Len(d) - e.pos \in Nat \ {0}
    BY <1>2
  <2>2. len \in 1..4 /\ len <= Len(d) - e.pos /\ (len # 4 => len = Len(d) - e.pos)
    BY <2>1 DEF Smaller
  <2> HIDE DEF len
  <2> QED BY <1>2, <2>1, <2>2
<1> HIDE DEF len
<1>4. /\ to \in next..Len(d) /\ to <= Larger(e.stop, next) /\ (to - next) % 4 = 0
      /\ \A q \in Grid(next, to) : OnlyBlock(d, q)
  <2>1. next = Behind(d, e)
    BY DEF Behind, len
  <2> HIDE DEF next
  <2> QED BY <2>1
<1>5. /\ bs \in e.start..e.pos /\ (e.pos - bs) % 4 = 0
      /\ \A q \in Grid(bs, e.pos) : OnlyBlock(d, q) /\ q < e.stop
  <2>1. CASE e.block_start = NoBlock
    BY <1>2, <2>1 DEF Grid
  <2>2. CASE e.block_start # NoBlock
    BY <1>1, <1>2, <2>2 DEF PendingOK, BlockRun
  <2> QED BY <2>1, <2>2
<1> HIDE DEF bs
<1>6. ASSUME NEW q \in Grid(e.pos, to) PROVE OnlyBlock(d, q) /\ q < e.stop
  <2>1. q \in e.pos..(to - 1) /\ (q - e.pos) % 4 = 0
    BY DEF Grid
  <2>2. CASE q = e.pos
    BY <1>2, <2>2
  <2>3. CASE q # e.pos
    <3> DEFINE p == e.pos
    <3>1. len = 4 /\ q >= next
      <4>1. p \in Nat /\ len \in 1..4 /\ to \in (p + len)..Len(d)
            /\ (len # 4 => p + len = Len(d)) /\ Len(d) \in Nat
        BY <1>2, <1>3, <1>4
      <4>2. q \in p..(to - 1) /\ (q - p) % 4 = 0 /\ q # p
        BY <2>1, <2>3
      <4> HIDE DEF p
      <4>3. q >= p + 4
        BY <4>1, <4>2
      <4>4. len = 4 /\ q >= p + len
        BY <4>1, <4>2, <4>3
      <4> QED BY <4>4 DEF p
    <3>2. q \in Grid(next, to)
      BY <1>2, <1>3, <1>4, <2>1, <3>1, SMTT(30) DEF Grid
    <3>3. q < e.stop
      BY <1>2, <1>3, <1>4, <2>1, <3>1, SMTT(30) DEF Larger
    <3> QED BY <1>4, <3>2, <3>3
  <2> QED BY <2>2, <2>3
<1>7. ASSUME NEW q \in Grid(bs, to) PROVE OnlyBlock(d, q) /\ q < e.stop
  <2>1. q \in bs..(to - 1) /\ (q - bs) % 4 = 0
    BY DEF Grid
  <2>2. CASE q < e.pos
    <3>1. q \in Grid(bs, e.pos)
      BY <1>2, <1>5, <2>1, <2>2 DEF Grid
    <3> QED BY <1>5, <3>1
  <2>3. CASE q >= e.pos
    <3>1. (q - e.pos) % 4 = 0
      <4>1. bs \in Int /\ e.pos \in Int /\ q \in Int
        BY <1>2, <1>5, <2>1
      <4> QED BY <1>5, <2>1, <4>1, OnGrid
    <3>2. q \in Grid(e.pos, to)
      BY <1>2, <1>5, <2>1, <2>3, <3>1 DEF Grid
    <3> QED BY <1>6, <3>2
  <2> QED BY <1>2, <1>5, <2>1, <2>2, <2>3
<1>8. to \in 1..Len(d) /\ e.pos < to /\ ((to - e.pos) % 4 = 0 \/ to = Len(d))
  BY <1>2, <1>3, <1>4, SMTT(30)
<1>9. BlockRun(d, bs, e.pos) /\ BlockRun(d, e.pos, to) /\ BlockRun(d, bs, to)
  <2>1. BlockRun(d, bs, e.pos)
    BY <1>2, <1>5 DEF BlockRun
  <2>2. BlockRun(d, e.pos, to)
    BY <1>2, <1>6, <1>8 DEF BlockRun
  <2>3. (to - bs) % 4 = 0 \/ to = Len(d)
    <3>1. bs \in Int /\ e.pos \in Int /\ to \in Int
      BY <1>2, <1>5, <1>8
    <3> QED BY <1>5, <1>8, <3>1, OnGrid
  <2>4. BlockRun(d, bs, to)
    BY <1>2, <1>5, <1>7, <1>8, <2>3 DEF BlockRun
  <2> QED BY <2>1, <2>2, <2>4
<1>10. /\ f.start = e.start /\ f.stop = e.stop /\ f.meet = e.meet /\ f.record = e.record
       /\ f.pos = to /\ f.block_start = bs /\ f.out = e.out
       /\ f.points = Recorded(e) /\ f.xlat = e.xlat /\ f.running = e.running
  BY <1>1 DEF TakenTo, Frames, bs
<1>11. /\ Recorded(e) \in Seq([pos : Nat, w : Nat])
       /\ PointsOK(Recorded(e), e.start, e.meet, e.out, OutEnd(e), to)
  BY <1>8, RecordedGood
<1>12. bs = OutEnd(e) /\ bs # NoBlock
  BY <1>2, <1>5 DEF OutEnd, bs, NoBlock
<1>13. f \in Frames(d)
  <2> DEFINE points == Recorded(e)
  <2>1. /\ points \in Seq([pos : Nat, w : Nat]) /\ to \in 0..Len(d)
        /\ bs \in Nat \cup {NoBlock}
    BY <1>2, <1>5, <1>8, <1>11
  <2>2. f = [e EXCEPT !.points = points, !.block_start = bs, !.pos = to]
    BY DEF TakenTo, bs
  <2> HIDE DEF points, f
  <2> QED BY <1>1, <2>1, <2>2 DEF Frames
<1> HIDE DEF f
<1>14. OutEnd(f) = bs /\ Flushed(d, f) = e.out \o Groups(d, bs, to)
  BY <1>10, <1>12 DEF OutEnd, Flushed
<1>15. FrameCore(d, f)
  <2>1. PendingOK(d, f)
    BY <1>2, <1>5, <1>7, <1>8, <1>9, <1>10 DEF PendingOK
  <2>2. f.start <= f.pos /\ f.start <= f.stop
    BY <1>2, <1>8, <1>10
  <2>3. Canon(d, f.start, f.out, OutEnd(f)) /\ \A k \in 1..Len(f.out) : f.out[k].at < f.stop
    BY <1>1, <1>10, <1>12, <1>14 DEF FrameCore
  <2>4. PointsOK(f.points, f.start, f.meet, f.out, OutEnd(f), f.pos)
    BY <1>10, <1>11, <1>12, <1>14
  <2> QED BY <1>13, <2>1, <2>2, <2>3, <2>4 DEF FrameCore
<1>16. Grew(d, e, f)
  <2>1. v \in Seq(Units(d)) /\ Canon(d, e.pos, v, to)
    BY <1>9, GroupsCanon
  <2>2. Flushed(d, f) = Flushed(d, e) \o v
    <3>1. CASE e.block_start = NoBlock
      BY <1>14, <3>1 DEF Flushed, bs
    <3>2. CASE e.block_start # NoBlock
      <4> DEFINE o == e.out
                 g == Groups(d, bs, e.pos)
      <4>1. Groups(d, bs, to) = g \o v
        BY <1>5, <1>9, GroupsSplit
      <4>2. Flushed(d, e) = o \o g /\ Flushed(d, f) = o \o (g \o v)
        BY <1>14, <3>2, <4>1 DEF Flushed, bs
      <4>3. o \in Seq(Units(d)) /\ g \in Seq(Units(d))
        BY <1>1, <1>9, GroupsCanon DEF Frames
      <4> HIDE DEF o, g, v
      <4>4. (o \o g) \o v = o \o (g \o v)
        BY <2>1, <4>3, ConcatAssociative, SMTT(30)
      <4> QED BY <4>2, <4>4
    <3> QED BY <3>1, <3>2
  <2> HIDE DEF v
  <2>3. \E x \in Seq(Units(d)) :
          Flushed(d, f) = Flushed(d, e) \o x /\ Canon(d, e.pos, x, f.pos)
    BY <1>10, <2>1, <2>2
  <2>4. f.pos >= e.pos
    BY <1>2, <1>8, <1>10
  <2> QED BY <1>10, <2>3, <2>4 DEF Grew
<1> QED BY <1>10, <1>15, <1>16 DEF f

\* The lookahead of the Rust and the C loop is such a one.
LEMMA TakenGood ==
  ASSUME NEW d \in Seq(Byte), NEW e, FrameInv(d, e), e.running, ~Stops(d, e),
         OnlyBlock(d, e.pos)
  PROVE  FrameCore(d, Taken(d, e)) /\ Grew(d, e, Taken(d, e)) /\ Taken(d, e).running
<1> DEFINE next == Behind(d, e)
           to == SkipFrom(d, next, e.stop)
<1>1. e.pos \in 0..(Len(d) - 1) /\ e.stop \in Nat
  <2>1. e \in Frames(d)
    BY DEF FrameInv, FrameCore
  <2>2. e.pos \in 0..(Len(d) - 1)
    BY NotStopped
  <2> QED BY <2>1, <2>2 DEF Frames
<1>2. next \in 0..Len(d)
  BY <1>1 DEF Behind, Smaller
<1> HIDE DEF next
<1>3. /\ to \in next..Len(d) /\ to <= Larger(e.stop, next) /\ (to - next) % 4 = 0
      /\ \A q \in Grid(next, to) : OnlyBlock(d, q)
  BY <1>1, <1>2, SkipFromFacts
<1>4. Taken(d, e) = TakenTo(e, to)
  BY DEF Taken, TakenTo, next, Behind
<1> HIDE DEF to
<1> QED BY <1>3, <1>4, TakenToGood DEF next

\* The substitution a segment is written with is the one of its own profile
\* and mask, whether it was just built or kept from the segment before.
LEMMA XlatGood ==
  ASSUME NEW d \in Seq(Byte), NEW e \in Frames(d), NEW p \in 0..Len(d)
  PROVE  LET len  == DpLen(d, p)
             key  == <<DpProfile(d, p, len), DpMask(d, p, len)>>
             xlat == Xlat(e, key)
         IN  /\ xlat \in Xlats(d)
             /\ xlat.donors = Donors(DpProfile(d, p, len), DpMask(d, p, len))
<1> DEFINE len == DpLen(d, p)
           profile == DpProfile(d, p, len)
           mask == DpMask(d, p, len)
           key == <<profile, mask>>
           xlat == Xlat(e, key)
<1>1. len \in 0..Len(d)
  BY DpLenFacts
<1>2. key \in Keys(d)
  BY <1>1 DEF Keys
<1>3. key[1] = profile /\ key[2] = mask /\ key # <<>>
  OBVIOUS
<1> HIDE DEF profile, mask, key
<1>4. CASE e.xlat.key = key
  <2>1. xlat = e.xlat /\ e.xlat \in Xlats(d)
    BY <1>4 DEF Xlat, Frames
  <2>2. e.xlat # NoXlat
    BY <1>3, <1>4 DEF NoXlat
  <2>3. PICK k \in Keys(d) : e.xlat = [key |-> k, donors |-> Donors(k[1], k[2])]
    BY <2>1, <2>2 DEF Xlats
  <2>4. e.xlat.donors = Donors(key[1], key[2])
    BY <1>4, <2>3
  <2> QED BY <1>3, <2>1, <2>4 DEF profile, mask, key
<1>5. CASE e.xlat.key # key
  <2>1. xlat = [key |-> key, donors |-> Donors(key[1], key[2])]
    BY <1>5 DEF Xlat
  <2> QED BY <1>2, <1>3, <2>1 DEF Xlats, profile, mask, key
<1> QED BY <1>4, <1>5

\* Growing twice is growing.
LEMMA GrewTransitive ==
  ASSUME NEW d \in Seq(Byte), NEW e, NEW f, NEW g,
         FrameCore(d, e), FrameCore(d, f), FrameInv(d, g), Grew(d, e, f), Grew(d, f, g)
  PROVE  Grew(d, e, g)
<1>1. PICK u \in Seq(Units(d)) :
        Flushed(d, f) = Flushed(d, e) \o u /\ Canon(d, e.pos, u, f.pos)
  BY DEF Grew
<1>2. PICK v \in Seq(Units(d)) :
        Flushed(d, g) = Flushed(d, f) \o v /\ Canon(d, f.pos, v, g.pos)
  BY DEF Grew
<1>3. u \o v \in Seq(Units(d)) /\ Canon(d, e.pos, u \o v, g.pos)
  BY <1>1, <1>2, CanonConcat
<1>4. Flushed(d, g) = Flushed(d, e) \o (u \o v)
  <2> DEFINE o == Flushed(d, e)
  <2>1. o \in Seq(Units(d))
    BY FlushedCanon
  <2> HIDE DEF o
  <2>2. (o \o u) \o v = o \o (u \o v)
    BY <1>1, <1>2, <2>1, ConcatAssociative, SMTT(30)
  <2> QED BY <1>1, <1>2, <2>2 DEF o
<1>5. g.pos >= e.pos
  <2>1. e.pos \in Nat /\ f.pos \in Nat /\ g.pos \in Nat
    BY DEF FrameInv, FrameCore, Frames
  <2> QED BY <2>1 DEF Grew
<1>6. \E x \in Seq(Units(d)) :
        Flushed(d, g) = Flushed(d, e) \o x /\ Canon(d, e.pos, x, g.pos)
  BY <1>3, <1>4, Zenon
<1> QED BY <1>5, <1>6 DEF Grew

\* An iteration of the loop keeps the invariant of its frame and extends the
\* call's output by a canonical piece: every gate and every skip included, no
\* construct is passed over and none is emitted that the rule does not pick.
THEOREM EncodeStepGood ==
  ASSUME data \in Seq(Byte), NEW r, r \in DOMAIN enc, FrameInv(data, enc[r]), EncodeStep(r)
  PROVE  /\ data' = data
         /\ \E f : /\ enc' = [enc EXCEPT ![r] = f]
                   /\ FrameInv(data, f) /\ Grew(data, enc[r], f)
<1> DEFINE e == enc[r]
           good(f) == FrameInv(data, f) /\ Grew(data, e, f)
<1> SUFFICES \E f : Advance(r, f) /\ good(f)
  BY DEF Advance
<1>1. e.running /\ ~Stops(data, e) => e.pos \in 0..(Len(data) - 1)
  BY NotStopped
<1>2. FrameCore(data, e) /\ e \in Frames(data)
  BY DEF FrameInv, FrameCore
<1>3. CASE Return(r)
  <2>1. Advance(r, Returned(data, e)) /\ e.running /\ Stops(data, e)
    BY <1>3 DEF Return
  <2>2. e.pos >= e.stop \/ e.pos \in e.meet
    <3>1. e.pos \in Nat /\ e.stop \in 0..Len(data)
      BY <1>2 DEF Frames
    <3> QED BY <2>1, <3>1 DEF Stops
  <2>3. good(Returned(data, e))
    BY <1>2, <2>2, ReturnedGood
  <2> QED BY <2>1, <2>3, Zenon
<1>4. CASE EmitFill(r)
  <2> DEFINE unit == UnitAt(data, e.pos)
             f == Emitted(data, e, unit)
             g == [f EXCEPT !.xlat = e.xlat]
  <2>1. /\ e.running /\ ~Stops(data, e) /\ FillCovers(data, e.pos) > 0
        /\ Advance(r, Emitted(data, e, ChooseFill(data, e.pos)))
    BY <1>4 DEF EmitFill
  <2>2. unit = ChooseFill(data, e.pos)
    BY <2>1 DEF UnitAt
  <2>3. e.xlat \in Xlats(data)
    BY <1>2 DEF Frames
  <2>4. good(g)
    BY <2>1, <2>3, EmittedGood
  <2>5. g = f
    <3>1. f.xlat = e.xlat
      BY <1>2 DEF Emitted, Frames
    <3>2. f = [e EXCEPT !.points = Recorded(e), !.out = Append(Flushed(data, e), unit),
                        !.block_start = NoBlock, !.pos = e.pos + unit.len]
      BY DEF Emitted
    <3> DEFINE points == Recorded(e)
               out == Append(Flushed(data, e), unit)
               to == e.pos + unit.len
    <3> HIDE DEF points, out, to
    <3>3. f = [e EXCEPT !.points = points, !.out = out, !.block_start = NoBlock, !.pos = to]
      BY <3>2 DEF points, out, to
    <3> HIDE DEF f
    <3> QED BY <1>2, <3>1, <3>3 DEF Frames
  <2> HIDE DEF f, g
  <2>6. Advance(r, f)
    BY <2>1, <2>2 DEF f
  <2> QED BY <2>4, <2>5, <2>6
<1>5. CASE EmitDp(r)
  <2> DEFINE len == DpLen(data, e.pos)
             profile == DpProfile(data, e.pos, len)
             mask == DpMask(data, e.pos, len)
             xlat == Xlat(e, <<profile, mask>>)
             f == [Emitted(data, e, UnitAt(data, e.pos)) EXCEPT !.xlat = xlat]
  <2>1. /\ e.running /\ ~Stops(data, e) /\ FillCovers(data, e.pos) = 0
        /\ DpApplies(data, e.pos)
        /\ Advance(r, [Emitted(data, e, DpUnit(data, e.pos, len, xlat.donors))
                         EXCEPT !.xlat = xlat])
    BY <1>5 DEF EmitDp
  <2>2. e.pos \in 0..Len(data)
    BY <1>1, <2>1
  <2>3. xlat \in Xlats(data) /\ xlat.donors = Donors(profile, mask)
    BY <1>2, <2>2, XlatGood
  <2>4. UnitAt(data, e.pos) = DpUnit(data, e.pos, len, xlat.donors)
    BY <2>1, <2>3 DEF UnitAt, DpApplies
  <2>5. good(f)
    <3> HIDE DEF xlat
    <3> QED BY <2>1, <2>3, EmittedGood
  <2>6. Advance(r, f)
    BY <2>1, <2>4
  <2> QED BY <2>5, <2>6, Zenon
<1>6. CASE TakeBlock(r)
  <2> DEFINE f == Taken(data, e)
  <2>1. /\ e.running /\ ~Stops(data, e) /\ FillCovers(data, e.pos) = 0
        /\ ~DpApplies(data, e.pos)
        /\ Advance(r, IF f.pos < e.stop THEN f ELSE Returned(data, f))
    BY <1>6 DEF TakeBlock
  <2>2. OnlyBlock(data, e.pos)
    BY <1>1, <2>1, GateSound DEF OnlyBlock
  <2>3. FrameCore(data, f) /\ Grew(data, e, f) /\ f.running
    BY <2>1, <2>2, TakenGood
  <2> HIDE DEF f
  <2>4. f.stop = e.stop /\ f.pos \in Nat /\ f.stop \in Nat
    BY <2>3 DEF Grew, FrameCore, Frames
  <2>5. CASE f.pos < e.stop
    <3>1. good(f)
      BY <2>3, <2>4, <2>5 DEF FrameInv
    <3> QED BY <2>1, <2>5, <3>1
  <2>6. CASE ~(f.pos < e.stop)
    <3> DEFINE g == Returned(data, f)
    <3>1. FrameInv(data, g) /\ Grew(data, f, g)
      BY <2>3, <2>4, <2>6, ReturnedGood
    <3>2. Grew(data, e, g)
      BY <1>2, <2>3, <3>1, GrewTransitive
    <3> QED BY <2>1, <2>6, <3>1, <3>2
  <2> QED BY <2>5, <2>6
<1> QED BY <1>3, <1>4, <1>5, <1>6 DEF EncodeStep

-----------------------------------------------------------------------------
(* Whole calls.                                                            *)

\* A call starts in its invariant.
LEMMA CallInit ==
  ASSUME NEW d \in Seq(Byte), NEW start \in Nat, NEW stop \in 0..Len(d), start <= stop,
         NEW meet \in SUBSET Nat, NEW record \in BOOLEAN
  PROVE  FrameInv(d, Call(start, stop, meet, record))
<1> DEFINE e == Call(start, stop, meet, record)
<1>1. /\ e.start = start /\ e.stop = stop /\ e.meet = meet /\ e.record = record
      /\ e.pos = start /\ e.block_start = NoBlock /\ e.out = <<>> /\ e.points = <<>>
      /\ e.xlat = NoXlat /\ e.running = TRUE
  BY DEF Call
<1>2. e \in Frames(d)
  <2>1. NoXlat \in Xlats(d) /\ NoBlock \in Nat \cup {NoBlock} /\ start \in 0..Len(d)
    BY DEF Xlats
  <2> QED BY <2>1 DEF Call, Frames
<1> HIDE DEF e
<1>3. OutEnd(e) = start /\ Canon(d, e.start, e.out, start)
  BY <1>1, CanonEmpty DEF OutEnd
<1>4. PendingOK(d, e) /\ PointsOK(e.points, e.start, e.meet, e.out, OutEnd(e), e.pos)
  BY <1>1 DEF PendingOK, PointsOK
<1>5. FrameCore(d, e)
  BY <1>1, <1>2, <1>3, <1>4 DEF FrameCore
<1> QED BY <1>1, <1>5 DEF FrameInv, e

\* A canonical piece is empty and leaves the cursor, or makes the output
\* properly longer and moves it.
LEMMA Extends ==
  ASSUME NEW d \in Seq(Byte), NEW u \in Seq(Units(d)), NEW v \in Seq(Units(d)),
         NEW p \in Nat, NEW q \in Nat, Canon(d, p, v, q)
  PROVE  \/ q = p /\ u \o v = u
         \/ /\ q > p /\ IsStrictPrefix(u, u \o v)
            /\ SubSeq(u \o v, Len(u) + 1, Len(u \o v)) = v
<1> DEFINE w == u \o v
<1>1. w \in Seq(Units(d)) /\ Len(w) = Len(u) + Len(v) /\ Len(u) \in Nat
  OBVIOUS
<1>2. CASE v = <<>>
  BY <1>2 DEF Canon
<1>3. CASE v # <<>>
  <2>1. Len(v) \in Nat \ {0} /\ 1 \in 1..Len(v)
    BY <1>3
  <2>2. v[1].at = p
    BY <1>3 DEF Canon
  <2>3. v[1].len \in Nat \ {0} /\ v[1].at + v[1].len <= q
    BY <2>1, CanonBounds
  <2>4. q > p
    BY <2>2, <2>3
  <2>5. SubSeq(w, Len(u) + 1, Len(w)) = v
    BY <1>1
  <2>6. SubSeq(w, 1, Len(u)) = u /\ SubSeq(u, 1, Len(u)) = u
    BY <1>1
  <2>7. u # w /\ Len(u) <= Len(w)
    BY <1>1, <2>1
  <2> QED BY <2>4, <2>5, <2>6, <2>7 DEF IsStrictPrefix, IsPrefix
<1> QED BY <1>2, <1>3

-----------------------------------------------------------------------------
(* The characters of units.                                                *)

\* k[i] is the number of characters of the first i units.
Sums(k, us) ==
  /\ k \in [0..Len(us) -> Nat] /\ k[0] = 0
  /\ \A i \in 1..Len(us) : k[i] = k[i - 1] + Chars(us[i])

\* Units that have characters can be counted one after the other.
LEMMA SumsExist ==
  ASSUME NEW C, NEW us \in Seq(C), \A u \in C : Chars(u) \in Nat
  PROVE  \E k : Sums(k, us)
<1> DEFINE n == Len(us)
           f == [x \in (1..n) \X Nat |-> x[2] + Chars(us[x[1]])]
<1>1. n \in Nat /\ \A i \in 1..n : Chars(us[i]) \in Nat
  BY LenProperties, ElementOfSeq
<1> HIDE DEF n
<1>2. f \in [(1..n) \X Nat -> Nat] /\ 0 \in Nat
  BY <1>1
<1>3. PICK k : Recurs(k, n, Nat, 0, f)
  <2> HIDE DEF f
  <2> QED BY <1>1, <1>2, Recursion
<1>4. k \in [0..n -> Nat] /\ k[0] = 0 /\ \A i \in 1..n : k[i] = f[<<i, k[i - 1]>>]
  <2> HIDE DEF f
  <2> QED BY <1>3 DEF Recurs
<1>5. \A i \in 1..n : k[i] = k[i - 1] + Chars(us[i])
  <2> SUFFICES ASSUME NEW i \in 1..n PROVE k[i] = k[i - 1] + Chars(us[i])
    OBVIOUS
  <2> DEFINE t == k[i - 1]
  <2>1. i - 1 \in 0..n
    BY <1>1
  <2>2. t \in Nat /\ k[i] = f[<<i, t>>]
    BY <1>4, <2>1
  <2> HIDE DEF t
  <2>3. f[<<i, t>>] = t + Chars(us[i])
    BY <2>2
  <2> QED BY <2>2, <2>3 DEF t
<1> QED BY <1>4, <1>5 DEF Sums, n

\* Any such count is the one CharsOf makes.
LEMMA SumIs ==
  ASSUME NEW us, Len(us) \in Nat, NEW k, Sums(k, us)
  PROVE  CharsOf(us) = k[Len(us)]
<1> DEFINE n == Len(us)
           sum[i \in 0..n] == IF i = 0 THEN 0 ELSE sum[i - 1] + Chars(us[i])
<1>1. CharsOf(us) = sum[n]
  BY DEF CharsOf
<1>2. n \in Nat /\ k \in [0..n -> Nat] /\ k[0] = 0 /\ \A i \in 1..n : k[i] = k[i - 1] + Chars(us[i])
  BY DEF Sums
<1> HIDE DEF n
<1>3. k = [i \in 0..n |-> IF i = 0 THEN 0 ELSE k[i - 1] + Chars(us[i])]
  <2> DEFINE g == [i \in 0..n |-> IF i = 0 THEN 0 ELSE k[i - 1] + Chars(us[i])]
  <2>1. ASSUME NEW i \in 0..n PROVE k[i] = g[i]
    <3>1. CASE i = 0
      BY <1>2, <3>1
    <3>2. CASE i # 0
      <4>1. i \in 1..n
        BY <1>2, <3>2
      <4> QED BY <1>2, <3>2, <4>1
    <3> QED BY <3>1, <3>2
  <2>2. k = [i \in 0..n |-> k[i]] /\ g = [i \in 0..n |-> g[i]]
    BY <1>2
  <2> HIDE DEF g
  <2>3. k = g
    BY <2>1, <2>2
  <2> QED BY <2>3 DEF g
<1>4. sum = [i \in 0..n |-> IF i = 0 THEN 0 ELSE sum[i - 1] + Chars(us[i])]
  BY <1>3
<1> HIDE DEF sum
<1> DEFINE T == {i \in 0..n : sum[i] = k[i]}
<1>5. 0 \in T
  BY <1>2, <1>4
<1>6. \A i \in 1..n : i - 1 \in T => i \in T
  <2> SUFFICES ASSUME NEW i \in 1..n, i - 1 \in T PROVE i \in T
    OBVIOUS
  <2>1. i \in 0..n /\ i # 0 /\ sum[i - 1] = k[i - 1]
    BY <1>2
  <2>2. sum[i] = sum[i - 1] + Chars(us[i])
    BY <1>4, <2>1
  <2> QED BY <1>2, <2>1, <2>2
<1>7. n \in T
  <2> HIDE DEF T
  <2>1. \A i \in 0..n : i \in T
    BY <1>2, <1>5, <1>6, CountingUp
  <2> QED BY <1>2, <2>1
<1> QED BY <1>1, <1>7 DEF n

\* The characters of units are a number, and those of one unit its own.
LEMMA CharsOfType ==
  ASSUME NEW C, NEW us \in Seq(C), \A u \in C : Chars(u) \in Nat
  PROVE  CharsOf(us) \in Nat
<1>1. PICK k : Sums(k, us)
  BY SumsExist
<1>2. Len(us) \in Nat
  OBVIOUS
<1>3. CharsOf(us) = k[Len(us)] /\ k[Len(us)] \in Nat
  BY <1>1, <1>2, SumIs DEF Sums
<1> QED BY <1>3

\* No units have no characters, and one unit has its own.
LEMMA CharsOfUnit ==
  ASSUME NEW u, Chars(u) \in Nat
  PROVE  CharsOf(<<u>>) = Chars(u) /\ CharsOf(<<>>) = 0
<1>1. CharsOf(<<u>>) = Chars(u)
  <2> DEFINE k == [i \in 0..1 |-> IF i = 0 THEN 0 ELSE Chars(u)]
             us == <<u>>
  <2>1. Len(us) = 1 /\ us[1] = u
    OBVIOUS
  <2>2. k \in [0..1 -> Nat] /\ k[0] = 0 /\ k[1] = Chars(u)
    OBVIOUS
  <2> HIDE DEF k, us
  <2>3. Sums(k, us)
    <3>1. ASSUME NEW i \in 1..Len(us) PROVE k[i] = k[i - 1] + Chars(us[i])
      <4>1. i = 1
        BY <2>1
      <4> QED BY <2>1, <2>2, <4>1
    <3> QED BY <2>1, <2>2, <3>1 DEF Sums
  <2>4. CharsOf(us) = k[Len(us)]
    <3>1. Len(us) \in Nat
      BY <2>1
    <3> QED BY <2>3, <3>1, SumIs
  <2> QED BY <2>1, <2>2, <2>4 DEF us
<1>2. CharsOf(<<>>) = 0
  <2> DEFINE k == [i \in 0..0 |-> 0]
  <2>1. Sums(k, <<>>)
    BY DEF Sums
  <2>2. k[0] = 0
    OBVIOUS
  <2> HIDE DEF k
  <2>3. CharsOf(<<>>) = k[Len(<<>>)]
    BY <2>1, SumIs, Len(<<>>) = 0
  <2> QED BY <2>2, <2>3
<1> QED BY <1>1, <1>2

\* Joined units have the characters of both.
LEMMA CharsOfJoined ==
  ASSUME NEW C, NEW us \in Seq(C), NEW vs \in Seq(C), \A u \in C : Chars(u) \in Nat
  PROVE  CharsOf(us \o vs) = CharsOf(us) + CharsOf(vs)
<1>1. PICK j : Sums(j, us)
  BY SumsExist
<1>2. PICK k : Sums(k, vs)
  BY SumsExist
<1> DEFINE m == Len(us)
           n == Len(vs)
           ws == us \o vs
           l == [i \in 0..(m + n) |-> IF i <= m THEN j[i] ELSE j[m] + k[i - m]]
<1>3. /\ m \in Nat /\ n \in Nat /\ Len(ws) = m + n
      /\ \A i \in 1..(m + n) : ws[i] = IF i <= m THEN us[i] ELSE vs[i - m]
  OBVIOUS
<1>4. CharsOf(us) = j[m] /\ CharsOf(vs) = k[n]
  BY <1>1, <1>2, <1>3, SumIs
<1>5. /\ j \in [0..m -> Nat] /\ j[0] = 0 /\ \A i \in 1..m : j[i] = j[i - 1] + Chars(us[i])
      /\ k \in [0..n -> Nat] /\ k[0] = 0 /\ \A i \in 1..n : k[i] = k[i - 1] + Chars(vs[i])
  BY <1>1, <1>2 DEF Sums
<1> HIDE DEF m, n, ws
<1>6. l \in [0..(m + n) -> Nat] /\ l[0] = 0 /\ l[m + n] = j[m] + k[n]
  <2>1. ASSUME NEW i \in 0..(m + n) PROVE l[i] \in Nat
    <3>1. CASE i <= m
      <4>1. i \in 0..m /\ l[i] = j[i]
        BY <1>3, <3>1
      <4> QED BY <1>5, <4>1
    <3>2. CASE ~(i <= m)
      <4>1. i - m \in 0..n /\ m \in 0..m /\ l[i] = j[m] + k[i - m]
        BY <1>3, <3>2
      <4>2. j[m] \in Nat /\ k[i - m] \in Nat
        BY <1>5, <4>1
      <4> QED BY <4>1, <4>2
    <3> QED BY <3>1, <3>2
  <2>2. l[m + n] = j[m] + k[n]
    <3>1. n = 0 => m + n = m /\ j[m] + k[n] = j[m]
      BY <1>3, <1>5
    <3>2. n # 0 => ~(m + n <= m) /\ (m + n) - m = n
      BY <1>3
    <3>3. m + n \in 0..(m + n) /\ m <= m
      BY <1>3
    <3> QED BY <3>1, <3>2, <3>3
  <2> QED BY <1>3, <1>5, <2>1, <2>2
<1>7. ASSUME NEW i \in 1..(m + n) PROVE l[i] = l[i - 1] + Chars(ws[i])
  <2>0. i \in 0..(m + n) /\ i - 1 \in 0..(m + n)
    BY <1>3
  <2>1. CASE i <= m
    <3>1. i \in 1..m /\ i - 1 <= m /\ ws[i] = us[i]
      BY <1>3, <2>1
    <3> QED BY <1>5, <2>0, <2>1, <3>1
  <2>2. CASE i = m + 1
    <3>1. 1 \in 1..n /\ i - m = 1 /\ i - 1 = m /\ ~(i <= m) /\ ws[i] = vs[1] /\ m <= m
      BY <1>3, <2>2
    <3>2. k[1] = k[1 - 1] + Chars(vs[1]) /\ 1 - 1 = 0
      BY <1>5, <3>1
    <3>3. k[1] = Chars(vs[1])
      <4>1. Chars(vs[1]) \in Nat
        BY <3>1, ElementOfSeq DEF n
      <4> QED BY <1>5, <3>2, <4>1
    <3>4. l[i] = j[m] + k[1] /\ l[i - 1] = j[m]
      BY <2>0, <3>1
    <3> QED BY <3>1, <3>3, <3>4
  <2>3. CASE i > m + 1
    <3> DEFINE h == i - m
    <3>1. h \in 1..n /\ h - 1 \in 0..n /\ h \in 0..n /\ ~(i <= m) /\ ~(i - 1 <= m)
          /\ (i - 1) - m = h - 1 /\ ws[i] = vs[h]
      BY <1>3, <2>3
    <3>2. l[i] = j[m] + k[h] /\ l[i - 1] = j[m] + k[h - 1]
      BY <2>0, <3>1
    <3>3. k[h] = k[h - 1] + Chars(vs[h]) /\ k[h] \in Nat /\ k[h - 1] \in Nat
      BY <1>5, <3>1
    <3>4. j[m] \in Nat
      BY <1>3, <1>5
    <3> HIDE DEF h, l
    <3>5. Chars(vs[h]) = k[h] - k[h - 1] \/ k[h] = k[h - 1] + Chars(ws[i])
      BY <3>1, <3>3
    <3>6. vs[h] \in C
      BY <3>1, ElementOfSeq DEF n
    <3>7. Chars(ws[i]) \in Nat
      BY <3>1, <3>6
    <3> QED BY <3>1, <3>2, <3>3, <3>4, <3>7
  <2> QED BY <1>3, <2>1, <2>2, <2>3
<1> HIDE DEF l
<1>8. Sums(l, ws)
  BY <1>3, <1>6, <1>7 DEF Sums
<1>9. CharsOf(ws) = l[m + n]
  <2>1. Len(ws) \in Nat
    BY <1>3
  <2>2. CharsOf(ws) = l[Len(ws)]
    BY <1>8, <2>1, SumIs
  <2> QED BY <1>3, <2>2
<1> QED BY <1>4, <1>6, <1>9 DEF ws, m, n

\* What block mode writes for a run of n bytes: five characters for four bytes
\* and one more than their number for a remainder.
RunChars(n) == (n \div 4) * 5 + (IF n % 4 = 0 THEN 0 ELSE (n % 4) + 1)

\* A run costs its length and a quarter of it, a remainder a little more.
LEMMA RunCost ==
  ASSUME NEW n \in Nat
  PROVE  /\ RunChars(n) \in Nat
         /\ 4 * RunChars(n) <= 5 * n + 3
         /\ RunChars(n) <= n + n \div 4 + 1
         /\ n % 4 = 0 => 4 * RunChars(n) = 5 * n
BY DEF RunChars

\* The groups of a run have as many characters as block mode counts for it.
LEMMA GroupsChars ==
  ASSUME NEW d, NEW start \in Nat, NEW end \in Nat, start <= end
  PROVE  CharsOf(Groups(d, start, end)) = RunChars(end - start)
<1> DEFINE len == end - start
           n == (len + 3) \div 4
           at(k) == start + 4 * (k - 1)
           size(k) == Smaller(end - at(k), 4)
           g == Groups(d, start, end)
           sum == [i \in 0..n |-> RunChars(Smaller(4 * i, len))]
<1>1. len \in Nat /\ n \in Nat /\ n * 4 <= len + 3 /\ len + 3 < n * 4 + 4
  OBVIOUS
<1>2. Len(g) = n /\ \A k \in 1..n : g[k].kind = "block" /\ g[k].len = size(k)
  <2>1. g = [k \in 1..n |->
               [kind |-> "block", at |-> at(k), len |-> size(k),
                sig |-> SubSeq(d, at(k) + 1, at(k) + size(k))]]
    BY DEF Groups
  <2> HIDE DEF n, at, g, size
  <2> QED BY <1>1, <2>1
<1>3. \A i \in 0..n : Smaller(4 * i, len) \in Nat
  BY <1>1 DEF Smaller
<1>4. sum \in [0..n -> Nat]
  <2> HIDE DEF n, len
  <2> QED BY <1>3, RunCost
<1>5. sum[0] = 0 /\ sum[n] = RunChars(len)
  <2>1. Smaller(4 * 0, len) = 0 /\ Smaller(4 * n, len) = len
    BY <1>1 DEF Smaller
  <2>2. RunChars(0) = 0
    BY DEF RunChars
  <2> HIDE DEF n, len
  <2> QED BY <1>1, <2>1, <2>2
<1>6. ASSUME NEW i \in 1..n PROVE sum[i] = sum[i - 1] + Chars(g[i])
  <2>1. Chars(g[i]) = size(i) + 1
    BY <1>2 DEF Chars
  <2>2. i \in 0..n /\ i - 1 \in 0..n
    BY <1>1
  <2>3. sum[i] = RunChars(Smaller(4 * i, len)) /\ sum[i - 1] = RunChars(Smaller(4 * (i - 1), len))
    <3> HIDE DEF n, len
    <3> QED BY <2>2
  <2>4. size(i) = Smaller(len - 4 * (i - 1), 4)
    BY DEF Smaller
  <2> HIDE DEF sum, g, size, at, n, len
  <2>5. Smaller(4 * (i - 1), len) = 4 * (i - 1)
    BY <1>1 DEF Smaller
  <2>6. RunChars(4 * (i - 1)) = 5 * (i - 1)
    BY <1>1 DEF RunChars
  <2>7. CASE 4 * i <= len
    <3>1. Smaller(4 * i, len) = 4 * i /\ size(i) = 4
      BY <1>1, <2>4, <2>7 DEF Smaller
    <3>2. RunChars(4 * i) = 5 * i
      BY <1>1 DEF RunChars
    <3> QED BY <1>1, <2>1, <2>3, <2>5, <2>6, <3>1, <3>2
  <2>8. CASE ~(4 * i <= len)
    <3> DEFINE r == len - 4 * (i - 1)
    <3>1. r \in 1..3 /\ Smaller(4 * i, len) = len /\ size(i) = r
      BY <1>1, <2>4, <2>8 DEF Smaller
    <3>2. len \div 4 = i - 1 /\ len % 4 = r
      BY <1>1, <3>1
    <3>3. RunChars(len) = 5 * (i - 1) + r + 1
      BY <3>1, <3>2 DEF RunChars
    <3> HIDE DEF r
    <3> QED BY <1>1, <2>1, <2>3, <2>5, <2>6, <3>1, <3>3
  <2> QED BY <2>7, <2>8
<1> HIDE DEF sum, n, g, len
<1>7. Sums(sum, g)
  BY <1>2, <1>4, <1>5, <1>6 DEF Sums
<1>8. CharsOf(g) = sum[Len(g)]
  BY <1>1, <1>2, <1>7, SumIs
<1> QED BY <1>2, <1>5, <1>8 DEF g, len

\* Every construct has characters: a Fill five, a segment five and one for each
\* of its bytes, a group one more than its bytes.
LEMMA UnitLong ==
  ASSUME NEW d \in Seq(Byte)
  PROVE  /\ \A u \in Units(d) : Chars(u) \in Nat
         /\ \A p \in 0..(Len(d) - 1) :
              /\ FillCovers(d, p) > 0 => Chars(UnitAt(d, p)) = 5
              /\ ~(FillCovers(d, p) > 0) /\ DpLen(d, p) >= MinPassthrough =>
                   Chars(UnitAt(d, p)) = 5 + DpLen(d, p)
<1>1. ASSUME NEW p \in 0..(Len(d) - 1)
      PROVE  /\ Chars(UnitAt(d, p)) \in Nat
             /\ FillCovers(d, p) > 0 => Chars(UnitAt(d, p)) = 5
             /\ ~(FillCovers(d, p) > 0) /\ DpLen(d, p) >= MinPassthrough =>
                  Chars(UnitAt(d, p)) = 5 + DpLen(d, p)
  <2>1. UnitAt(d, p).len \in Nat
    BY UnitFacts
  <2>2. CASE FillCovers(d, p) > 0
    <3>1. UnitAt(d, p).kind \in {"solid", "zerosFirst", "literalsFirst"}
      BY <2>2 DEF UnitAt, ChooseFill
    <3>2. Chars(UnitAt(d, p)) = 5
      BY <3>1 DEF Chars
    <3> QED BY <2>2, <3>2
  <2>3. CASE ~(FillCovers(d, p) > 0) /\ DpLen(d, p) >= MinPassthrough
    <3>1. UnitAt(d, p).kind = "dp" /\ UnitAt(d, p).len = DpLen(d, p)
      BY <2>3 DEF UnitAt, DpUnit
    <3>2. Chars(UnitAt(d, p)) = 5 + DpLen(d, p)
      BY <3>1 DEF Chars
    <3> QED BY <2>1, <2>3, <3>1, <3>2
  <2>4. CASE ~(FillCovers(d, p) > 0) /\ ~(DpLen(d, p) >= MinPassthrough)
    <3>1. UnitAt(d, p).kind = "block"
      BY <2>4 DEF UnitAt, BlockUnit
    <3>2. Chars(UnitAt(d, p)) = UnitAt(d, p).len + 1
      BY <3>1 DEF Chars
    <3> QED BY <2>1, <2>4, <3>2
  <2> QED BY <2>2, <2>3, <2>4
<1> QED BY <1>1 DEF Units

\* How many bytes of the pending run are not written yet.
PendingBytes(e) == IF e.block_start = NoBlock THEN 0 ELSE e.pos - e.block_start

\* Flushing the pending run writes what block mode counts for it, and a
\* construct after it its own characters.
LEMMA FrameChars ==
  ASSUME NEW d \in Seq(Byte), NEW e, FrameCore(d, e)
  PROVE  /\ CharsOf(e.out) \in Nat /\ PendingBytes(e) \in Nat
         /\ CharsOf(Flushed(d, e)) = CharsOf(e.out) + RunChars(PendingBytes(e))
         /\ \A u \in Units(d) :
              CharsOf(Append(Flushed(d, e), u)) =
                CharsOf(e.out) + RunChars(PendingBytes(e)) + Chars(u)
<1> DEFINE n == PendingBytes(e)
           g == Groups(d, e.block_start, e.pos)
<1>1. e.out \in Seq(Units(d)) /\ e.pos \in Nat /\ e.start \in Nat
  BY DEF FrameCore, Frames
<1>2. \A u \in Units(d) : Chars(u) \in Nat
  BY UnitLong
<1>3. CharsOf(e.out) \in Nat
  BY <1>1, <1>2, CharsOfType
<1>4. n \in Nat /\ CharsOf(Flushed(d, e)) = CharsOf(e.out) + RunChars(n)
  <2>1. CASE e.block_start = NoBlock
    <3>1. n = 0 /\ Flushed(d, e) = e.out
      BY <2>1 DEF PendingBytes, Flushed
    <3>2. RunChars(0) = 0
      BY DEF RunChars
    <3> QED BY <1>3, <3>1, <3>2
  <2>2. CASE e.block_start # NoBlock
    <3>1. /\ e.block_start \in e.start..(e.pos - 1)
          /\ BlockRun(d, e.block_start, e.pos)
      BY <2>2 DEF FrameCore, PendingOK
    <3>2. e.block_start \in Nat /\ e.block_start <= e.pos /\ n = e.pos - e.block_start /\ n \in Nat
      BY <1>1, <2>2, <3>1 DEF PendingBytes
    <3>3. g \in Seq(Units(d)) /\ CharsOf(g) = RunChars(n)
      BY <1>1, <3>1, <3>2, GroupsCanon, GroupsChars
    <3>4. Flushed(d, e) = e.out \o g
      BY <2>2 DEF Flushed
    <3> HIDE DEF g, n
    <3> QED BY <1>1, <1>2, <3>2, <3>3, <3>4, CharsOfJoined
  <2> QED BY <2>1, <2>2
<1>5. ASSUME NEW u \in Units(d)
      PROVE  CharsOf(Append(Flushed(d, e), u)) = CharsOf(Flushed(d, e)) + Chars(u)
  <2>1. Flushed(d, e) \in Seq(Units(d)) /\ <<u>> \in Seq(Units(d))
    BY FlushedCanon
  <2>2. Append(Flushed(d, e), u) = Flushed(d, e) \o <<u>>
    BY <2>1
  <2>3. CharsOf(<<u>>) = Chars(u)
    BY <1>2, CharsOfUnit
  <2> QED BY <1>2, <2>1, <2>2, <2>3, CharsOfJoined
<1> QED BY <1>3, <1>4, <1>5

\* A Fill costs five characters and covers at least five bytes.
LEMMA FillCost ==
  ASSUME NEW d \in Seq(Byte), NEW p \in 0..(Len(d) - 1), FillCovers(d, p) > 0
  PROVE  FillCovers(d, p) >= 5
<1>1. FillRun(d, p) \in Int /\ MinFill >= 5 /\ MinFill \in Nat
  BY FillRunFacts, CostAssumption, ThresholdsAssumption
<1>2. SolidCovers(d, p) \in Int /\ (SolidCovers(d, p) > 0 => SolidCovers(d, p) >= 5)
  BY <1>1 DEF SolidCovers
<1>3. /\ ZerosFirstCovers(d, p) \in Int
      /\ ZerosFirstCovers(d, p) > 0 => ZerosFirstCovers(d, p) >= 5
  <2>1. Smaller(FillRun(d, p), MaxTailZeros) \in Int
    BY <1>1, ThresholdsAssumption, SmallerLarger
  <2> QED BY <2>1, ThresholdsAssumption DEF ZerosFirstCovers
<1>4. /\ LiteralsFirstCovers(d, p) \in Int
      /\ LiteralsFirstCovers(d, p) > 0 => LiteralsFirstCovers(d, p) >= 5
  <2>1. CASE Len(d) - p >= 3
    <3>1. ZeroRun(d, p + 2) \in Int
      <4>1. p + 2 \in 0..Len(d)
        BY <2>1
      <4> QED BY <4>1, ZeroRunFacts
    <3> QED BY <3>1, ThresholdsAssumption DEF LiteralsFirstCovers
  <2>2. CASE ~(Len(d) - p >= 3)
    BY <2>2 DEF LiteralsFirstCovers
  <2> QED BY <2>1, <2>2
<1> QED BY <1>2, <1>3, <1>4 DEF FillCovers
=============================================================================
