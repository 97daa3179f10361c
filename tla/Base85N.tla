------------------------------ MODULE Base85N ------------------------------
(***************************************************************************)
(* The constructs of the Base85N format and the rule that picks one of     *)
(* them at a position of the input: a Fill signal (solid, zeros first or   *)
(* literals first), a Dynamic Passthrough segment, or a block-mode group   *)
(* (rust/src/encode.rs, rust/src/alphabet.rs).                             *)
(*                                                                         *)
(* The input is a sequence d of bytes; positions p are 0-based as in the   *)
(* code, so the byte at p is d[p + 1].  A construct is a record (a "unit") *)
(* and an encoding is a sequence of units: the characters of a unit are a  *)
(* function of it, so a character offset is abstracted to a unit count.    *)
(***************************************************************************)
EXTENDS Integers, Sequences, FiniteSets, FiniteSetsExt

CONSTANTS
  Byte,             \* the byte values
  Zero,             \* the byte 0x00
  AlphabetN,        \* bytes that are Alphabet-N characters
  RSet,             \* the R-Set characters, in R-Set index order (a sequence)
  Profiles,         \* Profiles[q]: the donors of profile q, best rank first
  WordRange,        \* the bytes 0x09 .. 0x7E a whole-word test can tell
  MinPassthrough,   \* MIN_PASSTHROUGH_BYTES (20)
  MaxDpSegment,     \* MAX_DP_ANALYSIS_BYTES = MAX_DP_SEGMENT_CHARS (2048)
  MinFill,          \* MIN_FILL_BYTES (5)
  MinFillInSegment, \* MIN_FILL_IN_SEGMENT_BYTES (16)
  MaxFill,          \* MAX_FILL_BYTES (2048)
  MinTailZeros,     \* MIN_TAIL_ZEROS (3)
  MaxTailZeros      \* MAX_TAIL_ZEROS (32)

RSetBytes == {RSet[j] : j \in 1..Len(RSet)}
Representable == AlphabetN \cup RSetBytes
ProfileIds == 1..Len(Profiles)

ASSUME BytesAssumption ==
  /\ Zero \in Byte
  /\ AlphabetN \subseteq Byte
  /\ RSet \in Seq(Byte)
  /\ WordRange \subseteq Byte
  /\ Representable \subseteq WordRange
  /\ Zero \notin WordRange
  /\ AlphabetN \cap RSetBytes = {}
  /\ \A i, j \in 1..Len(RSet) : RSet[i] = RSet[j] => i = j

ASSUME ProfilesAssumption ==
  /\ Profiles \in Seq(Seq(AlphabetN)) /\ Profiles # <<>>
  /\ \A q \in ProfileIds :
       /\ Len(Profiles[q]) = Len(RSet)
       /\ \A i, j \in 1..Len(RSet) : Profiles[q][i] = Profiles[q][j] => i = j

\* The relations between the thresholds that the code's window tests rely on:
\* they read twelve bytes of a passthrough candidate and three of a zero run.
ASSUME ThresholdsAssumption ==
  /\ MinPassthrough \in Nat /\ MinPassthrough >= 12
  /\ MaxDpSegment \in Nat /\ MaxDpSegment >= MinPassthrough
  /\ MinFill \in Nat /\ MinFill >= 2 /\ MinFill + 4 <= MinPassthrough
  /\ MinFillInSegment \in Nat /\ MinFillInSegment >= 2
  /\ MaxFill \in Nat /\ MaxFill >= MinFill
  /\ MinTailZeros = 3
  /\ MaxTailZeros \in Nat /\ MaxTailZeros >= MinTailZeros

-----------------------------------------------------------------------------
(* Runs.                                                                   *)

Smaller(a, b) == IF a <= b THEN a ELSE b
Larger(a, b) == IF a >= b THEN a ELSE b

\* The run of identical bytes at p: where the loop of fill_run stops.
FillRun(d, p) ==
  LET limit == Smaller(Len(d) - p, MaxFill)
  IN  CHOOSE i \in 1..limit :
        /\ i = limit \/ d[p + i + 1] # d[p + 1]
        /\ \A j \in 1..(i - 1) : d[p + j + 1] = d[p + 1]

\* The run of zero bytes at p.
ZeroRun(d, p) ==
  LET limit == Smaller(Len(d) - p, MaxTailZeros)
  IN  CHOOSE i \in 0..limit :
        /\ i = limit \/ d[p + i + 1] # Zero
        /\ \A j \in 0..(i - 1) : d[p + j + 1] = Zero

-----------------------------------------------------------------------------
(* Step 1: Fill.  A variant covers 0 bytes where it does not apply.        *)

SolidCovers(d, p) ==
  IF FillRun(d, p) >= MinFill THEN FillRun(d, p) ELSE 0

ZerosFirstCovers(d, p) ==
  LET zeros == Smaller(FillRun(d, p), MaxTailZeros)
  IN  IF d[p + 1] = Zero /\ zeros >= MinTailZeros /\ zeros + 2 <= Len(d) - p
      THEN zeros + 2 ELSE 0

LiteralsFirstCovers(d, p) ==
  IF Len(d) - p >= 3 /\ d[p + 3] = Zero /\ ZeroRun(d, p + 2) >= MinTailZeros
  THEN ZeroRun(d, p + 2) + 2 ELSE 0

FillCovers(d, p) ==
  LET tail == IF LiteralsFirstCovers(d, p) > ZerosFirstCovers(d, p)
              THEN LiteralsFirstCovers(d, p) ELSE ZerosFirstCovers(d, p)
  IN  IF tail > SolidCovers(d, p) THEN tail ELSE SolidCovers(d, p)

\* The Fill at p, given that one applies: the variant that covers more, a tie
\* going to the solid one and then to the one with its zeros first.
ChooseFill(d, p) ==
  LET covers == FillCovers(d, p)
      unit(kind, sig) == [kind |-> kind, at |-> p, len |-> covers, sig |-> sig]
  IN  IF covers = SolidCovers(d, p)
      THEN unit("solid", <<d[p + 1]>>)
      ELSE IF covers = ZerosFirstCovers(d, p)
      THEN unit("zerosFirst", <<d[p + covers - 1], d[p + covers]>>)
      ELSE unit("literalsFirst", <<d[p + 1], d[p + 2]>>)

-----------------------------------------------------------------------------
(* Steps 2 and 3: Dynamic Passthrough.                                     *)

\* The rank of character b in profile q; "absent" is past every real rank.
Rank(q, b) ==
  LET at == {r \in 1..Len(RSet) : Profiles[q][r] = b}
  IN  IF at = {} THEN Len(RSet) ELSE Min(at) - 1

\* The profiles that can carry the set S of bytes: none of the donors they
\* spend on the R-Set characters of S is itself a literal of S.
Viable(S) ==
  {q \in ProfileIds :
     \A b \in S \ RSetBytes : Rank(q, b) >= Cardinality(S \cap RSetBytes)}

\* The bytes the first i bytes at p consist of.
Seen(d, p, i) == {d[p + j] : j \in 1..i}

DpLimit(d, p) == Smaller(Len(d) - p, MaxDpSegment)

\* A run long enough for a Fill of its own begins i bytes after p.
RunBreaks(d, p, i) ==
  /\ i + MinFillInSegment <= DpLimit(d, p)
  /\ \A j \in 2..MinFillInSegment : d[p + i + j] = d[p + i + 1]

\* The prefix ends after i bytes.
DpEnds(d, p, i) ==
  \/ i = DpLimit(d, p)
  \/ d[p + i + 1] \notin Representable
  \/ RunBreaks(d, p, i)
  \/ Viable(Seen(d, p, i + 1)) = {}

\* What scan_dp returns: the length of the longest prefix one profile carries,
\* the R-Set characters in it and the smallest profile viable for it.
DpLen(d, p) ==
  CHOOSE i \in 0..DpLimit(d, p) :
    DpEnds(d, p, i) /\ \A j \in 0..(i - 1) : ~DpEnds(d, p, j)
DpMask(d, p, len) == Seen(d, p, len) \cap RSetBytes
DpProfile(d, p, len) == Min(Viable(Seen(d, p, len)))

\* The substitution of a segment: the R-Set characters of its mask, in index
\* order, are written as the first donors of its profile.
RSetIndex(c) == CHOOSE j \in 1..Len(RSet) : RSet[j] = c
Donors(q, mask) ==
  [c \in mask |->
     Profiles[q][Cardinality({x \in mask : RSetIndex(x) <= RSetIndex(c)})]]

DpUnit(d, p, len, donors) ==
  [kind |-> "dp", at |-> p, len |-> len,
   sig |-> <<DpProfile(d, p, len), DpMask(d, p, len), donors>>]

-----------------------------------------------------------------------------
(* Step 4: block mode, one group of four bytes or the final remainder.     *)

BlockUnit(d, p) ==
  LET len == Smaller(Len(d) - p, 4)
  IN  [kind |-> "block", at |-> p, len |-> len, sig |-> SubSeq(d, p + 1, p + len)]

-----------------------------------------------------------------------------
(* The canonical construct at p: every step decided for real, no gate and  *)
(* no skip, one block-mode group at a time.                                *)

UnitAt(d, p) ==
  IF FillCovers(d, p) > 0 THEN ChooseFill(d, p)
  ELSE IF DpLen(d, p) >= MinPassthrough
  THEN LET len == DpLen(d, p)
       IN  DpUnit(d, p, len, Donors(DpProfile(d, p, len), DpMask(d, p, len)))
  ELSE BlockUnit(d, p)

\* The canonical encoding of d.
Encoding(d) ==
  LET units[p \in 0..Len(d)] ==
        IF p = Len(d) THEN <<>>
        ELSE LET u == UnitAt(d, p) IN <<u>> \o units[p + u.len]
  IN  units[0]

\* u is the canonical encoding of d from position a to position b.
Canon(d, a, u, b) ==
  /\ \A k \in 1..Len(u) :
       /\ u[k].at \in 0..(Len(d) - 1)
       /\ u[k] = UnitAt(d, u[k].at)
       /\ u[k].at + u[k].len = (IF k = Len(u) THEN b ELSE u[k + 1].at)
  /\ (IF u = <<>> THEN b ELSE u[1].at) = a
=============================================================================
