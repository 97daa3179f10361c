------------------------------- MODULE DpLanes -------------------------------
(***************************************************************************)
(* The words the passthrough scan computes with: one profile per byte lane *)
(* of a machine word, so that a comparison with every profile's rank is    *)
(* one subtraction (lane_ge, lane_min, rust/src/encode.rs, and             *)
(* RANK_PACKED, rust/src/alphabet.rs).  DpScan keeps the lanes apart; here *)
(* the words are the numbers the code has, borrows between lanes included. *)
(* And the substitution of the segment that was found, Lanes bytes at a    *)
(* time in a build with vectors (translate, rust/src/simd.rs).             *)
(***************************************************************************)
EXTENDS DpScan, SequencesExt

LaneValues == 256
LaneHigh == 128

\* Ranks, and a profile's number of donors, leave a lane's high bit clear.
ASSUME RanksAssumption == Len(RSet) < LaneHigh

\* The word with f[q] in the lane of profile q, and what a word has in a lane:
\* the byte left once the lanes below are shifted out.
Packed(f) ==
  LET from[q \in 1..(Len(Profiles) + 1)] ==
        IF q \in ProfileIds THEN f[q] + LaneValues * from[q + 1] ELSE 0
  IN  from[1]
Lane(x, q) ==
  LET down[r \in ProfileIds] == IF r = 1 THEN x ELSE down[r - 1] \div LaneValues
  IN  down[q] % LaneValues
OnesWord == Packed([q \in ProfileIds |-> 1])

\* RANK_PACKED of a byte a segment can carry.
RankWord(b) == Packed([q \in ProfileIds |-> Rank(q, b)])

\* x | LANE_HI, and x & LANE_HI.
WithHigh(x) ==
  Packed([q \in ProfileIds |-> IF Lane(x, q) < LaneHigh THEN Lane(x, q) + LaneHigh
                               ELSE Lane(x, q)])
HighOf(x) ==
  Packed([q \in ProfileIds |-> IF Lane(x, q) < LaneHigh THEN 0 ELSE LaneHigh])

LaneGe_NoHigh(x, y) == HighOf(x - y)
LaneGe(x, y) == HighOf(WithHigh(x) - y)

\* One word or the other, lane by lane: the comparison spread over each lane
\* is the mask the code selects with.
LaneMin(x, y) ==
  LET m == (LaneGe(x, y) \div LaneHigh) * (LaneValues - 1)
  IN  Packed([q \in ProfileIds |-> IF Lane(m, q) = 0 THEN Lane(x, q) ELSE Lane(y, q)])

\* The lowest lane of a comparison that holds: trailing_zeros() >> 3.
LowestLane(x) ==
  CHOOSE q \in ProfileIds : Lane(x, q) # 0 /\ \A r \in 1..(q - 1) : Lane(x, r) = 0

\* The viable profiles after byte b, as the word the scan computes.
ViableWord(b) ==
  LET k == Cardinality(mask)
  IN  IF b \in RSetBytes THEN LaneGe(Packed(min_donor), (k + 1) * OnesWord)
      ELSE LaneGe(LaneMin(Packed(min_donor), RankWord(b)), k * OnesWord)

\* The substitutions of a segment, in the order of the R-Set.
Pairs_ByIndex(q, m) ==
  [r \in 1..Cardinality(m) |->
     LET c == CHOOSE x \in m : Cardinality({y \in m : RSetIndex(y) <= RSetIndex(x)}) = r
     IN  <<c, Profiles[q][RSetIndex(c)]>>]
Pairs(q, m) ==
  [r \in 1..Cardinality(m) |->
     <<CHOOSE x \in m : Cardinality({y \in m : RSetIndex(y) <= RSetIndex(x)}) = r,
       Profiles[q][r]>>]

\* Whole vectors see every substitution in turn, each on what the ones before
\* it left; the bytes after them the first that applies.
Blended(pairs, b) == FoldLeft(LAMBDA v, p : IF v = p[1] THEN p[2] ELSE v, b, pairs)
Found(pairs, b) ==
  LET hits == {r \in 1..Len(pairs) : pairs[r][1] = b}
  IN  IF hits = {} THEN b ELSE pairs[Min(hits)][2]
Translated(pairs, src) ==
  [j \in 1..Len(src) |-> IF j <= (Len(src) \div Lanes) * Lanes THEN Blended(pairs, src[j])
                         ELSE Found(pairs, src[j])]

-----------------------------------------------------------------------------
\* Wherever the scan accounts for a byte, the word arithmetic decides what the
\* lanes kept apart decide: no lane borrows from its neighbour, the minimum takes
\* each lane from the right word, and the lowest lane that holds is the smallest
\* viable profile.
LanesExact ==
  Running /\ i < Limit /\ Current \in Representable \ (seen \cup Plain) =>
    LET word   == ViableWord(Current)
        viable == ViableWith(Current)
    IN  /\ LaneMin(Packed(min_donor), RankWord(Current)) = Packed(MinDonorWith(Current))
        /\ \A q \in ProfileIds : Lane(word, q) # 0 <=> q \in viable
        /\ viable # {} => LowestLane(word) = Min(viable)

\* The vectors write for the segment what the table of a build without them
\* writes: no substitution touches what another one has written.  And what is
\* written tells the bytes apart, so that it can be read back.
TranslationExact ==
  ~Running =>
    LET src     == SubSeq(window, 1, prefix.len)
        donors  == Donors(prefix.profile, prefix.mask)
        written == Translated(Pairs(prefix.profile, prefix.mask), src)
    IN  /\ written = [j \in 1..prefix.len |->
                        IF src[j] \in prefix.mask THEN donors[src[j]] ELSE src[j]]
        /\ \A j, k \in 1..prefix.len : written[j] = written[k] => src[j] = src[k]
=============================================================================
