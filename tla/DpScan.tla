------------------------------- MODULE DpScan -------------------------------
(***************************************************************************)
(* The Dynamic Passthrough prefix scan (scan_dp, struct DpScan,            *)
(* rust/src/encode.rs), one byte or one run at a time.  It keeps the mask  *)
(* and the profile in effect, per profile the lowest rank a literal has    *)
(* held, and the state before the most recent change, which is what a run  *)
(* that ends the prefix at its first byte is rolled back to.  A build with *)
(* vectors (SkipSet, rust/src/simd.rs) also keeps the set of bytes that    *)
(* change nothing and walks over them Lanes at a time.                     *)
(***************************************************************************)
EXTENDS Base85N

CONSTANTS
  Windows,   \* the stretches of input scanned
  Lanes      \* LANES (16)

ASSUME WindowsAssumption == Windows \subseteq Seq(Byte)
ASSUME LanesAssumption == Lanes \in Nat \ {0}

VARIABLES
  window,     \* the input from the position of the scan on
  simd,       \* whether the build has vectors
  i,          \* bytes accepted
  seen,       \* the bytes (other than plain ones) accounted for
  mask,       \* the R-Set characters accepted
  profile,    \* the smallest profile that carries them
  min_donor,  \* min_donor[q]: the lowest rank a literal held in profile q
  prev,       \* <<mask, profile>> before the most recent change
  prev_pos,   \* where that change happened
  skip,       \* the bytes a vector step may pass over
  prefix      \* what the scan returned, <<>> while it runs

vars == <<window, simd, i, seen, mask, profile, min_donor, prev, prev_pos, skip, prefix>>

NoPos == -1
Limit == Smaller(Len(window), MaxDpSegment)
Running == prefix = <<>>

\* Characters some profile spends, and those no profile does.
DonorBytes == {Profiles[q][r] : q \in ProfileIds, r \in 1..Len(RSet)}
Plain == AlphabetN \ DonorBytes

Init ==
  /\ window \in Windows /\ simd \in BOOLEAN
  /\ i = 0 /\ seen = {} /\ mask = {} /\ profile = 1 /\ skip = Plain
  /\ min_donor = [q \in ProfileIds |-> Len(RSet)]
  /\ prev = <<{}, 1>> /\ prev_pos = NoPos /\ prefix = <<>>

Answer_OnePast(len, m, p) ==
  prefix' = [len |-> len + 1, mask |-> m, profile |-> p]
Answer(len, m, p) == prefix' = [len |-> len, mask |-> m, profile |-> p]

\* The byte the loop looks at, and whether it opens a run with its
\* predecessor (the first byte has none).
Current == window[i + 1]
InRun == i > 0 /\ Current = window[i]

\* The profiles that would still do with this byte in the segment: one more
\* donor to spend, or one more literal to keep clear of.
MinDonorWith(b) ==
  [q \in ProfileIds |-> Smaller(min_donor[q], Rank(q, b))]
ViableWith_SameCount(b) ==
  {q \in ProfileIds : MinDonorWith(b)[q] >= Cardinality(mask)}
ViableWith_LiteralIgnored(b) ==
  {q \in ProfileIds :
     min_donor[q] >= Cardinality(mask) + (IF b \in RSetBytes THEN 1 ELSE 0)}
ViableWith_TooStrict(b) ==
  {q \in ProfileIds :
     MinDonorWith(b)[q] > Cardinality(mask) + (IF b \in RSetBytes THEN 1 ELSE 0)}
ViableWith(b) ==
  IF b \in RSetBytes
  THEN {q \in ProfileIds : min_donor[q] >= Cardinality(mask) + 1}
  ELSE {q \in ProfileIds : MinDonorWith(b)[q] >= Cardinality(mask)}

\* A literal that ranks below nothing seen cannot change what is viable.
ChangesNothing(b) == b \notin RSetBytes /\ MinDonorWith(b) = min_donor

\* How many of the next bytes, up to a vector's, need no look: they are in the
\* set and repeat no predecessor.
Skippable_RunsIgnored ==
  CHOOSE n \in 0..Lanes :
    /\ n = Lanes \/ window[i + n + 1] \notin skip
    /\ \A j \in 1..n : window[i + j] \in skip
Skippable ==
  CHOOSE n \in 0..Lanes :
    /\ n = Lanes \/ window[i + n + 1] \notin skip \/ window[i + n + 1] = window[i + n]
    /\ \A j \in 1..n : window[i + j] \in skip /\ window[i + j] # window[i + j - 1]

\* The vector loop runs once the first byte is folded in, over whole vectors
\* inside the limit, until one begins with a byte the scalar loop has to see.
VectorStep == simd /\ i > 0 /\ i + Lanes <= Limit /\ Skippable > 0
ScalarStep == Running /\ i < Limit /\ ~VectorStep

-----------------------------------------------------------------------------
SkipLanes ==
  /\ Running /\ VectorStep
  /\ i' = i + Skippable
  /\ UNCHANGED <<window, simd, seen, mask, profile, min_donor, prev, prev_pos, skip, prefix>>

\* The end of the window or of what one segment may carry.
ReachLimit ==
  /\ Running /\ i = Limit
  /\ Answer(i, mask, profile)
  /\ UNCHANGED <<window, simd, i, seen, mask, profile, min_donor, prev, prev_pos, skip>>

\* How many bytes of the run that began one byte back the walk looks at.
RunEnd ==
  LET start == i - 1
      stop  == Smaller(Limit, start + MinFillInSegment)
  IN  CHOOSE e \in (i + 1)..Larger(i + 1, stop) :
        /\ e >= stop \/ window[e + 1] # Current
        /\ \A j \in (i + 1)..(e - 1) : window[j + 1] = Current

\* A run long enough for a Fill ends the prefix before its first byte, whose
\* effect on the state, if it was the last byte to have one, is undone.
BreakAtRun_NoRollback ==
  /\ ScalarStep /\ InRun
  /\ RunEnd - (i - 1) >= MinFillInSegment
  /\ Answer(i - 1, mask, profile)
  /\ UNCHANGED <<window, simd, i, seen, mask, profile, min_donor, prev, prev_pos, skip>>
BreakAtRun ==
  /\ ScalarStep /\ InRun
  /\ RunEnd - (i - 1) >= MinFillInSegment
  /\ IF prev_pos = i - 1 THEN Answer(i - 1, prev[1], prev[2])
     ELSE Answer(i - 1, mask, profile)
  /\ UNCHANGED <<window, simd, i, seen, mask, profile, min_donor, prev, prev_pos, skip>>

\* A shorter one is stepped over whole.
StepOverRun ==
  /\ ScalarStep /\ InRun
  /\ RunEnd - (i - 1) < MinFillInSegment
  /\ i' = RunEnd
  /\ UNCHANGED <<window, simd, seen, mask, profile, min_donor, prev, prev_pos, skip, prefix>>

\* A byte whose kind is accounted for, or that no profile spends.
StepOver ==
  /\ ScalarStep /\ ~InRun
  /\ Current \in seen \cup Plain
  /\ i' = i + 1
  /\ UNCHANGED <<window, simd, seen, mask, profile, min_donor, prev, prev_pos, skip, prefix>>

\* A byte no segment can carry, or that no profile can carry with the others.
Stop ==
  /\ ScalarStep /\ ~InRun
  /\ Current \notin seen \cup Plain
  /\ \/ Current \notin Representable
     \/ ~ChangesNothing(Current) /\ ViableWith(Current) = {}
  /\ Answer(i, mask, profile)
  /\ UNCHANGED <<window, simd, i, seen, mask, profile, min_donor, prev, prev_pos, skip>>

\* The first of its kind that is accepted.
Account ==
  /\ ScalarStep /\ ~InRun
  /\ Current \in Representable \ (seen \cup Plain)
  /\ IF ChangesNothing(Current)
     THEN UNCHANGED <<mask, profile, min_donor, prev, prev_pos>>
     ELSE /\ ViableWith(Current) # {}
          /\ prev' = <<mask, profile>> /\ prev_pos' = i
          /\ profile' = Min(ViableWith(Current))
          /\ IF Current \in RSetBytes
             THEN mask' = mask \cup {Current} /\ UNCHANGED min_donor
             ELSE min_donor' = MinDonorWith(Current) /\ UNCHANGED mask
  /\ seen' = seen \cup {Current}
  /\ skip' = IF simd THEN skip \cup {Current} ELSE skip
  /\ i' = i + 1
  /\ UNCHANGED <<window, simd, prefix>>

Next ==
  SkipLanes \/ ReachLimit \/ BreakAtRun \/ StepOverRun \/ StepOver \/ Stop \/ Account

Spec == Init /\ [][Next]_vars

-----------------------------------------------------------------------------
TypeOK ==
  /\ window \in Windows /\ simd \in BOOLEAN
  /\ i \in 0..Limit
  /\ skip \in SUBSET Representable
  /\ seen \subseteq Representable /\ mask \subseteq RSetBytes
  /\ profile \in ProfileIds
  /\ min_donor \in [ProfileIds -> 0..Len(RSet)]
  /\ prev \in (SUBSET RSetBytes) \X ProfileIds
  /\ prev_pos \in {NoPos} \cup 0..(Limit - 1)
  /\ Running \/ prefix \in [len : 0..Limit, mask : SUBSET RSetBytes, profile : ProfileIds]

\* The state is exact for the bytes accepted: the mask names every R-Set
\* character among them and no other, the profile is the smallest viable one,
\* and the rolled-back state is the exact one of the bytes before prev_pos.
ExactFor(m, p, n) ==
  /\ m = DpMask(window, 0, n)
  /\ p = DpProfile(window, 0, n)

StateExact ==
  /\ ExactFor(mask, profile, i)
  /\ prev_pos # NoPos => ExactFor(prev[1], prev[2], prev_pos)
  /\ prev_pos # NoPos => ExactFor(mask, profile, prev_pos + 1)

\* What is returned is the prefix the format names: its length, and the mask
\* and profile in effect before the byte that ended it.
PrefixIsCanonical ==
  ~Running => /\ prefix.len = DpLen(window, 0)
              /\ ExactFor(prefix.mask, prefix.profile, prefix.len)

\* Profile q can carry the set S: what it spends on the R-Set characters of S
\* is no literal of S.  Stated on the substitution itself, not on ranks.
Carries(q, S) ==
  /\ S \subseteq Representable
  /\ LET donors == Donors(q, S \cap RSetBytes)
     IN  \A c \in DOMAIN donors : donors[c] \notin S

\* A returned prefix can be told back from what is written for it, by its
\* profile and by no smaller one; and no profile carries one byte more, unless
\* the limit or a run ended it.
PrefixDecodable ==
  ~Running => /\ Carries(prefix.profile, Seen(window, 0, prefix.len))
              /\ \A q \in 1..(prefix.profile - 1) :
                   ~Carries(q, Seen(window, 0, prefix.len))
PrefixMaximal ==
  ~Running /\ prefix.len < Limit /\ ~RunBreaks(window, 0, prefix.len)
    => \A q \in ProfileIds : ~Carries(q, Seen(window, 0, prefix.len + 1))
=============================================================================
