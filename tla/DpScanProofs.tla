---------------------------- MODULE DpScanProofs ----------------------------
(***************************************************************************)
(* The passthrough scan, for every window, every set of profiles and every *)
(* width of a vector: the state it carries from byte to byte is the one    *)
(* the rule defines for the bytes accepted, so what it returns is the      *)
(* longest prefix one profile carries, with its mask and that profile.     *)
(* The scans of the ports find the same prefix, and the bytes of a segment *)
(* are the same characters translated one by one and by vectors.  And the  *)
(* words with a profile to a lane decide what the lanes decide one by one. *)
(***************************************************************************)
EXTENDS DpScan, DpLanes, PortScan, TLAPS, FiniteSetTheorems, SequenceTheorems

\* A nonempty set of naturals has a smallest element, and Min is it.
LEMMA LeastNat ==
  ASSUME NEW S \in SUBSET Nat, S # {}
  PROVE  /\ Min(S) \in S /\ \A x \in S : Min(S) <= x
         /\ \A m \in S : (\A x \in S : m <= x) => m = Min(S)
<1> DEFINE R == StrictSubsetOrdering(Nat)
           T == {0..x : x \in S}
<1>1. PICK t \in T : \A u \in T : <<u, t>> \notin R
  <2>1. IsWellFoundedOn(R, FiniteSubsetsOf(Nat))
    BY FS_StrictSubsetOrderingWellFounded
  <2>2. \A x \in S : IsFiniteSet(0..x) /\ 0..x \in SUBSET Nat
    BY FS_Interval
  <2>3. T \subseteq FiniteSubsetsOf(Nat) /\ T # {}
    BY <2>2 DEF FiniteSubsetsOf
  <2> HIDE DEF R, T
  <2> QED BY <2>1, <2>3, WFMin
<1>2. \E m \in S : \A x \in S : m <= x
  <2>1. PICK m \in S : t = 0..m
    OBVIOUS
  <2>2. ASSUME NEW x \in S, x < m PROVE FALSE
    <3>1. 0..x \in T /\ 0..x \subseteq 0..m /\ 0..x # 0..m /\ 0..m \subseteq Nat
      BY <2>2
    <3> QED BY <1>1, <2>1, <3>1 DEF StrictSubsetOrdering
  <2> QED BY <2>2
<1>3. Min(S) \in S /\ \A x \in S : Min(S) <= x
  BY <1>2 DEF Min
<1>4. \A a \in S, b \in S : (\A x \in S : a <= x) /\ b <= a => a = b
  OBVIOUS
<1> QED BY <1>3, <1>4

-----------------------------------------------------------------------------
(* Profiles and the sets they carry.                                       *)

\* The largest of some numbers up to n.
LEMMA LargestNat ==
  ASSUME NEW n \in Nat, NEW s \in SUBSET (1..n), s # {}
  PROVE  Max(s) \in s /\ \A x \in s : x <= Max(s)
<1> DEFINE T == {n - x : x \in s}
<1>1. T \in SUBSET Nat /\ T # {}
  <2>1. \A x \in s : n - x \in Nat
    OBVIOUS
  <2> QED BY <2>1
<1>2. Min(T) \in T /\ \A y \in T : Min(T) <= y
  <2> HIDE DEF T
  <2> QED BY <1>1, LeastNat
<1>3. PICK m \in s : Min(T) = n - m
  BY <1>2
<1>4. \A x \in s : n - m <= n - x
  BY <1>2, <1>3
<1>5. \A x \in s : m >= x
  BY <1>4
<1> QED BY <1>5 DEF Max

\* What holds of the first number and passes to the next one holds of all.
LEMMA CountingUp ==
  ASSUME NEW n \in Nat, NEW T, 0 \in T, \A j \in 1..n : j - 1 \in T => j \in T
  PROVE  \A j \in 0..n : j \in T
<1> DEFINE B == {j \in 0..n : j \notin T}
<1>1. SUFFICES ASSUME B # {} PROVE FALSE
  OBVIOUS
<1>2. B \in SUBSET Nat
  OBVIOUS
<1>3. PICK m \in B : \A x \in B : m <= x
  <2> HIDE DEF B
  <2> QED BY <1>1, <1>2, LeastNat
<1>4. m \in 0..n /\ m \notin T
  OBVIOUS
<1>5. m \in 1..n /\ m - 1 \in 0..n /\ ~(m <= m - 1)
  BY <1>4
<1>6. m - 1 \in T
  BY <1>3, <1>5
<1> QED BY <1>4, <1>5, <1>6

\* The R-Set characters of a segment are finitely many, no more than a profile
\* has donors.
LEMMA MaskSize ==
  ASSUME NEW m \in SUBSET RSetBytes
  PROVE  IsFiniteSet(m) /\ Cardinality(m) \in 0..Len(RSet)
<1> DEFINE n == Len(RSet)
           f == [j \in 1..n |-> RSet[j]]
<1>1. n \in Nat
  BY BytesAssumption
<1>2. f \in Surjection(1..n, RSetBytes)
  BY DEF RSetBytes, Surjection
<1>3. IsFiniteSet(1..n) /\ Cardinality(1..n) = n
  <2> HIDE DEF n
  <2>1. /\ IsFiniteSet(1..n)
        /\ Cardinality(1..n) = IF 1 > n THEN 0 ELSE n - 1 + 1
    BY <1>1, FS_Interval, 1 \in Int, n \in Int
  <2> QED BY <1>1, <2>1
<1>4. IsFiniteSet(RSetBytes) /\ Cardinality(RSetBytes) <= n
  BY <1>2, <1>3, FS_Surjection
<1>5. Cardinality(RSetBytes) \in Nat /\ IsFiniteSet(m) /\ Cardinality(m) <= Cardinality(RSetBytes)
  BY <1>4, FS_CardinalityType, FS_Subset
<1>6. Cardinality(m) \in Nat
  BY <1>5, FS_CardinalityType
<1> QED BY <1>1, <1>4, <1>5, <1>6

\* A rank is a position among the donors, or past them all; it is at least k
\* where the first k donors are other characters.
LEMMA RankFacts ==
  ASSUME NEW q \in ProfileIds, NEW b
  PROVE  /\ Rank(q, b) \in 0..Len(RSet)
         /\ \A k \in 0..Len(RSet) :
              Rank(q, b) >= k <=> \A r \in 1..k : Profiles[q][r] # b
<1> DEFINE n == Len(RSet)
           at == {r \in 1..n : Profiles[q][r] = b}
<1>1. n \in Nat
  BY BytesAssumption
<1>2. CASE at = {}
  <2>1. Rank(q, b) = n
    BY <1>2 DEF Rank
  <2> QED BY <1>1, <1>2, <2>1
<1>3. CASE at # {}
  <2>1. Rank(q, b) = Min(at) - 1
    BY <1>3 DEF Rank
  <2>2. Min(at) \in at /\ \A x \in at : Min(at) <= x
    <3>1. at \in SUBSET Nat
      OBVIOUS
    <3> HIDE DEF at
    <3> QED BY <1>3, <3>1, LeastNat
  <2>3. Min(at) \in 1..n /\ Profiles[q][Min(at)] = b
    BY <2>2
  <2>4. ASSUME NEW k \in 0..n
        PROVE  Min(at) - 1 >= k <=> \A r \in 1..k : Profiles[q][r] # b
    <3>1. ASSUME Min(at) - 1 >= k, NEW r \in 1..k, Profiles[q][r] = b PROVE FALSE
      <4>1. r \in at
        BY <1>1, <3>1
      <4> HIDE DEF at
      <4> QED BY <1>1, <2>2, <2>3, <3>1, <4>1
    <3>2. ASSUME ~(Min(at) - 1 >= k) PROVE ~ \A r \in 1..k : Profiles[q][r] # b
      <4> HIDE DEF at
      <4>1. Min(at) \in 1..k
        BY <1>1, <2>3, <3>2
      <4> QED BY <2>3, <4>1
    <3> QED BY <3>1, <3>2
  <2> HIDE DEF at
  <2> QED BY <1>1, <2>1, <2>3, <2>4
<1> QED BY <1>2, <1>3

\* More bytes leave fewer profiles.
LEMMA ViableShrinks ==
  ASSUME NEW S, NEW T, S \subseteq T
  PROVE  Viable(T) \subseteq Viable(S)
<1>1. /\ Cardinality(S \cap RSetBytes) \in Nat /\ Cardinality(T \cap RSetBytes) \in Nat
      /\ Cardinality(S \cap RSetBytes) <= Cardinality(T \cap RSetBytes)
  <2>1. S \cap RSetBytes \in SUBSET (T \cap RSetBytes) /\ T \cap RSetBytes \in SUBSET RSetBytes
    OBVIOUS
  <2> QED BY <2>1, MaskSize, FS_Subset
<1> QED BY <1>1, RankFacts DEF Viable

\* A character no profile spends ranks below every donor, and makes no
\* difference to what is viable or to the mask.
LEMMA PlainAdds ==
  ASSUME NEW S, NEW P \in SUBSET Plain
  PROVE  /\ \A q \in ProfileIds, b \in P : Rank(q, b) = Len(RSet)
         /\ Viable(S \cup P) = Viable(S)
         /\ (S \cup P) \cap RSetBytes = S \cap RSetBytes
         /\ P \cap RSetBytes = {}
<1>1. P \cap RSetBytes = {}
  BY BytesAssumption DEF Plain
<1>2. ASSUME NEW q \in ProfileIds, NEW b \in P
      PROVE  Rank(q, b) = Len(RSet)
  <2>1. \A r \in 1..Len(RSet) : Profiles[q][r] # b
    BY DEF Plain, DonorBytes
  <2> QED BY <2>1 DEF Rank
<1>3. (S \cup P) \cap RSetBytes = S \cap RSetBytes
  BY <1>1
<1>4. Cardinality(S \cap RSetBytes) \in 0..Len(RSet)
  BY MaskSize
<1>5. (S \cup P) \ RSetBytes = (S \ RSetBytes) \cup P
  BY <1>1
<1>6. Viable(S \cup P) = Viable(S)
  <2> DEFINE k == Cardinality(S \cap RSetBytes)
  <2>1. k = Cardinality((S \cup P) \cap RSetBytes)
    BY <1>3
  <2>2. \A q \in ProfileIds, b \in P : Rank(q, b) >= k
    BY <1>2, <1>4
  <2> HIDE DEF k
  <2>3. Viable(S) = {q \in ProfileIds : \A b \in S \ RSetBytes : Rank(q, b) >= k}
    BY DEF Viable, k
  <2>4. Viable(S \cup P) =
          {q \in ProfileIds : \A b \in (S \cup P) \ RSetBytes : Rank(q, b) >= k}
    BY <2>1 DEF Viable
  <2> QED BY <1>5, <2>2, <2>3, <2>4
<1> QED BY <1>1, <1>2, <1>3, <1>6

-----------------------------------------------------------------------------
(* What the scan carries along.                                            *)

\* md[q] is the lowest rank that a literal of S holds in profile q.
Lowest(md, S) ==
  \A q \in ProfileIds :
    /\ md[q] \in 0..Len(RSet)
    /\ \A b \in S \ RSetBytes : Rank(q, b) >= md[q]
    /\ md[q] = Len(RSet) \/ \E b \in S \ RSetBytes : Rank(q, b) = md[q]

\* So it tells what is viable for any number of donors.
LEMMA LowestTells ==
  ASSUME NEW md, NEW S, Lowest(md, S), NEW k \in 0..Len(RSet), NEW q \in ProfileIds
  PROVE  md[q] >= k <=> \A b \in S \ RSetBytes : Rank(q, b) >= k
<1>1. \A b : Rank(q, b) \in Int
  BY RankFacts
<1> QED BY <1>1 DEF Lowest

\* One literal more lowers it to its rank.
LEMMA LowestAdds ==
  ASSUME NEW md, NEW S, Lowest(md, S), NEW b, b \notin RSetBytes
  PROVE  Lowest([q \in ProfileIds |-> Smaller(md[q], Rank(q, b))], S \cup {b})
<1>1. (S \cup {b}) \ RSetBytes = (S \ RSetBytes) \cup {b}
  OBVIOUS
<1>2. \A q \in ProfileIds : \A x : Rank(q, x) \in 0..Len(RSet)
  BY RankFacts
<1> QED BY <1>1, <1>2 DEF Lowest, Smaller

\* R-Set characters and characters no profile spends leave it as it is.
LEMMA LowestKept ==
  ASSUME NEW md, NEW S, Lowest(md, S), NEW P \in SUBSET (Plain \cup RSetBytes)
  PROVE  Lowest(md, S \cup P)
<1>1. \A q \in ProfileIds, b \in P \ RSetBytes : Rank(q, b) = Len(RSet)
  <2>1. P \ RSetBytes \in SUBSET Plain
    OBVIOUS
  <2> QED BY <2>1, PlainAdds
<1>2. (S \cup P) \ RSetBytes = (S \ RSetBytes) \cup (P \ RSetBytes)
  OBVIOUS
<1>3. Len(RSet) \in Nat
  BY BytesAssumption
<1> QED BY <1>1, <1>2, <1>3 DEF Lowest

-----------------------------------------------------------------------------
(* Prefixes of the window.                                                 *)

\* What the first bytes of the window consist of.
Prefixed(n) == Seen(window, 0, n)

\* How far the scan may look, and what it counts as it goes on.
LEMMA WindowFacts ==
  ASSUME window \in Seq(Byte)
  PROVE  /\ Limit \in 0..Len(window) /\ Limit = DpLimit(window, 0) /\ Limit \in Nat
         /\ MinFillInSegment \in Nat /\ MinFillInSegment >= 2
         /\ Prefixed(0) = {}
         /\ \A n \in Nat : Prefixed(n + 1) = Prefixed(n) \cup {window[n + 1]}
         /\ \A m, n \in Nat : m <= n =>
              Prefixed(n) = Prefixed(m) \cup {window[j] : j \in (m + 1)..n}
<1>1. Limit \in 0..Len(window) /\ Limit = DpLimit(window, 0) /\ Limit \in Nat
  BY ThresholdsAssumption DEF Limit, DpLimit, Smaller
<1>2. \A n \in Nat : Prefixed(n) = {window[j] : j \in 1..n}
  BY DEF Prefixed, Seen
<1>3. Prefixed(0) = {}
  BY <1>2
<1>4. ASSUME NEW m \in Nat, NEW n \in Nat, m <= n
      PROVE  Prefixed(n) = Prefixed(m) \cup {window[j] : j \in (m + 1)..n}
  <2>1. 1..n = 1..m \cup (m + 1)..n
    BY <1>4
  <2> QED BY <1>2, <2>1
<1>5. ASSUME NEW n \in Nat
      PROVE  Prefixed(n + 1) = Prefixed(n) \cup {window[n + 1]}
  <2>1. (n + 1)..(n + 1) = {n + 1}
    OBVIOUS
  <2>2. {window[j] : j \in {n + 1}} = {window[n + 1]}
    OBVIOUS
  <2>3. Prefixed(n + 1) = Prefixed(n) \cup {window[j] : j \in (n + 1)..(n + 1)}
    BY <1>4
  <2> QED BY <2>1, <2>2, <2>3
<1> QED BY <1>1, <1>3, <1>4, <1>5, ThresholdsAssumption

\* A run that could break the prefix after n bytes.
LEMMA RunBreaksIs ==
  ASSUME window \in Seq(Byte), NEW n \in Nat
  PROVE  RunBreaks(window, 0, n) <=>
           /\ n + MinFillInSegment <= Limit
           /\ \A j \in (n + 2)..(n + MinFillInSegment) : window[j] = window[n + 1]
<1> DEFINE min == MinFillInSegment
<1>1. /\ min \in Nat /\ Limit = DpLimit(window, 0)
  BY WindowFacts
<1>2. RunBreaks(window, 0, n) <=>
        n + min <= Limit /\ \A j \in 2..min : window[n + j] = window[n + 1]
  BY <1>1 DEF RunBreaks
<1> HIDE DEF min
<1>3. ASSUME \A j \in 2..min : window[n + j] = window[n + 1],
             NEW j \in (n + 2)..(n + min)
      PROVE  window[j] = window[n + 1]
  <2>1. j - n \in 2..min /\ n + (j - n) = j
    BY <1>1
  <2> QED BY <1>3, <2>1
<1>4. ASSUME \A j \in (n + 2)..(n + min) : window[j] = window[n + 1],
             NEW j \in 2..min
      PROVE  window[n + j] = window[n + 1]
  BY <1>1, <1>4
<1> QED BY <1>2, <1>3, <1>4 DEF min

\* The first place at which the prefix ends is its length.
LEMMA FirstEnd ==
  ASSUME window \in Seq(Byte), NEW n \in 0..Limit,
         DpEnds(window, 0, n), \A j \in 0..(n - 1) : ~DpEnds(window, 0, j)
  PROVE  DpLen(window, 0) = n
<1> DEFINE first(k) == DpEnds(window, 0, k) /\ \A j \in 0..(k - 1) : ~DpEnds(window, 0, j)
<1>1. Limit = DpLimit(window, 0) /\ Limit \in Nat
  BY WindowFacts
<1>2. DpLen(window, 0) = CHOOSE k \in 0..Limit : first(k)
  BY <1>1 DEF DpLen
<1>3. \A k \in 0..Limit : first(k) => k = n
  BY <1>1
<1>4. first(n)
  OBVIOUS
<1> HIDE DEF first
<1> QED BY <1>2, <1>3, <1>4

\* And it is one.
LEMMA EndIs ==
  ASSUME window \in Seq(Byte)
  PROVE  DpLen(window, 0) \in 0..Limit /\ DpEnds(window, 0, DpLen(window, 0))
<1> DEFINE S == {k \in 0..Limit : DpEnds(window, 0, k)}
<1>1. Limit = DpLimit(window, 0) /\ Limit \in Nat
  BY WindowFacts
<1>2. Limit \in S
  BY <1>1 DEF DpEnds
<1>3. S \in SUBSET Nat
  BY <1>1
<1>4. Min(S) \in S /\ \A k \in S : Min(S) <= k
  <2> HIDE DEF S
  <2> QED BY <1>2, <1>3, LeastNat
<1>5. \A j \in 0..(Min(S) - 1) : ~DpEnds(window, 0, j)
  <2>1. Min(S) \in 0..Limit
    BY <1>4
  <2>2. ASSUME NEW j \in 0..(Min(S) - 1), DpEnds(window, 0, j) PROVE FALSE
    <3>1. j \in S
      BY <1>1, <2>1, <2>2
    <3>2. ~(Min(S) <= j)
      BY <2>1
    <3> QED BY <1>4, <3>1, <3>2
  <2> QED BY <2>2
<1>6. Min(S) \in 0..Limit /\ DpEnds(window, 0, Min(S))
  BY <1>4
<1> HIDE DEF S
<1> QED BY <1>5, <1>6, FirstEnd

\* Up to n bytes nothing but a run could have ended the prefix.
Accepted(n) == Prefixed(n) \subseteq Representable /\ Viable(Prefixed(n)) # {}

\* Before a place up to which all is accepted only a run can end the prefix.
LEMMA OnlyRunsEnd ==
  ASSUME window \in Seq(Byte), NEW n \in 0..Limit, Accepted(n),
         NEW j \in 0..(n - 1), ~RunBreaks(window, 0, j)
  PROVE  ~DpEnds(window, 0, j)
<1>1. Limit = DpLimit(window, 0) /\ Limit \in Nat
  BY WindowFacts
<1>2. Prefixed(j + 1) \subseteq Prefixed(n) /\ window[j + 1] \in Prefixed(n)
  <2>1. j \in Nat /\ j + 1 \in Nat /\ n \in Nat /\ j + 1 <= n
    BY <1>1
  <2>2. Prefixed(j + 1) \subseteq Prefixed(n)
    BY <2>1, WindowFacts
  <2>3. window[j + 1] \in Prefixed(j + 1)
    BY <2>1, WindowFacts
  <2> QED BY <2>2, <2>3
<1>3. window[j + 1] \in Representable
  BY <1>2 DEF Accepted
<1>4. Viable(Prefixed(j + 1)) # {}
  BY <1>2, ViableShrinks DEF Accepted
<1>5. 0 + j + 1 = j + 1
  OBVIOUS
<1> QED BY <1>1, <1>3, <1>4, <1>5 DEF DpEnds, Prefixed

-----------------------------------------------------------------------------
(* The invariant.                                                          *)

\* The mask and the profile of the first n bytes.
Exact(m, p, n) ==
  m = Prefixed(n) \cap RSetBytes /\ p = Min(Viable(Prefixed(n)))

\* The state is that of the bytes accepted: what has been seen of them, the
\* ranks their literals hold, the mask and the profile, which are in effect
\* since prev_pos, and what was in effect before that.  No run up to the last
\* byte but one ended the prefix.
StateInv ==
  /\ window \in Windows /\ simd \in BOOLEAN /\ i \in 0..Limit
  /\ Accepted(i)
  /\ seen = Prefixed(i) \ Plain /\ skip \subseteq Plain \cup seen
  /\ min_donor \in [ProfileIds -> 0..Len(RSet)] /\ Lowest(min_donor, Prefixed(i))
  /\ prev_pos \in NoPos..(i - 1)
  /\ \A n \in (prev_pos + 1)..i : Exact(mask, profile, n)
  /\ prev \in (SUBSET RSetBytes) \X ProfileIds
  /\ prev_pos # NoPos => Exact(prev[1], prev[2], prev_pos)
  /\ \A j \in 0..(i - 2) : ~RunBreaks(window, 0, j)

\* What is returned is the prefix the rule names.
PrefixInv ==
  ~Running => /\ prefix = [len |-> prefix.len, mask |-> prefix.mask, profile |-> prefix.profile]
              /\ prefix.len \in 0..Limit /\ prefix.len = DpLen(window, 0)
              /\ Accepted(prefix.len)
              /\ Exact(prefix.mask, prefix.profile, prefix.len)

ScanInv == StateInv /\ PrefixInv

\* A set that some profile carries has a smallest such profile.
LEMMA SmallestViable ==
  ASSUME NEW S, Viable(S) # {}
  PROVE  Min(Viable(S)) \in ProfileIds /\ Min(Viable(S)) \in Viable(S)
<1>1. Viable(S) \in SUBSET ProfileIds /\ ProfileIds \in SUBSET Nat
  BY ProfilesAssumption DEF Viable, ProfileIds
<1> QED BY <1>1, LeastNat

\* A window is a sequence, and what the invariant says of a byte of it.
LEMMA StateFacts ==
  ASSUME StateInv
  PROVE  /\ window \in Seq(Byte) /\ i \in Nat /\ Limit \in Nat
         /\ Exact(mask, profile, i)
         /\ mask \in SUBSET RSetBytes /\ profile \in ProfileIds
         /\ IsFiniteSet(mask) /\ Cardinality(mask) \in 0..Len(RSet)
         /\ seen \subseteq Representable
<1>1. window \in Seq(Byte)
  BY WindowsAssumption DEF StateInv
<1>2. i \in Nat /\ Limit \in Nat
  BY <1>1, WindowFacts DEF StateInv
<1>3. Exact(mask, profile, i)
  <2>1. i \in (prev_pos + 1)..i
    BY <1>2 DEF StateInv, NoPos
  <2> QED BY <2>1 DEF StateInv
<1>4. mask \in SUBSET RSetBytes /\ profile \in ProfileIds
  BY <1>3, SmallestViable DEF Exact, StateInv, Accepted
<1>5. seen \subseteq Representable
  BY DEF StateInv, Accepted
<1> QED BY <1>1, <1>2, <1>3, <1>4, <1>5, MaskSize

\* The initial states satisfy the invariant.
LEMMA InitScanInv == Init => ScanInv
<1> SUFFICES ASSUME Init PROVE ScanInv
  OBVIOUS
<1>1. window \in Seq(Byte)
  BY WindowsAssumption DEF Init
<1>2. i = 0 /\ Prefixed(0) = {} /\ Limit \in Nat
  BY <1>1, WindowFacts DEF Init
<1>3. Len(RSet) \in Nat
  BY BytesAssumption
<1>4. Viable({}) = ProfileIds /\ {} \cap RSetBytes = {}
  BY DEF Viable
<1>5. ProfileIds # {} /\ 1 \in ProfileIds /\ ProfileIds \in SUBSET Nat /\ \A q \in ProfileIds : 1 <= q
  <2>1. Len(Profiles) \in Nat \ {0}
    BY ProfilesAssumption
  <2> QED BY <2>1 DEF ProfileIds
<1>6. Min(ProfileIds) = 1
  BY <1>5, LeastNat
<1>7. Exact({}, 1, 0) /\ Accepted(0)
  BY <1>2, <1>4, <1>5, <1>6 DEF Exact, Accepted
<1>8. Lowest(min_donor, Prefixed(0)) /\ min_donor \in [ProfileIds -> 0..Len(RSet)]
  BY <1>2, <1>3 DEF Init, Lowest
<1>9. \A n \in (NoPos + 1)..0 : n = 0
  BY DEF NoPos
<1>10. StateInv
  BY <1>2, <1>5, <1>7, <1>8, <1>9 DEF Init, StateInv, NoPos
<1> QED BY <1>10 DEF ScanInv, PrefixInv, Init, Running

-----------------------------------------------------------------------------
(* The steps.                                                              *)

\* Bytes that are accounted for already, or that no profile spends, change
\* neither what is viable nor the mask.
LEMMA PassedOver ==
  ASSUME StateInv, NEW n \in i..Limit,
         \A j \in (i + 1)..n : window[j] \in Plain \cup Prefixed(i)
  PROVE  /\ Accepted(n)
         /\ Prefixed(n) \ Plain = seen
         /\ Lowest(min_donor, Prefixed(n))
         /\ \A m \in i..n : Exact(mask, profile, m)
<1>1. /\ window \in Seq(Byte) /\ i \in Nat /\ Limit \in Nat /\ Exact(mask, profile, i)
  BY StateFacts
<1>2. ASSUME NEW m \in i..n
      PROVE  \E P \in SUBSET Plain : Prefixed(m) = Prefixed(i) \cup P
  <2> DEFINE Q == {window[j] : j \in (i + 1)..m}
  <2>1. Prefixed(m) = Prefixed(i) \cup Q
    BY <1>1, WindowFacts
  <2>2. Q \subseteq Plain \cup Prefixed(i)
    BY <1>1
  <2> HIDE DEF Q
  <2>3. Q \ Prefixed(i) \in SUBSET Plain /\ Prefixed(m) = Prefixed(i) \cup (Q \ Prefixed(i))
    BY <2>1, <2>2
  <2> QED BY <2>3
<1>3. ASSUME NEW m \in i..n
      PROVE  /\ Viable(Prefixed(m)) = Viable(Prefixed(i))
             /\ Prefixed(m) \cap RSetBytes = Prefixed(i) \cap RSetBytes
  <2>1. PICK P \in SUBSET Plain : Prefixed(m) = Prefixed(i) \cup P
    BY <1>2
  <2>2. /\ Viable(Prefixed(i) \cup P) = Viable(Prefixed(i))
        /\ (Prefixed(i) \cup P) \cap RSetBytes = Prefixed(i) \cap RSetBytes
    BY PlainAdds
  <2> QED BY <2>1, <2>2
<1>4. \A m \in i..n : Exact(mask, profile, m)
  BY <1>1, <1>3 DEF Exact
<1>5. PICK P \in SUBSET Plain : Prefixed(n) = Prefixed(i) \cup P
  <2>1. n \in i..n
    BY <1>1
  <2> QED BY <1>2, <2>1
<1>6. Accepted(n)
  <2>1. P \subseteq Representable
    BY DEF Plain, Representable
  <2>2. Viable(Prefixed(n)) = Viable(Prefixed(i))
    BY <1>1, <1>3
  <2> QED BY <1>5, <2>1, <2>2 DEF Accepted, StateInv
<1>7. Prefixed(n) \ Plain = seen
  BY <1>5 DEF StateInv
<1>8. Lowest(min_donor, Prefixed(n))
  <2>1. P \in SUBSET (Plain \cup RSetBytes) /\ Lowest(min_donor, Prefixed(i))
    BY DEF StateInv
  <2>2. Lowest(min_donor, Prefixed(i) \cup P)
    BY <2>1, LowestKept
  <2> QED BY <1>5, <2>2
<1> QED BY <1>4, <1>6, <1>7, <1>8

\* So a step over them keeps the invariant.
LEMMA PassGood ==
  ASSUME StateInv, NEW n \in i..Limit,
         \A j \in (i + 1)..n : window[j] \in Plain \cup Prefixed(i),
         \A j \in (i - 1)..(n - 2) : j >= 0 => ~RunBreaks(window, 0, j),
         i' = n,
         UNCHANGED <<window, simd, seen, mask, profile, min_donor, prev, prev_pos, skip>>
  PROVE  StateInv'
<1>1. /\ window \in Seq(Byte) /\ i \in Nat /\ Limit \in Nat
  BY StateFacts
<1>2. /\ Accepted(n) /\ Prefixed(n) \ Plain = seen /\ Lowest(min_donor, Prefixed(n))
      /\ \A m \in i..n : Exact(mask, profile, m)
  BY PassedOver
<1>3. prev_pos \in NoPos..(n - 1) /\ \A m \in (prev_pos + 1)..n : Exact(mask, profile, m)
  BY <1>1, <1>2 DEF StateInv, NoPos
<1>4. \A j \in 0..(n - 2) : ~RunBreaks(window, 0, j)
  BY <1>1 DEF StateInv
<1>5. \A m : Prefixed(m)' = Prefixed(m)
  BY DEF Prefixed
<1>6. Limit' = Limit
  BY DEF Limit
<1>7. Accepted(i)' /\ Lowest(min_donor, Prefixed(i))' /\ seen' = Prefixed(i)' \ Plain
  BY <1>2, <1>5 DEF Accepted, Lowest, Prefixed
<1>8. \A m : Exact(mask, profile, m)' <=> Exact(mask, profile, m)
  BY <1>5 DEF Exact, Prefixed
<1>9. Exact(prev[1], prev[2], prev_pos)' <=> Exact(prev[1], prev[2], prev_pos)
  BY DEF Exact, Prefixed
<1>10. \A j : RunBreaks(window, 0, j)' <=> RunBreaks(window, 0, j)
  OBVIOUS
<1> QED BY <1>1, <1>3, <1>4, <1>6, <1>7, <1>8, <1>9, <1>10 DEF StateInv

\* The step that skips bytes in a vector.
LEMMA SkipLanesGood == StateInv /\ SkipLanes => StateInv'
<1> SUFFICES ASSUME StateInv, SkipLanes PROVE StateInv'
  OBVIOUS
<1> DEFINE stops(n) == n = Lanes \/ window[i + n + 1] \notin skip \/ window[i + n + 1] = window[i + n]
           passes(n) == \A j \in 1..n : window[i + j] \in skip /\ window[i + j] # window[i + j - 1]
           S == {n \in 0..Lanes : stops(n)}
           n == Skippable
<1>1. /\ window \in Seq(Byte) /\ i \in Nat /\ Limit \in Nat /\ i > 0
      /\ Lanes \in Nat /\ i + Lanes <= Limit /\ n > 0
  BY StateFacts, LanesAssumption DEF SkipLanes, VectorStep
<1>2. n \in 0..Lanes /\ passes(n)
  <2>1. Lanes \in S /\ S \in SUBSET Nat
    BY <1>1
  <2>2. Min(S) \in S /\ \A x \in S : Min(S) <= x
    <3> HIDE DEF S
    <3> QED BY <2>1, LeastNat
  <2> DEFINE m == Min(S)
  <2>3. m \in 0..Lanes /\ stops(m) /\ \A k \in 0..(m - 1) : ~stops(k)
    <3>1. m \in 0..Lanes /\ stops(m)
      BY <2>2
    <3>2. ASSUME NEW k \in 0..(m - 1), stops(k) PROVE FALSE
      <4>1. k \in S
        BY <1>1, <3>1, <3>2
      <4>2. ~(m <= k)
        BY <3>1
      <4> QED BY <2>2, <4>1, <4>2
    <3> QED BY <3>1, <3>2
  <2> HIDE DEF m, S
  <2>4. passes(m)
    <3> SUFFICES ASSUME NEW j \in 1..m
                 PROVE  window[i + j] \in skip /\ window[i + j] # window[i + j - 1]
      OBVIOUS
    <3>1. ~stops(j - 1)
      BY <2>3
    <3>2. i + (j - 1) + 1 = i + j /\ i + (j - 1) = i + j - 1
      BY <1>1
    <3> QED BY <3>1, <3>2
  <2>5. Skippable = CHOOSE k \in 0..Lanes : stops(k) /\ passes(k)
    BY DEF Skippable
  <2>6. \E k \in 0..Lanes : stops(k) /\ passes(k)
    BY <2>3, <2>4
  <2> HIDE DEF stops, passes
  <2> QED BY <2>5, <2>6
<1>3. i' = i + n
  BY DEF SkipLanes
<1> HIDE DEF n
<1>4. \A j \in (i + 1)..(i + n) : window[j] \in skip /\ window[j] # window[j - 1]
  <2> SUFFICES ASSUME NEW j \in (i + 1)..(i + n)
               PROVE  window[j] \in skip /\ window[j] # window[j - 1]
    OBVIOUS
  <2>1. j - i \in 1..n /\ i + (j - i) = j /\ i + (j - i) - 1 = j - 1
    BY <1>1, <1>2
  <2> QED BY <1>2, <2>1
<1>5. i + n \in i..Limit
  BY <1>1, <1>2
<1>6. \A j \in (i + 1)..(i + n) : window[j] \in Plain \cup Prefixed(i)
  BY <1>4 DEF StateInv
<1>7. ASSUME NEW j \in (i - 1)..(i + n - 2), j >= 0
      PROVE  ~RunBreaks(window, 0, j)
  <2>1. j \in Nat /\ j + 2 \in (i + 1)..(i + n) /\ (j + 2) - 1 = j + 1
    BY <1>1, <1>2, <1>7
  <2>2. window[j + 2] # window[j + 1]
    BY <1>4, <2>1
  <2>3. j + 2 \in (j + 2)..(j + MinFillInSegment)
    BY <1>1, <2>1, WindowFacts
  <2> QED BY <1>1, <2>1, <2>2, <2>3, RunBreaksIs
<1> DEFINE to == i + n
<1>8. /\ to \in i..Limit /\ i' = to
      /\ \A j \in (i + 1)..to : window[j] \in Plain \cup Prefixed(i)
  BY <1>3, <1>5, <1>6
<1>9. \A j \in (i - 1)..(to - 2) : j >= 0 => ~RunBreaks(window, 0, j)
  BY <1>1, <1>2, <1>7
<1>10. UNCHANGED <<window, simd, seen, mask, profile, min_donor, prev, prev_pos, skip>>
  BY DEF SkipLanes
<1> HIDE DEF to
<1> QED BY <1>8, <1>9, <1>10, PassGood

\* What the walk over a run has seen where it ends.
LEMMA RunEndFacts ==
  ASSUME StateInv, i < Limit, InRun
  PROVE  /\ i > 0 /\ RunEnd \in (i + 1)..Limit
         /\ RunEnd <= (i - 1) + MinFillInSegment
         /\ \A j \in (i + 1)..RunEnd : window[j] = window[i]
         /\ RunEnd < (i - 1) + MinFillInSegment /\ RunEnd # Limit =>
              window[RunEnd + 1] # window[i]
<1> DEFINE stop == Smaller(Limit, (i - 1) + MinFillInSegment)
           ends(e) == e >= stop \/ window[e + 1] # Current
           walks(e) == \A j \in (i + 1)..(e - 1) : window[j + 1] = Current
           S == {e \in (i + 1)..stop : ends(e)}
           m == Min(S)
<1>1. /\ window \in Seq(Byte) /\ i \in Nat /\ Limit \in Nat /\ i > 0
      /\ MinFillInSegment \in Nat /\ MinFillInSegment >= 2
      /\ Current = window[i + 1] /\ Current = window[i]
  BY StateFacts, WindowFacts DEF InRun, Current
<1>2. /\ stop \in (i + 1)..Limit /\ stop <= (i - 1) + MinFillInSegment
      /\ stop = Limit \/ stop = (i - 1) + MinFillInSegment
      /\ Larger(i + 1, stop) = stop
  BY <1>1 DEF Smaller, Larger
<1> HIDE DEF stop
<1>3. m \in (i + 1)..stop /\ ends(m) /\ \A k \in (i + 1)..(m - 1) : ~ends(k)
  <2>1. stop \in S /\ S \in SUBSET Nat
    BY <1>1, <1>2
  <2>2. Min(S) \in S /\ \A x \in S : Min(S) <= x
    <3> HIDE DEF S
    <3> QED BY <2>1, LeastNat
  <2>3. m \in (i + 1)..stop /\ ends(m)
    BY <2>2
  <2>4. ASSUME NEW k \in (i + 1)..(m - 1), ends(k) PROVE FALSE
    <3>1. k \in S
      BY <1>1, <1>2, <2>3, <2>4
    <3>2. ~(m <= k)
      BY <1>1, <1>2, <2>3
    <3> QED BY <2>2, <3>1, <3>2
  <2> QED BY <2>3, <2>4
<1> HIDE DEF m, S
<1>4. walks(m)
  <2> SUFFICES ASSUME NEW j \in (i + 1)..(m - 1) PROVE window[j + 1] = Current
    OBVIOUS
  <2> QED BY <1>3
<1>5. RunEnd \in (i + 1)..stop /\ ends(RunEnd) /\ walks(RunEnd)
  <2>1. RunEnd = CHOOSE e \in (i + 1)..stop : ends(e) /\ walks(e)
    BY <1>2 DEF RunEnd, stop
  <2>2. \E e \in (i + 1)..stop : ends(e) /\ walks(e)
    BY <1>3, <1>4
  <2> HIDE DEF ends, walks
  <2> QED BY <2>1, <2>2
<1> DEFINE e == RunEnd
<1> HIDE DEF e
<1>6. ASSUME NEW j \in (i + 1)..e PROVE window[j] = window[i]
  <2>1. CASE j = i + 1
    BY <1>1, <2>1
  <2>2. CASE j # i + 1
    <3>1. j - 1 \in (i + 1)..(e - 1) /\ (j - 1) + 1 = j
      BY <1>1, <1>2, <1>5, <2>2 DEF e
    <3> QED BY <1>1, <1>5, <3>1 DEF e
  <2> QED BY <2>1, <2>2
<1>7. e \in (i + 1)..Limit /\ e <= (i - 1) + MinFillInSegment
  BY <1>1, <1>2, <1>5 DEF e
<1>8. e < (i - 1) + MinFillInSegment /\ e # Limit => window[e + 1] # window[i]
  BY <1>1, <1>2, <1>5, <1>7 DEF e
<1> QED BY <1>1, <1>6, <1>7, <1>8 DEF e

\* A run too short for a Fill is stepped over; none begins inside it.
LEMMA StepOverRunGood == StateInv /\ StepOverRun => StateInv'
<1> SUFFICES ASSUME StateInv, StepOverRun PROVE StateInv'
  OBVIOUS
<1> DEFINE e == RunEnd
<1>1. /\ window \in Seq(Byte) /\ i \in Nat /\ Limit \in Nat /\ i < Limit /\ InRun
      /\ MinFillInSegment \in Nat /\ i' = e
      /\ RunEnd - (i - 1) < MinFillInSegment
      /\ UNCHANGED <<window, simd, seen, mask, profile, min_donor, prev, prev_pos, skip>>
  BY StateFacts, WindowFacts DEF StepOverRun, ScalarStep
<1>2. /\ i > 0 /\ e \in (i + 1)..Limit
      /\ \A j \in (i + 1)..e : window[j] = window[i]
      /\ e < (i - 1) + MinFillInSegment /\ e # Limit => window[e + 1] # window[i]
  BY <1>1, RunEndFacts
<1>3. e < (i - 1) + MinFillInSegment
  BY <1>1, <1>2
<1> HIDE DEF e
<1>4. window[i] \in Prefixed(i)
  BY <1>1, <1>2 DEF Prefixed, Seen
<1>5. \A j \in (i + 1)..e : window[j] \in Plain \cup Prefixed(i)
  BY <1>2, <1>4
<1>6. ASSUME NEW j \in (i - 1)..(e - 2), RunBreaks(window, 0, j)
      PROVE  FALSE
  <2>1. j \in Nat /\ e + 1 \in (j + 2)..(j + MinFillInSegment) /\ j + 1 \in i..e
    BY <1>1, <1>2, <1>3
  <2>2. j + MinFillInSegment <= Limit /\ window[e + 1] = window[j + 1]
    BY <1>1, <1>6, <2>1, RunBreaksIs
  <2>3. window[j + 1] = window[i] /\ e # Limit
    BY <1>1, <1>2, <2>1, <2>2
  <2> QED BY <1>2, <1>3, <2>2, <2>3
<1>7. e \in i..Limit
  BY <1>1, <1>2
<1> QED BY <1>1, <1>5, <1>6, <1>7, PassGood

\* Where a byte differs from the one before it no run goes on.
LEMMA NoRunHere ==
  ASSUME StateInv, i < Limit, ~InRun, NEW j \in Nat, j = i - 1
  PROVE  ~RunBreaks(window, 0, j)
<1>1. window \in Seq(Byte) /\ i \in Nat /\ MinFillInSegment \in Nat /\ MinFillInSegment >= 2
  BY StateFacts, WindowFacts
<1>2. window[i + 1] # window[i] /\ i > 0
  BY <1>1 DEF InRun, Current
<1>3. j + 2 \in (j + 2)..(j + MinFillInSegment) /\ j + 2 = i + 1 /\ j + 1 = i
  BY <1>1
<1> QED BY <1>1, <1>2, <1>3, RunBreaksIs

\* A byte that is accounted for is stepped over.
LEMMA StepOverGood == StateInv /\ StepOver => StateInv'
<1> SUFFICES ASSUME StateInv, StepOver PROVE StateInv'
  OBVIOUS
<1>1. /\ i \in Nat /\ Limit \in Nat /\ i < Limit /\ ~InRun /\ i' = i + 1
      /\ window[i + 1] \in seen \cup Plain
      /\ UNCHANGED <<window, simd, seen, mask, profile, min_donor, prev, prev_pos, skip>>
  BY StateFacts DEF StepOver, ScalarStep, Current
<1>2. i + 1 \in i..Limit
  BY <1>1
<1>3. \A j \in (i + 1)..(i + 1) : window[j] \in Plain \cup Prefixed(i)
  BY <1>1 DEF StateInv
<1>4. \A j \in (i - 1)..((i + 1) - 2) : j >= 0 => ~RunBreaks(window, 0, j)
  BY <1>1, NoRunHere
<1> QED BY <1>1, <1>2, <1>3, <1>4, PassGood

\* The ranks lowered to those of one more literal.
Lowered(md, b) == [q \in ProfileIds |-> Smaller(md[q], Rank(q, b))]

\* What a byte b after n does to what is viable, from the ranks md and the mask m
\* of the bytes before it.
Effect(n, b, md, m) ==
  /\ Prefixed(n + 1) = Prefixed(n) \cup {b} /\ Cardinality(m) \in 0..Len(RSet)
  /\ Lowered(md, b) \in [ProfileIds -> 0..Len(RSet)]
  /\ b \in RSetBytes \ m =>
       /\ b \notin Prefixed(n) /\ Prefixed(n + 1) \cap RSetBytes = m \cup {b}
       /\ {q \in ProfileIds : md[q] >= Cardinality(m) + 1} = Viable(Prefixed(n + 1))
       /\ Lowest(md, Prefixed(n + 1))
  /\ b \notin RSetBytes =>
       /\ Prefixed(n + 1) \cap RSetBytes = m
       /\ {q \in ProfileIds : Lowered(md, b)[q] >= Cardinality(m)} = Viable(Prefixed(n + 1))
       /\ Lowest(Lowered(md, b), Prefixed(n + 1))
       /\ Lowered(md, b) = md => Viable(Prefixed(n + 1)) = Viable(Prefixed(n))
       /\ b \in Prefixed(n) \cup Plain => Lowered(md, b) = md

\* A byte of the window added to those accepted: the scan's masks and profiles follow.
LEMMA ByteAdds ==
  ASSUME window \in Seq(Byte), NEW n \in Nat, NEW md \in [ProfileIds -> 0..Len(RSet)],
         Lowest(md, Prefixed(n)), NEW m, m = Prefixed(n) \cap RSetBytes
  PROVE  Effect(n, window[n + 1], md, m)
<1> DEFINE b == window[n + 1]
           S == Prefixed(n)
           T == Prefixed(n + 1)
           k == Cardinality(m)
           low == Lowered(md, b)
<1>1. T = S \cup {b} /\ Len(RSet) \in Nat
  BY WindowFacts, BytesAssumption
<1>2. low \in [ProfileIds -> 0..Len(RSet)]
  <2>1. \A q \in ProfileIds : Rank(q, b) \in 0..Len(RSet)
    BY RankFacts
  <2> QED BY <1>1, <2>1 DEF Lowered, Smaller
<1>3. m = S \cap RSetBytes /\ Lowest(md, S)
  OBVIOUS
<1> HIDE DEF S, T
<1>4. IsFiniteSet(m) /\ k \in 0..Len(RSet)
  BY <1>3, MaskSize
<1>5. ASSUME b \in RSetBytes \ m
      PROVE  /\ b \notin S /\ T \cap RSetBytes = m \cup {b} /\ Lowest(md, T)
             /\ {q \in ProfileIds : md[q] >= k + 1} = Viable(T)
  <2>1. b \notin S /\ T \cap RSetBytes = m \cup {b}
    BY <1>1, <1>3, <1>5
  <2>2. Cardinality(T \cap RSetBytes) = k + 1 /\ k + 1 \in 0..Len(RSet)
    <3>1. Cardinality(m \cup {b}) = k + 1
      BY <1>4, <1>5, FS_AddElement
    <3>2. T \cap RSetBytes \in SUBSET RSetBytes
      OBVIOUS
    <3> QED BY <2>1, <3>1, <3>2, MaskSize
  <2>3. T \ RSetBytes = S \ RSetBytes
    BY <1>1, <1>5
  <2>4. \A q \in ProfileIds : md[q] >= k + 1 <=> \A x \in S \ RSetBytes : Rank(q, x) >= k + 1
    BY <1>3, <2>2, LowestTells
  <2>5. Viable(T) = {q \in ProfileIds : \A x \in T \ RSetBytes : Rank(q, x) >= k + 1}
    BY <2>2 DEF Viable
  <2>6. Lowest(md, T)
    BY <1>3, <2>3 DEF Lowest
  <2> QED BY <2>1, <2>3, <2>4, <2>5, <2>6
<1>6. ASSUME b \notin RSetBytes
      PROVE  /\ T \cap RSetBytes = m /\ Lowest(low, T)
             /\ {q \in ProfileIds : low[q] >= k} = Viable(T)
             /\ low = md => Viable(T) = Viable(S)
             /\ b \in S \cup Plain => low = md
  <2>1. T \cap RSetBytes = m
    BY <1>1, <1>3, <1>6
  <2>2. Lowest(low, T)
    BY <1>1, <1>3, <1>6, LowestAdds DEF Lowered
  <2>3. \A q \in ProfileIds : low[q] >= k <=> \A x \in T \ RSetBytes : Rank(q, x) >= k
    BY <1>4, <2>2, LowestTells
  <2>4. \A q \in ProfileIds : md[q] >= k <=> \A x \in S \ RSetBytes : Rank(q, x) >= k
    BY <1>3, <1>4, LowestTells
  <2>5. Viable(T) = {q \in ProfileIds : \A x \in T \ RSetBytes : Rank(q, x) >= k}
    BY <2>1 DEF Viable
  <2>6. Viable(S) = {q \in ProfileIds : \A x \in S \ RSetBytes : Rank(q, x) >= k}
    BY <1>3 DEF Viable
  <2>7. {q \in ProfileIds : low[q] >= k} = Viable(T)
    BY <2>3, <2>5
  <2>8. low = md => Viable(T) = Viable(S)
    BY <2>3, <2>4, <2>5, <2>6
  <2>9. ASSUME b \in S \cup Plain PROVE low = md
    <3>1. ASSUME NEW q \in ProfileIds PROVE Rank(q, b) >= md[q]
      <4>1. CASE b \in S
        BY <1>3, <1>6, <4>1 DEF Lowest
      <4>2. CASE b \in Plain
        <5>1. Rank(q, b) = Len(RSet)
          BY <4>2, {b} \in SUBSET Plain, b \in {b}, PlainAdds
        <5> QED BY <1>1, <5>1
      <4> QED BY <2>9, <4>1, <4>2
    <3>2. \A q \in ProfileIds : Rank(q, b) \in Int /\ md[q] \in Int
      BY RankFacts
    <3>3. \A q \in ProfileIds : Smaller(md[q], Rank(q, b)) = md[q]
      BY <3>1, <3>2 DEF Smaller
    <3> QED BY <3>3 DEF Lowered
  <2> HIDE DEF k, low
  <2> QED BY <2>1, <2>2, <2>7, <2>8, <2>9
<1> HIDE DEF k, low, b
<1> QED BY <1>1, <1>2, <1>4, <1>5, <1>6 DEF k, low, S, T, b, Effect

\* With a byte that is new, the profiles the scan finds viable are those that
\* can carry the bytes so far and this one.
LEMMA ViableIs ==
  ASSUME StateInv, i < Limit, Current \in Representable \ (seen \cup Plain)
  PROVE  /\ Prefixed(i + 1) = Prefixed(i) \cup {Current} /\ Current \notin Prefixed(i)
         /\ ViableWith(Current) = Viable(Prefixed(i + 1))
         /\ Current \in RSetBytes => Lowest(min_donor, Prefixed(i + 1))
         /\ Current \notin RSetBytes => Lowest(MinDonorWith(Current), Prefixed(i + 1))
         /\ MinDonorWith(Current) \in [ProfileIds -> 0..Len(RSet)]
         /\ ChangesNothing(Current) => Viable(Prefixed(i + 1)) = Viable(Prefixed(i))
<1>1. /\ window \in Seq(Byte) /\ i \in Nat /\ mask = Prefixed(i) \cap RSetBytes
      /\ Lowest(min_donor, Prefixed(i)) /\ min_donor \in [ProfileIds -> 0..Len(RSet)]
      /\ seen = Prefixed(i) \ Plain
  BY StateFacts DEF Exact, StateInv
<1>2. Effect(i, Current, min_donor, mask)
  BY <1>1, ByteAdds DEF Current
<1>3. Lowered(min_donor, Current) = MinDonorWith(Current)
  BY DEF Lowered, MinDonorWith
<1>4. Current \notin Prefixed(i)
  BY <1>1
<1> HIDE DEF Current
<1>5. CASE Current \in RSetBytes
  <2>1. Current \notin mask
    BY <1>1, <1>4
  <2> QED BY <1>2, <1>3, <1>4, <1>5, <2>1 DEF Effect, ViableWith, ChangesNothing
<1>6. CASE Current \notin RSetBytes
  BY <1>2, <1>3, <1>4, <1>6 DEF Effect, ViableWith, ChangesNothing
<1> QED BY <1>5, <1>6

\* A new byte that is accepted takes the state to the one with it.
LEMMA AccountGood == StateInv /\ Account => StateInv'
<1> SUFFICES ASSUME StateInv, Account PROVE StateInv'
  OBVIOUS
<1> DEFINE b == Current
           n == i + 1
           T == Prefixed(n)
<1>1. /\ window \in Seq(Byte) /\ i \in Nat /\ Limit \in Nat /\ i < Limit /\ ~InRun
      /\ b \in Representable \ (seen \cup Plain)
      /\ i' = n /\ seen' = seen \cup {b} /\ skip' = (IF simd THEN skip \cup {b} ELSE skip)
      /\ UNCHANGED <<window, simd>>
  BY StateFacts DEF Account, ScalarStep
<1>2. /\ T = Prefixed(i) \cup {b} /\ b \notin Prefixed(i)
      /\ ViableWith(b) = Viable(T)
      /\ b \in RSetBytes => Lowest(min_donor, T)
      /\ b \notin RSetBytes => Lowest(MinDonorWith(b), T)
      /\ MinDonorWith(b) \in [ProfileIds -> 0..Len(RSet)]
      /\ ChangesNothing(b) => Viable(T) = Viable(Prefixed(i))
  BY <1>1, ViableIs
<1>3. /\ Exact(mask, profile, i) /\ mask \in SUBSET RSetBytes /\ profile \in ProfileIds
      /\ Accepted(i) /\ Prefixed(i) \subseteq Representable /\ Viable(Prefixed(i)) # {}
  BY StateFacts DEF StateInv, Accepted
<1> HIDE DEF b, T
<1>4. \A j \in 0..(n - 2) : ~RunBreaks(window, 0, j)
  <2>1. ASSUME NEW j \in 0..(n - 2) PROVE ~RunBreaks(window, 0, j)
    <3>1. CASE j = i - 1
      BY <1>1, <3>1, NoRunHere
    <3>2. CASE j # i - 1
      BY <1>1, <3>2 DEF StateInv
    <3> QED BY <3>1, <3>2
  <2> QED BY <2>1
<1>5. seen' = T \ Plain /\ skip' \subseteq Plain \cup seen'
  BY <1>1, <1>2 DEF StateInv
<1>6. /\ Viable(T) # {} /\ Lowest(min_donor', T)
      /\ min_donor' \in [ProfileIds -> 0..Len(RSet)]
      /\ prev_pos' \in NoPos..(n - 1)
      /\ \A m \in (prev_pos' + 1)..n : Exact(mask', profile', m)
      /\ prev' \in (SUBSET RSetBytes) \X ProfileIds
      /\ prev_pos' # NoPos => Exact(prev'[1], prev'[2], prev_pos')
  <2>1. CASE ChangesNothing(b)
    <3>1. b \notin RSetBytes /\ MinDonorWith(b) = min_donor
      BY <2>1 DEF ChangesNothing
    <3>2. UNCHANGED <<mask, profile, min_donor, prev, prev_pos>>
      BY <2>1 DEF Account, b
    <3>3. Exact(mask, profile, n)
      BY <1>2, <1>3, <2>1, <3>1 DEF Exact, T
    <3>4. \A m \in (prev_pos + 1)..n : Exact(mask, profile, m)
      BY <1>1, <3>3 DEF StateInv
    <3>5. prev_pos \in NoPos..(n - 1)
      BY <1>1 DEF StateInv, NoPos
    <3> QED BY <1>2, <1>3, <2>1, <3>1, <3>2, <3>4, <3>5 DEF StateInv
  <2>2. CASE ~ChangesNothing(b)
    <3>1. /\ ViableWith(b) # {} /\ prev' = <<mask, profile>> /\ prev_pos' = i
          /\ profile' = Min(ViableWith(b))
          /\ IF b \in RSetBytes THEN mask' = mask \cup {b} /\ UNCHANGED min_donor
             ELSE min_donor' = MinDonorWith(b) /\ UNCHANGED mask
      BY <2>2 DEF Account, b
    <3>2. mask' = T \cap RSetBytes
      BY <1>2, <1>3, <3>1 DEF Exact
    <3>3. Exact(mask', profile', n)
      BY <1>2, <3>1, <3>2 DEF Exact, T
    <3>4. \A m \in (prev_pos' + 1)..n : m = n
      BY <1>1, <3>1
    <3>5. min_donor' \in [ProfileIds -> 0..Len(RSet)] /\ Lowest(min_donor', T)
      BY <1>2, <3>1 DEF StateInv
    <3>6. prev_pos' \in NoPos..(n - 1)
      BY <1>1, <3>1 DEF NoPos
    <3>7. prev'[1] = mask /\ prev'[2] = profile /\ prev' \in (SUBSET RSetBytes) \X ProfileIds
      BY <1>3, <3>1
    <3> QED BY <1>2, <1>3, <3>1, <3>3, <3>4, <3>5, <3>6, <3>7
  <2> QED BY <2>1, <2>2
<1>7. Accepted(n)
  BY <1>1, <1>2, <1>3, <1>6 DEF Accepted, T
<1>8. \A m : Prefixed(m)' = Prefixed(m)
  BY <1>1 DEF Prefixed
<1>9. Limit' = Limit /\ n \in 0..Limit
  BY <1>1 DEF Limit
<1>10. Accepted(i)' /\ Lowest(min_donor, Prefixed(i))' /\ seen' = Prefixed(i)' \ Plain
  BY <1>1, <1>5, <1>6, <1>7, <1>8 DEF Accepted, Lowest, Prefixed, T
<1>11. \A m : Exact(mask, profile, m)' <=> Exact(mask', profile', m)
  BY <1>8 DEF Exact, Prefixed
<1>12. Exact(prev[1], prev[2], prev_pos)' <=> Exact(prev'[1], prev'[2], prev_pos')
  BY <1>1 DEF Exact, Prefixed
<1>13. \A j : RunBreaks(window, 0, j)' <=> RunBreaks(window, 0, j)
  BY <1>1
<1> QED BY <1>1, <1>4, <1>5, <1>6, <1>9, <1>10, <1>11, <1>12, <1>13 DEF StateInv

-----------------------------------------------------------------------------
(* The answers.                                                            *)

\* At the end of the window, or of what a segment may carry, every byte has
\* been accepted.
LEMMA ReachLimitAnswers == StateInv /\ ReachLimit => PrefixInv'
<1> SUFFICES ASSUME StateInv, ReachLimit PROVE PrefixInv'
  OBVIOUS
<1>1. /\ window \in Seq(Byte) /\ i \in Nat /\ Limit \in Nat /\ i = Limit
      /\ MinFillInSegment \in Nat /\ MinFillInSegment >= 2
      /\ Exact(mask, profile, i) /\ Accepted(i)
      /\ window' = window /\ prefix' = [len |-> i, mask |-> mask, profile |-> profile]
  BY StateFacts, WindowFacts DEF ReachLimit, Answer, StateInv
<1>2. \A j \in 0..(i - 1) : ~DpEnds(window, 0, j)
  <2> SUFFICES ASSUME NEW j \in 0..(i - 1) PROVE ~DpEnds(window, 0, j)
    OBVIOUS
  <2>1. j \in Nat /\ i \in 0..Limit
    BY <1>1
  <2>2. ~RunBreaks(window, 0, j)
    <3>1. CASE j = i - 1
      BY <1>1, <2>1, <3>1, RunBreaksIs
    <3>2. CASE j # i - 1
      BY <1>1, <3>2 DEF StateInv
    <3> QED BY <3>1, <3>2
  <2> QED BY <1>1, <2>1, <2>2, OnlyRunsEnd
<1>3. DpEnds(window, 0, i) /\ i \in 0..Limit
  BY <1>1, WindowFacts DEF DpEnds
<1>4. DpLen(window, 0) = i
  BY <1>1, <1>2, <1>3, FirstEnd
<1> QED BY <1>1, <1>3, <1>4 DEF PrefixInv, Exact, Accepted, Prefixed, Limit

\* A byte that no profile can carry with the others ends the prefix.
LEMMA StopAnswers == StateInv /\ Stop => PrefixInv'
<1> SUFFICES ASSUME StateInv, Stop PROVE PrefixInv'
  OBVIOUS
<1>1. /\ window \in Seq(Byte) /\ i \in Nat /\ Limit \in Nat /\ i < Limit /\ ~InRun
      /\ Exact(mask, profile, i) /\ Accepted(i)
      /\ Current \notin seen \cup Plain
      /\ \/ Current \notin Representable
         \/ ~ChangesNothing(Current) /\ ViableWith(Current) = {}
      /\ window' = window /\ prefix' = [len |-> i, mask |-> mask, profile |-> profile]
  BY StateFacts DEF Stop, Answer, StateInv, ScalarStep
<1>2. \A j \in 0..(i - 1) : ~DpEnds(window, 0, j)
  <2> SUFFICES ASSUME NEW j \in 0..(i - 1) PROVE ~DpEnds(window, 0, j)
    OBVIOUS
  <2>1. j \in Nat /\ i \in 0..Limit
    BY <1>1
  <2>2. ~RunBreaks(window, 0, j)
    <3>1. CASE j = i - 1
      BY <1>1, <2>1, <3>1, NoRunHere
    <3>2. CASE j # i - 1
      BY <1>1, <3>2 DEF StateInv
    <3> QED BY <3>1, <3>2
  <2> QED BY <1>1, <2>1, <2>2, OnlyRunsEnd
<1>3. DpEnds(window, 0, i) /\ i \in 0..Limit
  <2>1. 0 + i + 1 = i + 1
    BY <1>1
  <2>2. CASE Current \notin Representable
    BY <1>1, <2>1, <2>2 DEF DpEnds, Current
  <2>3. CASE Current \in Representable
    <3>1. Viable(Prefixed(i + 1)) = {}
      BY <1>1, <2>3, ViableIs
    <3> QED BY <1>1, <3>1 DEF DpEnds, Prefixed
  <2> QED BY <1>1, <2>2, <2>3
<1>4. DpLen(window, 0) = i
  BY <1>1, <1>2, <1>3, FirstEnd
<1> QED BY <1>1, <1>3, <1>4 DEF PrefixInv, Exact, Accepted, Prefixed, Limit

\* A run long enough ends it one byte back, where the state kept for that is
\* the one in effect.
LEMMA BreakAtRunAnswers == StateInv /\ BreakAtRun => PrefixInv'
<1> SUFFICES ASSUME StateInv, BreakAtRun PROVE PrefixInv'
  OBVIOUS
<1> DEFINE n == i - 1
           min == MinFillInSegment
           back == prev_pos = n
           m == IF back THEN prev[1] ELSE mask
           p == IF back THEN prev[2] ELSE profile
<1>1. /\ window \in Seq(Byte) /\ i \in Nat /\ Limit \in Nat /\ i < Limit /\ InRun
      /\ min \in Nat /\ min >= 2 /\ RunEnd - n >= min
      /\ Accepted(i) /\ prev_pos \in NoPos..(i - 1)
      /\ window' = window /\ prefix' = [len |-> n, mask |-> m, profile |-> p]
  BY StateFacts, WindowFacts DEF BreakAtRun, Answer, StateInv, ScalarStep
<1>2. /\ i > 0 /\ RunEnd \in (i + 1)..Limit /\ RunEnd <= n + min
      /\ \A j \in (i + 1)..RunEnd : window[j] = window[i]
  BY <1>1, RunEndFacts
<1>3. n \in Nat /\ n \in 0..Limit /\ n + 1 = i /\ n + min <= Limit /\ RunEnd = n + min
  BY <1>1, <1>2
<1>4. Exact(m, p, n)
  <2>1. CASE back
    BY <1>3, <2>1 DEF StateInv, NoPos
  <2>2. CASE ~back
    <3>1. n \in (prev_pos + 1)..i
      BY <1>1, <1>3, <2>2 DEF NoPos
    <3> QED BY <2>2, <3>1 DEF StateInv
  <2> QED BY <2>1, <2>2
<1> HIDE DEF m, p, min
<1>5. DpEnds(window, 0, n)
  <2>1. \A j \in (n + 2)..(n + min) : window[j] = window[n + 1]
    BY <1>1, <1>2, <1>3
  <2>2. RunBreaks(window, 0, n)
    BY <1>1, <1>3, <2>1, RunBreaksIs DEF min
  <2> QED BY <2>2 DEF DpEnds
<1>6. \A j \in 0..(n - 1) : ~DpEnds(window, 0, j)
  <2> SUFFICES ASSUME NEW j \in 0..(n - 1) PROVE ~DpEnds(window, 0, j)
    OBVIOUS
  <2>1. j \in 0..(i - 2) /\ j \in 0..(i - 1) /\ i \in 0..Limit
    BY <1>1, <1>3
  <2>2. ~RunBreaks(window, 0, j)
    BY <2>1 DEF StateInv
  <2> QED BY <1>1, <2>1, <2>2, OnlyRunsEnd
<1>7. DpLen(window, 0) = n
  BY <1>1, <1>3, <1>5, <1>6, FirstEnd
<1>8. Accepted(n)
  <2>1. Prefixed(n) \subseteq Prefixed(i)
    BY <1>1, <1>3, WindowFacts
  <2> QED BY <1>1, <2>1, ViableShrinks DEF Accepted
<1> HIDE DEF n
<1> QED BY <1>1, <1>3, <1>4, <1>7, <1>8 DEF PrefixInv, Exact, Accepted, Prefixed, Limit

\* An answer leaves the rest of the state as it is.
LEMMA AnswersKeep ==
  ASSUME StateInv, UNCHANGED <<window, simd, i, seen, mask, profile, min_donor, prev, prev_pos, skip>>
  PROVE  StateInv'
BY DEF StateInv, Accepted, Lowest, Exact, Prefixed, Limit

\* Every step of the scan keeps its invariant.
LEMMA StepScanInv == ScanInv /\ [Next]_vars => ScanInv'
<1> SUFFICES ASSUME ScanInv, [Next]_vars PROVE ScanInv'
  OBVIOUS
<1>1. StateInv
  BY DEF ScanInv
<1>2. CASE SkipLanes
  <2>1. prefix' = <<>>
    BY <1>2 DEF SkipLanes, Running
  <2> QED BY <1>1, <1>2, <2>1, SkipLanesGood DEF ScanInv, PrefixInv, Running
<1>3. CASE ReachLimit
  <2>1. StateInv'
    BY <1>1, <1>3, AnswersKeep DEF ReachLimit
  <2> QED BY <1>1, <1>3, <2>1, ReachLimitAnswers DEF ScanInv
<1>4. CASE BreakAtRun
  <2>1. StateInv'
    BY <1>1, <1>4, AnswersKeep DEF BreakAtRun
  <2> QED BY <1>1, <1>4, <2>1, BreakAtRunAnswers DEF ScanInv
<1>5. CASE StepOverRun
  <2>1. prefix' = <<>>
    BY <1>5 DEF StepOverRun, ScalarStep, Running
  <2> QED BY <1>1, <1>5, <2>1, StepOverRunGood DEF ScanInv, PrefixInv, Running
<1>6. CASE StepOver
  <2>1. prefix' = <<>>
    BY <1>6 DEF StepOver, ScalarStep, Running
  <2> QED BY <1>1, <1>6, <2>1, StepOverGood DEF ScanInv, PrefixInv, Running
<1>7. CASE Stop
  <2>1. StateInv'
    BY <1>1, <1>7, AnswersKeep DEF Stop
  <2> QED BY <1>1, <1>7, <2>1, StopAnswers DEF ScanInv
<1>8. CASE Account
  <2>1. prefix' = <<>>
    BY <1>8 DEF Account, ScalarStep, Running
  <2> QED BY <1>1, <1>8, <2>1, AccountGood DEF ScanInv, PrefixInv, Running
<1>9. CASE UNCHANGED vars
  <2>1. StateInv'
    BY <1>1, <1>9, AnswersKeep DEF vars
  <2>2. PrefixInv'
    BY <1>9 DEF vars, ScanInv, PrefixInv, Running, Accepted, Exact, Prefixed, Limit
  <2> QED BY <2>1, <2>2 DEF ScanInv
<1> QED BY <1>2, <1>3, <1>4, <1>5, <1>6, <1>7, <1>8, <1>9 DEF Next

\* Whatever the window, the profiles and the width of a vector, the state is
\* at every step that of the bytes accepted, and the answer the rule's.
THEOREM ScanInvariant == Spec => []ScanInv
<1>1. Init => ScanInv
  BY InitScanInv
<1>2. ScanInv /\ [Next]_vars => ScanInv'
  BY StepScanInv
<1> QED BY <1>1, <1>2, PTL DEF Spec

-----------------------------------------------------------------------------
(* What the properties say.                                                *)


\* The fields of struct DpScan keep their types: the ranks stay ranks, the mask
\* stays among the R-Set characters and the position inside the limit.
THEOREM ScanTypeOK == Spec => []TypeOK
<1>1. ScanInv => TypeOK
  <2> SUFFICES ASSUME ScanInv PROVE TypeOK
    OBVIOUS
  <2>1. /\ StateInv /\ PrefixInv /\ i \in Nat /\ Limit \in Nat
        /\ mask \in SUBSET RSetBytes /\ profile \in ProfileIds
        /\ seen \subseteq Representable
    BY StateFacts DEF ScanInv
  <2>2. prev_pos \in {NoPos} \cup 0..(Limit - 1)
    BY <2>1 DEF StateInv, NoPos
  <2>3. skip \in SUBSET Representable
    BY <2>1 DEF StateInv, Plain, Representable
  <2>4. ~Running => prefix \in [len : 0..Limit, mask : SUBSET RSetBytes, profile : ProfileIds]
    BY <2>1, SmallestViable DEF PrefixInv, Exact, Accepted
  <2> QED BY <2>1, <2>2, <2>3, <2>4 DEF TypeOK, StateInv
<1> QED BY <1>1, ScanInvariant, PTL

\* At every byte the mask and the profile are those of the bytes accepted, and
\* the pair kept for a rollback is that of the bytes before the last change.
THEOREM ScanExact == Spec => []StateExact
<1>1. ScanInv => StateExact
  <2> SUFFICES ASSUME ScanInv PROVE StateExact
    OBVIOUS
  <2>1. /\ StateInv /\ i \in Nat /\ prev_pos \in NoPos..(i - 1)
    BY StateFacts DEF ScanInv, StateInv
  <2>2. \A m, p, n : Exact(m, p, n) => ExactFor(m, p, n)
    BY DEF Exact, ExactFor, DpMask, DpProfile, Prefixed
  <2>3. i \in (prev_pos + 1)..i /\ prev_pos + 1 \in (prev_pos + 1)..i
    BY <2>1 DEF NoPos
  <2>4. Exact(mask, profile, i) /\ Exact(mask, profile, prev_pos + 1)
    BY <2>1, <2>3 DEF StateInv
  <2> QED BY <2>1, <2>2, <2>4 DEF StateExact, StateInv
<1> QED BY <1>1, ScanInvariant, PTL

\* Where the scan answers, by its limit, a byte or a run one byte back, it answers
\* with the length, the mask and the profile of the format's rule.
THEOREM ScanCanonical == Spec => []PrefixIsCanonical
<1>1. ScanInv => PrefixIsCanonical
  BY DEF ScanInv, PrefixInv, PrefixIsCanonical, Exact, ExactFor, DpMask, DpProfile, Prefixed
<1> QED BY <1>1, ScanInvariant, PTL

\* Ordering the characters of a mask by their index numbers them 1, 2, ...
RankIn(m, c) == Cardinality({x \in m : RSetIndex(x) <= RSetIndex(c)})

\* The ranks of a mask's characters are 1 up to their number, each once.
LEMMA MaskOrder ==
  ASSUME NEW m \in SUBSET RSetBytes
  PROVE  /\ Cardinality(m) \in Nat
         /\ \A c \in m : RankIn(m, c) \in 1..Cardinality(m)
         /\ \A c \in m, x \in m : RankIn(m, c) = RankIn(m, x) => c = x
         /\ \A r \in 1..Cardinality(m) : \E c \in m : RankIn(m, c) = r
<1> DEFINE upTo(c) == {x \in m : RSetIndex(x) <= RSetIndex(c)}
           at == [c \in m |-> Cardinality(upTo(c))]
           k == Cardinality(m)
<1>1. IsFiniteSet(m) /\ k \in Nat
  BY MaskSize
<1>2. \A c \in m : RSetIndex(c) \in 1..Len(RSet) /\ RSet[RSetIndex(c)] = c
  BY DEF RSetBytes, RSetIndex
<1>3. \A c \in m : RSetIndex(c) \in Int
  BY <1>2, BytesAssumption
<1>4. ASSUME NEW c \in m PROVE at[c] \in 1..k
  <2>1. upTo(c) \in SUBSET m /\ c \in upTo(c)
    BY <1>3
  <2>2. IsFiniteSet(upTo(c)) /\ Cardinality(upTo(c)) <= k /\ Cardinality(upTo(c)) \in Nat
    BY <1>1, <2>1, FS_Subset, FS_CardinalityType
  <2>3. Cardinality(upTo(c)) # 0
    BY <2>1, <2>2, FS_EmptySet
  <2> QED BY <1>1, <2>2, <2>3
<1>5. ASSUME NEW c \in m, NEW x \in m, at[c] = at[x] PROVE c = x
  <2>1. \A a \in m, b \in m : RSetIndex(a) <= RSetIndex(b) => upTo(a) \subseteq upTo(b)
    BY <1>3
  <2>2. \A a \in m, b \in m : RSetIndex(a) <= RSetIndex(b) /\ at[a] = at[b] => upTo(a) = upTo(b)
    <3> SUFFICES ASSUME NEW a \in m, NEW b \in m, RSetIndex(a) <= RSetIndex(b), at[a] = at[b]
                 PROVE  upTo(a) = upTo(b)
      OBVIOUS
    <3>1. upTo(a) \subseteq upTo(b) /\ IsFiniteSet(upTo(b)) /\ Cardinality(upTo(a)) = Cardinality(upTo(b))
      BY <1>1, <2>1, FS_Subset
    <3> HIDE DEF upTo
    <3> QED BY <3>1, FS_Subset
  <2>3. upTo(c) = upTo(x)
    BY <1>3, <1>5, <2>2
  <2>4. RSetIndex(c) <= RSetIndex(x) /\ RSetIndex(x) <= RSetIndex(c)
    BY <1>3, <2>3
  <2> QED BY <1>2, <1>3, <2>4
<1>6. \A r \in 1..k : \E c \in m : at[c] = r
  <2>1. at \in Injection(m, 1..k)
    BY <1>4, <1>5 DEF Injection, IsInjective
  <2>2. IsFiniteSet(1..k) /\ Cardinality(1..k) = k
    BY <1>1, FS_Interval
  <2> HIDE DEF at
  <2>3. at \in Surjection(m, 1..k)
    BY <2>1, <2>2, FS_Injection
  <2> QED BY <2>3 DEF Surjection
<1>7. \A c \in m : at[c] = RankIn(m, c)
  BY DEF RankIn
<1> HIDE DEF at, k, upTo
<1> QED BY <1>1, <1>4, <1>5, <1>6, <1>7 DEF k

\* Ordering the characters of a mask by their index numbers them 1, 2, ...:
\* what a profile spends on a mask is its first donors, as many as the mask
\* has characters.
LEMMA DonorsSpent ==
  ASSUME NEW q \in ProfileIds, NEW m \in SUBSET RSetBytes
  PROVE  {Donors(q, m)[c] : c \in m} = {Profiles[q][r] : r \in 1..Cardinality(m)}
<1>1. \A c \in m : Donors(q, m)[c] = Profiles[q][RankIn(m, c)]
  BY DEF Donors, RankIn
<1>2. {RankIn(m, c) : c \in m} = 1..Cardinality(m)
  BY MaskOrder
<1> QED BY <1>1, <1>2

\* A profile carries a set exactly where the ranks say that it does.
LEMMA CarriesIs ==
  ASSUME NEW q \in ProfileIds, NEW S \in SUBSET Representable
  PROVE  Carries(q, S) <=> q \in Viable(S)
<1> DEFINE m == S \cap RSetBytes
           k == Cardinality(m)
<1>1. m \in SUBSET RSetBytes /\ k \in 0..Len(RSet)
  BY MaskSize
<1>2. {Donors(q, m)[c] : c \in m} = {Profiles[q][r] : r \in 1..k}
  BY <1>1, DonorsSpent
<1>3. Carries(q, S) <=> \A c \in m : Donors(q, m)[c] \notin S
  BY DEF Carries, Donors
<1>4. (\A c \in m : Donors(q, m)[c] \notin S) <=> \A r \in 1..k : Profiles[q][r] \notin S
  BY <1>2
<1>5. \A r \in 1..k : Profiles[q][r] \in AlphabetN
  BY <1>1, ProfilesAssumption DEF ProfileIds
<1>6. \A r \in 1..k : Profiles[q][r] \notin RSetBytes
  BY <1>5, BytesAssumption
<1>7. q \in Viable(S) <=> \A b \in S \ RSetBytes : Rank(q, b) >= k
  BY DEF Viable
<1> HIDE DEF k, m
<1>8. \A b : Rank(q, b) >= k <=> \A r \in 1..k : Profiles[q][r] # b
  BY <1>1, RankFacts
<1> QED BY <1>3, <1>4, <1>6, <1>7, <1>8

\* What the scan returns can be told back from what is written: its profile
\* spends no donor that is a literal of the segment, and every smaller one does.
THEOREM ScanDecodable == Spec => []PrefixDecodable
<1>1. ScanInv => PrefixDecodable
  <2> SUFFICES ASSUME ScanInv, ~Running PROVE PrefixDecodable
    BY DEF PrefixDecodable
  <2> DEFINE n == prefix.len
             p == prefix.profile
             S == Prefixed(n)
  <2>1. S \subseteq Representable /\ Viable(S) # {} /\ p = Min(Viable(S))
    BY DEF ScanInv, PrefixInv, Accepted, Exact
  <2>2. Viable(S) \in SUBSET ProfileIds /\ ProfileIds \in SUBSET Nat
    BY ProfilesAssumption DEF Viable, ProfileIds
  <2>3. p \in Viable(S) /\ \A q \in Viable(S) : p <= q
    <3> DEFINE V == Viable(S)
    <3>1. V \in SUBSET Nat /\ V # {} /\ p = Min(V)
      BY <2>1, <2>2
    <3> HIDE DEF V, p
    <3>2. p \in V /\ \A q \in V : p <= q
      BY <3>1, LeastNat
    <3> QED BY <3>2 DEF V
  <2> HIDE DEF p
  <2>4. Carries(p, S)
    BY <2>1, <2>2, <2>3, CarriesIs
  <2>5. \A q \in 1..(p - 1) : ~Carries(q, S)
    <3> SUFFICES ASSUME NEW q \in 1..(p - 1), Carries(q, S) PROVE FALSE
      OBVIOUS
    <3>1. p \in 1..Len(Profiles)
      BY <2>2, <2>3 DEF ProfileIds
    <3>2. Len(Profiles) \in Nat
      BY ProfilesAssumption
    <3>3. q \in ProfileIds
      BY <3>1, <3>2 DEF ProfileIds
    <3>4. p <= q
      BY <2>1, <2>3, <3>3, CarriesIs
    <3> QED BY <3>1, <3>2, <3>4
  <2> QED BY <2>4, <2>5 DEF PrefixDecodable, Prefixed, p
<1> QED BY <1>1, ScanInvariant, PTL

\* Nothing longer was possible: where neither the limit nor a run ends the
\* prefix, every profile would spend a literal if it carried one byte more.
THEOREM ScanMaximal == Spec => []PrefixMaximal
<1>1. ScanInv => PrefixMaximal
  <2> SUFFICES ASSUME ScanInv, ~Running, prefix.len < Limit, ~RunBreaks(window, 0, prefix.len),
                      NEW q \in ProfileIds, Carries(q, Seen(window, 0, prefix.len + 1))
               PROVE  FALSE
    BY DEF PrefixMaximal
  <2> DEFINE n == prefix.len
             T == Prefixed(n + 1)
  <2>1. window \in Seq(Byte) /\ n \in 0..Limit /\ n = DpLen(window, 0)
    BY StateFacts DEF ScanInv, PrefixInv
  <2>2. DpEnds(window, 0, n)
    BY <2>1, EndIs
  <2>3. n \in Nat /\ Limit = DpLimit(window, 0) /\ Limit \in Nat
    BY <2>1, WindowFacts
  <2>4. T \in SUBSET Representable /\ window[n + 1] \in T
    <3>1. T \in SUBSET Representable
      BY DEF Carries, Prefixed
    <3>2. T = Prefixed(n) \cup {window[n + 1]}
      BY <2>1, <2>3, WindowFacts
    <3> QED BY <3>1, <3>2
  <2>5. 0 + n + 1 = n + 1
    BY <2>3
  <2>6. Viable(T) = {}
    BY <2>2, <2>3, <2>4, <2>5 DEF DpEnds, Prefixed
  <2> QED BY <2>4, <2>6, CarriesIs DEF Prefixed
<1> QED BY <1>1, ScanInvariant, PTL

-----------------------------------------------------------------------------
(* The scans of the ports.                                                 *)

PortStates ==
  [i : Nat, mask : SUBSET RSetBytes, profile : ProfileIds,
   minDonor : [ProfileIds -> 0..Len(RSet)], prev : (SUBSET RSetBytes) \X ProfileIds,
   prevPos : Int, run : Nat, ended : BOOLEAN]

\* The bytes before the last that equal it, up to one that does not, are what
\* run counts.
RunCounted(r, n) ==
  /\ r = 0 \/ r < n
  /\ \A j \in (n - r)..n : window[j] = window[n]
  /\ n - r <= 1 \/ window[n - r - 1] # window[n]

\* No run that would end the prefix lies within the first n bytes.
NoRunWithin(n) ==
  \A j \in Nat : j + MinFillInSegment <= n =>
    \E m \in (j + 2)..(j + MinFillInSegment) : window[m] # window[j + 1]

\* The present mask and profile are in effect since prevPos, which is at most
\* last, and before it prev was.
KeptSound(s, last) ==
  /\ s.prevPos \in NoPos..last
  /\ \A m \in (s.prevPos + 1)..s.i : Exact(s.mask, s.profile, m)
  /\ s.prevPos # NoPos => Exact(s.prev[1], s.prev[2], s.prevPos)

\* The state of a port after n iterations.
PortInv(s, n) ==
  /\ s.i \in 0..Limit /\ Accepted(s.i) /\ Exact(s.mask, s.profile, s.i)
  /\ s.ended => s.i = DpLen(window, 0)
  /\ ~s.ended => /\ s.i = n /\ Lowest(s.minDonor, Prefixed(s.i))
                 /\ RunCounted(s.run, s.i) /\ NoRunWithin(s.i) /\ KeptSound(s, s.i - 1 - s.run)

\* What one iteration makes of a state.
PortNext(port, t) ==
  LET s == Counted(t)
  IN  CASE t.ended -> t
        [] ~s.ended /\ TooLong(s) -> CutAtRun(s)
        [] ~s.ended /\ ~TooLong(s) -> PortStep(port, s, window[s.i + 1])

\* The scan of a port begins with the state of no bytes.
LEMMA PortStartGood ==
  ASSUME window \in Seq(Byte)
  PROVE  PortStart \in PortStates /\ PortInv(PortStart, 0)
<1>1. /\ Prefixed(0) = {} /\ Limit \in Nat /\ Len(RSet) \in Nat
      /\ MinFillInSegment \in Nat /\ MinFillInSegment >= 2
  BY WindowFacts, BytesAssumption
<1>2. Viable({}) = ProfileIds /\ {} \cap RSetBytes = {}
  BY DEF Viable
<1>3. ProfileIds # {} /\ 1 \in ProfileIds /\ ProfileIds \in SUBSET Nat /\ \A q \in ProfileIds : 1 <= q
  <2>1. Len(Profiles) \in Nat \ {0}
    BY ProfilesAssumption
  <2> QED BY <2>1 DEF ProfileIds
<1>4. Min(ProfileIds) = 1
  BY <1>3, LeastNat
<1>5. Exact({}, 1, 0) /\ Accepted(0)
  BY <1>1, <1>2, <1>3, <1>4 DEF Exact, Accepted
<1>6. Lowest([q \in ProfileIds |-> Len(RSet)], Prefixed(0))
  BY <1>1 DEF Lowest
<1>7. \A m \in (NoPos + 1)..0 : m = 0
  BY DEF NoPos
<1>8. PortStart \in PortStates
  BY <1>1, <1>3 DEF PortStart, PortStates, NoPos
<1>9. RunCounted(0, 0) /\ NoRunWithin(0)
  BY <1>1 DEF RunCounted, NoRunWithin
<1>10. KeptSound(PortStart, -1)
  BY <1>5, <1>7 DEF KeptSound, PortStart, NoPos
<1> QED BY <1>1, <1>5, <1>6, <1>8, <1>9, <1>10 DEF PortInv, PortStart

\* A run that goes on past n bytes makes the next one a byte that was there
\* before, unless it begins with that.
LEMMA NoRunBegins ==
  ASSUME window \in Seq(Byte), NEW n \in 0..(Limit - 1), NoRunWithin(n),
         window[n + 1] \notin Prefixed(n), NEW j \in 0..(n - 1)
  PROVE  ~RunBreaks(window, 0, j)
<1> SUFFICES ASSUME RunBreaks(window, 0, j) PROVE FALSE
  OBVIOUS
<1> DEFINE min == MinFillInSegment
<1>1. Limit \in Nat /\ min \in Nat /\ min >= 2 /\ n \in Nat /\ j \in Nat
  BY WindowFacts
<1>2. \A m \in (j + 2)..(j + min) : window[m] = window[j + 1]
  BY <1>1, RunBreaksIs
<1>3. window[j + 1] \in Prefixed(n)
  BY <1>1 DEF Prefixed, Seen
<1>4. CASE j + min <= n
  BY <1>1, <1>2, <1>4 DEF NoRunWithin
<1>5. CASE j + min > n
  <2>1. n + 1 \in (j + 2)..(j + min)
    BY <1>1, <1>5
  <2> QED BY <1>2, <1>3, <2>1
<1> HIDE DEF min
<1> QED BY <1>1, <1>4, <1>5

\* A byte that no profile can carry with those before it ends the prefix.
LEMMA NewByteEnds ==
  ASSUME window \in Seq(Byte), NEW n \in 0..(Limit - 1), NoRunWithin(n), Accepted(n),
         ~Accepted(n + 1)
  PROVE  DpLen(window, 0) = n
<1>1. Limit \in Nat /\ n \in Nat /\ n \in 0..Limit
  BY WindowFacts
<1>2. Prefixed(n + 1) = Prefixed(n) \cup {window[n + 1]}
  BY <1>1, WindowFacts
<1>3. window[n + 1] \notin Prefixed(n)
  <2> SUFFICES ASSUME window[n + 1] \in Prefixed(n) PROVE FALSE
    OBVIOUS
  <2>1. Prefixed(n + 1) = Prefixed(n)
    BY <1>2
  <2> QED BY <2>1 DEF Accepted
<1>4. \A j \in 0..(n - 1) : ~DpEnds(window, 0, j)
  BY <1>1, <1>3, NoRunBegins, OnlyRunsEnd
<1>5. DpEnds(window, 0, n)
  <2>1. 0 + n + 1 = n + 1
    BY <1>1
  <2>2. CASE window[n + 1] \notin Representable
    BY <2>1, <2>2 DEF DpEnds
  <2>3. CASE window[n + 1] \in Representable
    <3>1. Viable(Prefixed(n + 1)) = {}
      BY <1>2, <2>3 DEF Accepted
    <3> QED BY <2>1, <3>1 DEF DpEnds, Prefixed
  <2> QED BY <2>2, <2>3
<1> QED BY <1>1, <1>4, <1>5, FirstEnd

\* With the next byte counted, the run reaches up to it.
LEMMA CountedGood ==
  ASSUME window \in Seq(Byte), NEW n \in 1..Limit, NEW t \in PortStates,
         PortInv(t, n - 1), ~t.ended
  PROVE  LET s == Counted(t)
         IN  /\ s \in PortStates /\ ~s.ended /\ s.i = n - 1 /\ t.i = n - 1
             /\ s = [t EXCEPT !.run = s.run]
             /\ s.run \in Nat /\ RunCounted(s.run, n)
             /\ s.run > 0 => window[n] \in Prefixed(n - 1)
             /\ s.run <= t.run + 1
             /\ KeptSound(s, n - 1 - s.run)
<1> DEFINE same == n - 1 > 0 /\ window[n] = window[n - 1]
           r == IF same THEN t.run + 1 ELSE 0
           s == Counted(t)
<1>1. /\ Limit \in Nat /\ n \in Nat /\ n - 1 \in Nat /\ n - 1 \in 0..Limit
      /\ t.i = n - 1 /\ t.run \in Nat /\ t.prevPos \in Int
      /\ RunCounted(t.run, n - 1) /\ KeptSound(t, n - 2 - t.run)
  BY WindowFacts DEF PortInv, PortStates
<1>2. s = [t EXCEPT !.run = r] /\ r \in Nat
  <2>1. (n - 1) + 1 = n /\ t.run + 1 \in Nat
    BY <1>1
  <2>2. r \in Nat
    BY <2>1
  <2> QED BY <1>1, <2>1, <2>2 DEF Counted
<1>3. s \in PortStates /\ s.run = r /\ s.i = n - 1 /\ ~s.ended
  BY <1>1, <1>2 DEF PortStates
<1>4. RunCounted(r, n)
  <2>1. CASE same
    <3>1. n - r = (n - 1) - t.run /\ r < n
      BY <1>1, <2>1 DEF RunCounted
    <3>2. \A j \in ((n - 1) - t.run)..n : window[j] = window[n]
      BY <1>1, <2>1 DEF RunCounted
    <3>3. (n - 1) - t.run <= 1 \/ window[(n - 1) - t.run - 1] # window[n]
      BY <1>1, <2>1 DEF RunCounted
    <3> QED BY <3>1, <3>2, <3>3 DEF RunCounted
  <2>2. CASE ~same
    BY <1>1, <2>2 DEF RunCounted
  <2> QED BY <2>1, <2>2
<1>5. r > 0 => window[n] \in Prefixed(n - 1)
  BY <1>1 DEF Prefixed, Seen
<1>6. KeptSound(s, n - 1 - r)
  <2>1. /\ s.i = t.i /\ s.prevPos = t.prevPos /\ s.mask = t.mask /\ s.profile = t.profile
        /\ s.prev = t.prev
    BY <1>2 DEF PortStates
  <2>2. s.prevPos \in NoPos..(n - 1 - r)
    BY <1>1, <2>1 DEF KeptSound, NoPos
  <2> HIDE DEF s, r
  <2> QED BY <1>1, <2>1, <2>2 DEF KeptSound
<1> HIDE DEF r, same
<1>7. r <= t.run + 1
  BY <1>1 DEF r
<1> QED BY <1>1, <1>2, <1>3, <1>4, <1>5, <1>6, <1>7

\* A run that has just become too long ends the prefix where it began, and the
\* state kept is the one in effect there.
LEMMA CutGood ==
  ASSUME window \in Seq(Byte), NEW n \in 1..Limit, NEW t \in PortStates,
         PortInv(t, n - 1), ~t.ended, TooLong(Counted(t))
  PROVE  CutAtRun(Counted(t)) \in PortStates /\ PortInv(CutAtRun(Counted(t)), n)
<1> DEFINE s == Counted(t)
           start == n - 1 - s.run
           min == MinFillInSegment
           back == IF s.prevPos = start THEN s.prev ELSE <<s.mask, s.profile>>
           u == CutAtRun(s)
<1>1. /\ s \in PortStates /\ s.i = n - 1 /\ t.i = n - 1
      /\ RunCounted(s.run, n) /\ s.run <= t.run + 1
      /\ KeptSound(s, start)
  BY CountedGood
<1>2. /\ Limit \in Nat /\ min \in Nat /\ min >= 2 /\ n \in Nat /\ n - 1 \in 0..Limit
      /\ Accepted(n - 1) /\ NoRunWithin(n - 1) /\ RunCounted(t.run, n - 1) /\ t.run \in Nat
  BY <1>1, WindowFacts DEF PortInv, PortStates
<1>3. s.run \in Nat /\ s.run > 0 /\ s.run + 1 >= min /\ s.prevPos \in Int
  BY <1>1 DEF TooLong, PortStates
<1> HIDE DEF s, min
<1>4. t.run + 1 < min
  <2> SUFFICES ASSUME t.run + 1 >= min PROVE FALSE
    BY <1>2
  <2> DEFINE j == n - 1 - t.run - 1
  <2>1. j \in Nat /\ j + min <= n - 1
    BY <1>2 DEF RunCounted
  <2>2. PICK m \in (j + 2)..(j + min) : window[m] # window[j + 1]
    BY <1>2, <2>1 DEF NoRunWithin, min
  <2>3. j + 1 = n - 1 - t.run
    BY <1>2
  <2> HIDE DEF j
  <2>4. m \in (j + 1)..(n - 1) /\ j + 1 \in (j + 1)..(n - 1)
    BY <1>2, <2>1
  <2>5. \A x \in (j + 1)..(n - 1) : window[x] = window[n - 1]
    BY <1>2, <2>3 DEF RunCounted
  <2> QED BY <2>2, <2>4, <2>5
<1>5. /\ start \in Nat /\ start + min = n /\ start \in 0..Limit /\ start + 1 = n - s.run
      /\ start \in 0..(n - 2)
  <2>1. s.run < n
    BY <1>1, <1>2, <1>3 DEF RunCounted
  <2>2. s.run + 1 = min
    BY <1>1, <1>2, <1>3, <1>4
  <2>3. start + 1 = n - s.run /\ start \in Nat
    BY <1>2, <1>3, <2>1
  <2> HIDE DEF start
  <2>4. start + min = n
    BY <1>2, <1>3, <2>2, <2>3
  <2> QED BY <1>2, <2>3, <2>4
<1> HIDE DEF start
<1>6. DpEnds(window, 0, start)
  <2>1. \A m \in (start + 2)..(start + min) : window[m] = window[start + 1]
    <3>1. \A m \in (start + 1)..n : window[m] = window[n]
      BY <1>1, <1>5 DEF RunCounted
    <3>2. start + 1 \in (start + 1)..n /\ (start + 2)..(start + min) \subseteq (start + 1)..n
      BY <1>2, <1>5
    <3> QED BY <3>1, <3>2
  <2>2. start + min <= Limit
    BY <1>5
  <2>3. RunBreaks(window, 0, start)
    BY <1>5, <2>1, <2>2, RunBreaksIs DEF min
  <2> QED BY <2>3 DEF DpEnds
<1>7. \A j \in 0..(start - 1) : ~DpEnds(window, 0, j)
  <2> SUFFICES ASSUME NEW j \in 0..(start - 1) PROVE ~DpEnds(window, 0, j)
    OBVIOUS
  <2>1. j \in Nat /\ j \in 0..((n - 1) - 1) /\ j + min <= n - 1
    BY <1>2, <1>5
  <2>2. ~RunBreaks(window, 0, j)
    BY <1>2, <2>1, RunBreaksIs DEF NoRunWithin, min
  <2> QED BY <1>2, <2>1, <2>2, OnlyRunsEnd
<1>8. DpLen(window, 0) = start
  BY <1>5, <1>6, <1>7, FirstEnd
<1>9. Accepted(start)
  <2>1. Prefixed(start) \subseteq Prefixed(n - 1)
    BY <1>2, <1>5, WindowFacts
  <2> QED BY <1>2, <2>1, ViableShrinks DEF Accepted
<1>10. Exact(back[1], back[2], start) /\ back \in (SUBSET RSetBytes) \X ProfileIds
  <2>1. s.prev \in (SUBSET RSetBytes) \X ProfileIds /\ s.mask \in SUBSET RSetBytes /\ s.profile \in ProfileIds
    BY <1>1 DEF PortStates
  <2>2. CASE s.prevPos = start
    BY <1>1, <1>5, <2>1, <2>2 DEF KeptSound, NoPos
  <2>3. CASE s.prevPos # start
    <3>1. start \in (s.prevPos + 1)..(n - 1)
      BY <1>1, <1>3, <1>5, <2>3 DEF KeptSound, NoPos
    <3> QED BY <1>1, <2>1, <2>3, <3>1 DEF KeptSound
  <2> QED BY <2>2, <2>3
<1> HIDE DEF back
<1>11. u = [s EXCEPT !.i = start, !.mask = back[1], !.profile = back[2], !.ended = TRUE]
  BY <1>1 DEF CutAtRun, back, start
<1>12. u \in PortStates /\ u.i = start /\ u.mask = back[1] /\ u.profile = back[2] /\ u.ended
  BY <1>1, <1>5, <1>10, <1>11 DEF PortStates
<1> HIDE DEF u
<1>13. PortInv(u, n)
  BY <1>5, <1>8, <1>9, <1>10, <1>12 DEF PortInv
<1> QED BY <1>12, <1>13 DEF u, s

\* A run that is not too long leaves no long one behind it.
LEMMA NoRunYet ==
  ASSUME window \in Seq(Byte), NEW n \in 1..Limit, NEW r \in Nat,
         NoRunWithin(n - 1), RunCounted(r, n), ~(r > 0 /\ r + 1 >= MinFillInSegment)
  PROVE  NoRunWithin(n)
<1> DEFINE min == MinFillInSegment
<1>1. min \in Nat /\ min >= 2 /\ Limit \in Nat /\ n \in Nat /\ r + 1 < min
  BY WindowFacts
<1> SUFFICES ASSUME NEW j \in Nat, j + min <= n
             PROVE  \E m \in (j + 2)..(j + min) : window[m] # window[j + 1]
  BY DEF NoRunWithin
<1>2. CASE j + min <= n - 1
  BY <1>2 DEF NoRunWithin
<1>3. CASE j + min = n
  <2> DEFINE m == n - r - 1
  <2>1. m \in (j + 1)..n /\ n \in (j + 2)..(j + min) /\ m \in Nat \ {0}
    BY <1>1, <1>3
  <2>2. window[m] # window[n]
    BY <1>1, <2>1 DEF RunCounted
  <2>3. CASE m = j + 1
    BY <2>1, <2>2, <2>3
  <2>4. CASE m # j + 1
    <3>1. m \in (j + 2)..(j + min)
      BY <1>3, <2>1, <2>4
    <3> QED BY <2>1, <2>2, <3>1
  <2> QED BY <2>3, <2>4
<1> HIDE DEF min
<1> QED BY <1>1, <1>2, <1>3

\* A state with byte n counted and not yet looked at, where its run is short.
Counting(s, n) ==
  /\ s \in PortStates /\ ~s.ended /\ s.i = n - 1
  /\ Accepted(n - 1) /\ Exact(s.mask, s.profile, n - 1)
  /\ Lowest(s.minDonor, Prefixed(n - 1))
  /\ RunCounted(s.run, n) /\ KeptSound(s, n - 1 - s.run)
  /\ s.run > 0 => window[n] \in Prefixed(n - 1)
  /\ NoRunWithin(n - 1) /\ NoRunWithin(n)

\* What can become of it: the byte ends the prefix, or changes nothing, or makes
\* a change.
LEMMA EndedGood ==
  ASSUME window \in Seq(Byte), NEW n \in 1..Limit, NEW s, Counting(s, n), ~Accepted(n)
  PROVE  Ended(s) \in PortStates /\ PortInv(Ended(s), n)
<1>1. n - 1 \in 0..(Limit - 1) /\ (n - 1) + 1 = n /\ n - 1 \in 0..Limit
  BY WindowFacts
<1>2. DpLen(window, 0) = n - 1
  BY <1>1, NewByteEnds DEF Counting
<1> DEFINE u == Ended(s)
<1>3. u \in PortStates /\ u.i = n - 1 /\ u.mask = s.mask /\ u.profile = s.profile /\ u.ended
  BY DEF Ended, PortStates, Counting
<1> HIDE DEF u
<1> QED BY <1>1, <1>2, <1>3 DEF PortInv, Counting, u

\* A byte that changes no profile's fit takes it to the state of one byte more.
LEMMA PassedGood ==
  ASSUME window \in Seq(Byte), NEW n \in 1..Limit, NEW s, Counting(s, n),
         window[n] \in Representable, Prefixed(n) \cap RSetBytes = s.mask,
         Viable(Prefixed(n)) = Viable(Prefixed(n - 1)), Lowest(s.minDonor, Prefixed(n))
  PROVE  Passed(s) \in PortStates /\ PortInv(Passed(s), n)
<1>1. n \in Nat /\ n - 1 \in Nat /\ (n - 1) + 1 = n /\ n \in 0..Limit
  BY WindowFacts
<1>2. Prefixed(n) = Prefixed(n - 1) \cup {window[n]}
  BY <1>1, WindowFacts
<1> DEFINE u == Passed(s)
<1>3. /\ u \in PortStates /\ u.i = n /\ ~u.ended /\ u.mask = s.mask /\ u.profile = s.profile
      /\ u.minDonor = s.minDonor /\ u.run = s.run
      /\ u.prev = s.prev /\ u.prevPos = s.prevPos
  BY <1>1 DEF Passed, PortStates, Counting
<1> HIDE DEF u
<1>4. Accepted(n) /\ Exact(s.mask, s.profile, n)
  BY <1>2 DEF Counting, Accepted, Exact
<1>5. KeptSound(u, u.i - 1 - u.run)
  <2>1. \A m \in (s.prevPos + 1)..n : Exact(s.mask, s.profile, m)
    <3>1. \A m \in (s.prevPos + 1)..(n - 1) : Exact(s.mask, s.profile, m)
      BY DEF Counting, KeptSound
    <3>2. s.prevPos \in Int
      BY DEF Counting, PortStates
    <3> QED BY <1>1, <1>4, <3>1, <3>2
  <2> QED BY <1>3, <2>1 DEF Counting, KeptSound
<1> QED BY <1>1, <1>3, <1>4, <1>5 DEF PortInv, Counting, u

\* So does one that does change it.
LEMMA ChangedGood ==
  ASSUME window \in Seq(Byte), NEW n \in 1..Limit, NEW s, Counting(s, n),
         window[n] \in Representable \ Prefixed(n - 1),
         NEW V, V = Viable(Prefixed(n)), V # {},
         NEW m, m = Prefixed(n) \cap RSetBytes,
         NEW md \in [ProfileIds -> 0..Len(RSet)], Lowest(md, Prefixed(n))
  PROVE  Changed(s, V, m, md) \in PortStates /\ PortInv(Changed(s, V, m, md), n)
<1>1. n \in Nat /\ n - 1 \in Nat /\ (n - 1) + 1 = n /\ n \in 0..Limit
  BY WindowFacts
<1>2. Prefixed(n) = Prefixed(n - 1) \cup {window[n]}
  BY <1>1, WindowFacts
<1>3. Min(V) \in ProfileIds /\ m \in SUBSET RSetBytes
  BY SmallestViable
<1>4. s.run = 0 /\ s.mask \in SUBSET RSetBytes /\ s.profile \in ProfileIds
  <2>1. window[n] \notin Prefixed(n - 1)
    OBVIOUS
  <2>2. s.run = 0
    BY <2>1 DEF Counting, PortStates
  <2>3. s.mask \in SUBSET RSetBytes /\ s.profile \in ProfileIds
    BY DEF Counting, PortStates
  <2> QED BY <2>2, <2>3
<1> DEFINE u == Changed(s, V, m, md)
           back == <<s.mask, s.profile>>
<1>5. back \in (SUBSET RSetBytes) \X ProfileIds /\ back[1] = s.mask /\ back[2] = s.profile
  BY <1>4
<1>6. u = [s EXCEPT !.prev = back, !.prevPos = n - 1, !.i = n, !.profile = Min(V),
                    !.mask = m, !.minDonor = md]
  BY <1>1 DEF Changed, Counting
<1> HIDE DEF back, u
<1>7. /\ u \in PortStates /\ u.i = n /\ ~u.ended /\ u.mask = m /\ u.profile = Min(V)
      /\ u.minDonor = md /\ u.run = s.run /\ u.prev = back /\ u.prevPos = n - 1
  <2>1. s \in PortStates /\ ~s.ended
    BY DEF Counting
  <2>2. u = [i |-> n, mask |-> m, profile |-> Min(V), minDonor |-> md, prev |-> back,
             prevPos |-> n - 1, run |-> s.run, ended |-> s.ended]
    BY <1>6, <2>1 DEF PortStates
  <2>3. s.run \in Nat /\ s.ended \in BOOLEAN /\ n - 1 \in Int
    BY <1>1, <2>1 DEF PortStates
  <2> QED BY <1>1, <1>3, <1>5, <2>1, <2>2, <2>3 DEF PortStates
<1>8. Accepted(n) /\ Exact(m, Min(V), n)
  BY <1>2 DEF Counting, Accepted, Exact
<1>9. KeptSound(u, u.i - 1 - u.run)
  <2>1. \A k \in ((n - 1) + 1)..n : k = n
    BY <1>1
  <2>2. Exact(back[1], back[2], n - 1)
    BY <1>5 DEF Counting
  <2>3. n - 1 \in NoPos..(n - 1 - 0)
    BY <1>1 DEF NoPos
  <2> QED BY <1>4, <1>7, <1>8, <2>1, <2>2, <2>3 DEF KeptSound
<1> QED BY <1>1, <1>4, <1>7, <1>8, <1>9 DEF PortInv, Counting, u

\* An iteration of Go's scan that the run does not end.
LEMMA PortByteGood ==
  ASSUME window \in Seq(Byte), NEW n \in 1..Limit, NEW s, Counting(s, n)
  PROVE  PortByte(s, window[n]) \in PortStates /\ PortInv(PortByte(s, window[n]), n)
<1> DEFINE b == window[n]
           low == Lowered(s.minDonor, b)
           k == Cardinality(s.mask)
           T == Prefixed(n)
           V == IF b \in RSetBytes THEN {q \in ProfileIds : s.minDonor[q] >= k + 1}
                ELSE {q \in ProfileIds : low[q] >= k}
           next == PortByte(s, b)
<1>1. n - 1 \in Nat /\ (n - 1) + 1 = n
  BY WindowFacts
<1>2. /\ s.minDonor \in [ProfileIds -> 0..Len(RSet)] /\ Lowest(s.minDonor, Prefixed(n - 1))
      /\ s.mask = Prefixed(n - 1) \cap RSetBytes
      /\ Prefixed(n - 1) \subseteq Representable
  BY DEF Counting, PortStates, Exact, Accepted
<1>3. /\ T = Prefixed(n - 1) \cup {b} /\ low \in [ProfileIds -> 0..Len(RSet)]
      /\ b \in RSetBytes \ s.mask =>
           /\ b \notin Prefixed(n - 1) /\ T \cap RSetBytes = s.mask \cup {b}
           /\ V = Viable(T) /\ Lowest(s.minDonor, T)
      /\ b \notin RSetBytes =>
           /\ T \cap RSetBytes = s.mask /\ V = Viable(T) /\ Lowest(low, T)
           /\ low = s.minDonor => Viable(T) = Viable(Prefixed(n - 1))
           /\ b \in Prefixed(n - 1) => low = s.minDonor
  <2> DEFINE p == n - 1
  <2>1. p \in Nat /\ p + 1 = n /\ b = window[p + 1] /\ Lowest(s.minDonor, Prefixed(p))
        /\ s.mask = Prefixed(p) \cap RSetBytes
    BY <1>1, <1>2
  <2> HIDE DEF p, b
  <2>2. Effect(p, b, s.minDonor, s.mask)
    BY <1>2, <2>1, ByteAdds
  <2> QED BY <2>1, <2>2 DEF p, Effect
<1>4. AlphabetN \cap RSetBytes = {} /\ Representable = AlphabetN \cup RSetBytes
  BY BytesAssumption DEF Representable
<1>5. next = CASE b \in s.mask -> Passed(s)
              [] b \notin Representable -> Ended(s)
              [] b \in AlphabetN /\ low = s.minDonor -> Passed(s)
              [] b \in RSetBytes \ s.mask ->
                   IF V = {} THEN Ended(s) ELSE Changed(s, V, s.mask \cup {b}, s.minDonor)
              [] b \in AlphabetN /\ low # s.minDonor ->
                   IF V = {} THEN Ended(s) ELSE Changed(s, V, s.mask, low)
  BY DEF PortByte, Lowered
<1> HIDE DEF b, low, k, T, V, next
<1>6. CASE b \in s.mask
  <2>1. next = Passed(s)
    BY <1>2, <1>4, <1>5, <1>6
  <2>2. T = Prefixed(n - 1) /\ b \in Representable
    BY <1>2, <1>3, <1>4, <1>6
  <2> QED BY <1>2, <2>1, <2>2, PassedGood DEF b, T, next
<1>7. CASE b \notin Representable
  <2>1. next = Ended(s)
    BY <1>2, <1>4, <1>5, <1>7
  <2>2. ~Accepted(n)
    BY <1>3, <1>7 DEF Accepted, T
  <2> QED BY <2>1, <2>2, EndedGood DEF b, next
<1>8. CASE b \in AlphabetN /\ low = s.minDonor
  <2>1. next = Passed(s) /\ b \in Representable /\ b \notin RSetBytes
    BY <1>2, <1>4, <1>5, <1>8
  <2>2. Passed(s) \in PortStates /\ PortInv(Passed(s), n)
    BY <1>3, <1>8, <2>1, PassedGood DEF b, T
  <2> QED BY <2>1, <2>2 DEF b, next
<1>9. CASE b \in RSetBytes \ s.mask
  <2>1. next = (IF V = {} THEN Ended(s) ELSE Changed(s, V, s.mask \cup {b}, s.minDonor))
    BY <1>2, <1>4, <1>5, <1>9
  <2>2. CASE V = {}
    BY <1>3, <1>9, <2>1, <2>2, EndedGood DEF Accepted, T, b, next
  <2>3. CASE V # {}
    <3>1. b \in Representable \ Prefixed(n - 1)
      BY <1>3, <1>4, <1>9
    <3>2. /\ Changed(s, V, s.mask \cup {b}, s.minDonor) \in PortStates
          /\ PortInv(Changed(s, V, s.mask \cup {b}, s.minDonor), n)
      BY <1>2, <1>3, <1>9, <2>3, <3>1, ChangedGood DEF b, T
    <3> QED BY <2>1, <2>3, <3>2 DEF b, next
  <2> QED BY <2>2, <2>3
<1>10. CASE b \in AlphabetN /\ low # s.minDonor
  <2>1. /\ next = (IF V = {} THEN Ended(s) ELSE Changed(s, V, s.mask, low))
        /\ b \notin RSetBytes
    BY <1>2, <1>4, <1>5, <1>10
  <2>2. CASE V = {}
    BY <1>3, <2>1, <2>2, EndedGood DEF Accepted, T, b, next
  <2>3. CASE V # {}
    <3>1. b \in Representable \ Prefixed(n - 1)
      BY <1>3, <1>4, <1>10, <2>1
    <3>2. Changed(s, V, s.mask, low) \in PortStates /\ PortInv(Changed(s, V, s.mask, low), n)
      BY <1>3, <2>1, <2>3, <3>1, ChangedGood DEF b, T
    <3> QED BY <2>1, <2>3, <3>2 DEF b, next
  <2> QED BY <2>2, <2>3
<1> QED BY <1>4, <1>6, <1>7, <1>8, <1>9, <1>10

\* TypeScript's, which has lowered the ranks before it decides.
LEMMA TsByteGood ==
  ASSUME window \in Seq(Byte), NEW n \in 1..Limit, NEW s, Counting(s, n)
  PROVE  TsByte(s, window[n]) \in PortStates /\ PortInv(TsByte(s, window[n]), n)
<1> DEFINE b == window[n]
           low == Lowered(s.minDonor, b)
           k == Cardinality(s.mask)
           T == Prefixed(n)
           V == {q \in ProfileIds : low[q] >= k}
           lowered == [s EXCEPT !.minDonor = low]
           next == TsByte(s, b)
<1>1. n - 1 \in Nat /\ (n - 1) + 1 = n /\ n \in 1..Len(window)
  BY WindowFacts
<1>2. /\ s.minDonor \in [ProfileIds -> 0..Len(RSet)] /\ Lowest(s.minDonor, Prefixed(n - 1))
      /\ s.mask = Prefixed(n - 1) \cap RSetBytes
      /\ Prefixed(n - 1) \subseteq Representable
  BY DEF Counting, PortStates, Exact, Accepted
<1>3. /\ T = Prefixed(n - 1) \cup {b} /\ low \in [ProfileIds -> 0..Len(RSet)]
      /\ b \notin RSetBytes =>
           /\ T \cap RSetBytes = s.mask /\ V = Viable(T) /\ Lowest(low, T)
           /\ low = s.minDonor => Viable(T) = Viable(Prefixed(n - 1))
           /\ b \in Prefixed(n - 1) \cup Plain => low = s.minDonor
  <2> DEFINE p == n - 1
  <2>1. p \in Nat /\ p + 1 = n /\ b = window[p + 1] /\ Lowest(s.minDonor, Prefixed(p))
        /\ s.mask = Prefixed(p) \cap RSetBytes
    BY <1>1, <1>2
  <2> HIDE DEF p, b
  <2>2. Effect(p, b, s.minDonor, s.mask)
    BY <1>2, <2>1, ByteAdds
  <2> QED BY <2>1, <2>2 DEF p, Effect
<1>4. /\ AlphabetN \cap RSetBytes = {} /\ Representable = AlphabetN \cup RSetBytes
      /\ DonorBytes \subseteq AlphabetN /\ Plain = AlphabetN \ DonorBytes
  <2>1. DonorBytes \subseteq AlphabetN
    BY ProfilesAssumption, BytesAssumption DEF DonorBytes, ProfileIds
  <2> QED BY <2>1, BytesAssumption DEF Representable, Plain
<1>5. b \in Byte
  BY <1>1
<1>6. next = CASE b \in RSetBytes \cup (Byte \ Representable) -> PortByte(s, b)
              [] b \in Plain -> Passed(s)
              [] b \in DonorBytes /\ low = s.minDonor -> Passed(s)
              [] b \in DonorBytes /\ low # s.minDonor ->
                   IF V = {} THEN Ended(lowered) ELSE Changed(lowered, V, s.mask, low)
  BY DEF TsByte, Lowered
<1> HIDE DEF b, low, k, T, V, lowered, next
<1>7. CASE b \in RSetBytes \cup (Byte \ Representable)
  <2>1. next = PortByte(s, b)
    BY <1>4, <1>6, <1>7
  <2> QED BY <2>1, PortByteGood DEF b, next
<1>8. CASE b \in AlphabetN /\ low = s.minDonor
  <2>1. next = Passed(s) /\ b \in Representable /\ b \notin RSetBytes
    BY <1>4, <1>6, <1>8
  <2>2. Passed(s) \in PortStates /\ PortInv(Passed(s), n)
    BY <1>3, <1>8, <2>1, PassedGood DEF b, T
  <2> QED BY <2>1, <2>2 DEF b, next
<1>9. CASE b \in AlphabetN /\ low # s.minDonor
  <2>1. b \in DonorBytes /\ b \notin RSetBytes /\ b \notin Plain /\ b \in Representable
    BY <1>3, <1>4, <1>9
  <2>2. next = (IF V = {} THEN Ended(lowered) ELSE Changed(lowered, V, s.mask, low))
    BY <1>4, <1>6, <1>9, <2>1
  <2>3. s \in PortStates
    BY DEF Counting
  <2>4. CASE V = {}
    <3>1. ~Accepted(n)
      BY <1>3, <2>1, <2>4 DEF Accepted, T
    <3>2. Ended(s) \in PortStates /\ PortInv(Ended(s), n)
      BY <3>1, EndedGood
    <3> DEFINE u == Ended(lowered)
               v == Ended(s)
    <3>3. /\ u \in PortStates /\ u.ended /\ v.ended /\ u.i = v.i /\ u.mask = v.mask
          /\ u.profile = v.profile
      BY <1>3, <2>3 DEF Ended, lowered, PortStates
    <3> HIDE DEF u, v
    <3>4. PortInv(u, n)
      BY <3>2, <3>3 DEF PortInv, v
    <3> QED BY <2>2, <2>4, <3>3, <3>4 DEF u, b, next
  <2>5. CASE V # {}
    <3>1. b \in Representable \ Prefixed(n - 1)
      BY <1>3, <1>9, <2>1
    <3>2. Changed(s, V, s.mask, low) \in PortStates /\ PortInv(Changed(s, V, s.mask, low), n)
      BY <1>3, <2>1, <2>5, <3>1, ChangedGood DEF b, T
    <3>3. Changed(lowered, V, s.mask, low) = Changed(s, V, s.mask, low)
      BY <2>3 DEF Changed, lowered, PortStates
    <3> QED BY <2>2, <2>5, <3>2, <3>3 DEF b, next
  <2> QED BY <2>4, <2>5
<1> QED BY <1>4, <1>5, <1>7, <1>8, <1>9

\* An iteration keeps the invariant.
LEMMA PortNextGood ==
  ASSUME window \in Seq(Byte), NEW port \in {"go", "ts"},
         NEW n \in 1..Limit, NEW t \in PortStates, PortInv(t, n - 1)
  PROVE  PortNext(port, t) \in PortStates /\ PortInv(PortNext(port, t), n)
<1> DEFINE s == Counted(t)
           next == PortNext(port, t)
<1>1. CASE t.ended
  <2>1. next = t
    <3>1. s.ended
      BY <1>1 DEF Counted, PortStates
    <3> QED BY <1>1, <3>1 DEF PortNext
  <2> QED BY <1>1, <2>1 DEF PortInv
<1>2. CASE ~t.ended
  <2>1. /\ s \in PortStates /\ ~s.ended /\ s.i = n - 1 /\ t.i = n - 1
        /\ s = [t EXCEPT !.run = s.run]
        /\ s.run \in Nat /\ RunCounted(s.run, n)
        /\ s.run > 0 => window[n] \in Prefixed(n - 1)
        /\ KeptSound(s, n - 1 - s.run)
    BY <1>2, CountedGood
  <2>2. next = CASE t.ended -> t
                 [] ~s.ended /\ TooLong(s) -> CutAtRun(s)
                 [] ~s.ended /\ ~TooLong(s) -> PortStep(port, s, window[s.i + 1])
    BY DEF PortNext
  <2>3. CASE TooLong(s)
    <3>1. next = CutAtRun(s)
      BY <1>2, <2>1, <2>2, <2>3
    <3> QED BY <1>2, <2>3, <3>1, CutGood
  <2>4. CASE ~TooLong(s)
    <3>1. next = PortStep(port, s, window[n])
      <4>1. s.i + 1 = n
        BY <2>1, WindowFacts
      <4> QED BY <1>2, <2>1, <2>2, <2>4, <4>1
    <3>2. /\ s.mask = t.mask /\ s.profile = t.profile /\ s.minDonor = t.minDonor
      BY <2>1 DEF PortStates
    <3>3. NoRunWithin(n - 1)
      BY <1>2, <2>1 DEF PortInv
    <3>4. NoRunWithin(n)
      BY <2>1, <2>4, <3>3, NoRunYet DEF TooLong
    <3> HIDE DEF s
    <3>5. Counting(s, n)
      BY <1>2, <2>1, <3>2, <3>3, <3>4 DEF Counting, PortInv
    <3>6. PortByte(s, window[n]) \in PortStates /\ PortInv(PortByte(s, window[n]), n)
      BY <3>5, PortByteGood
    <3>7. TsByte(s, window[n]) \in PortStates /\ PortInv(TsByte(s, window[n]), n)
      BY <3>5, TsByteGood
    <3> QED BY <3>1, <3>6, <3>7 DEF PortStep
  <2> QED BY <2>3, <2>4
<1> QED BY <1>1, <1>2

\* The states of a port's loop up to iteration m.
Iterates(k, port, m) ==
  /\ k \in [0..m -> PortStates] /\ k[0] = PortStart
  /\ \A j \in 1..m : k[j] = PortNext(port, k[j - 1])
  /\ \A j \in 0..m : PortInv(k[j], j)

\* The loop of a port passes through the states of its prefixes.
LEMMA LoopExists ==
  ASSUME window \in Seq(Byte), NEW port \in {"go", "ts"}
  PROVE  \E k : Iterates(k, port, Limit)
<1> DEFINE T == {m \in 0..Limit : \E k : Iterates(k, port, m)}
<1>1. Limit \in Nat
  BY WindowFacts
<1>2. 0 \in T
  <2> DEFINE k == [j \in 0..0 |-> PortStart]
  <2>1. k \in [0..0 -> PortStates] /\ k[0] = PortStart /\ PortInv(k[0], 0)
    BY PortStartGood
  <2>2. \A j \in 0..0 : j = 0
    OBVIOUS
  <2> HIDE DEF k
  <2>3. Iterates(k, port, 0)
    BY <2>1, <2>2 DEF Iterates
  <2> QED BY <1>1, <2>3
<1>3. ASSUME NEW m \in 1..Limit, m - 1 \in T PROVE m \in T
  <2>1. PICK k : Iterates(k, port, m - 1)
    BY <1>3
  <2> DEFINE last == k[m - 1]
             next == PortNext(port, last)
             g == [j \in 0..m |-> IF j = m THEN next ELSE k[j]]
  <2>2. /\ m - 1 \in 0..(m - 1) /\ k \in [0..(m - 1) -> PortStates]
        /\ last \in PortStates /\ PortInv(last, m - 1)
    BY <1>1, <2>1 DEF Iterates
  <2>3. next \in PortStates /\ PortInv(next, m)
    <3> HIDE DEF last
    <3> QED BY <2>2, PortNextGood
  <2> HIDE DEF next
  <2>4. g \in [0..m -> PortStates]
    BY <2>2, <2>3
  <2>5. g[m] = next /\ g[0] = k[0] /\ \A j \in 0..(m - 1) : g[j] = k[j]
    BY <1>1
  <2> HIDE DEF g
  <2>6. \A j \in 1..m : g[j] = PortNext(port, g[j - 1])
    <3> SUFFICES ASSUME NEW j \in 1..m PROVE g[j] = PortNext(port, g[j - 1])
      OBVIOUS
    <3>1. j - 1 \in 0..(m - 1) /\ g[j - 1] = k[j - 1]
      BY <1>1, <2>5
    <3>2. CASE j = m
      BY <2>5, <3>1, <3>2 DEF next
    <3>3. CASE j # m
      <4>1. j \in 1..(m - 1) /\ g[j] = k[j]
        BY <1>1, <2>5, <3>3
      <4> QED BY <2>1, <3>1, <4>1 DEF Iterates
    <3> QED BY <3>2, <3>3
  <2>7. \A j \in 0..m : PortInv(g[j], j)
    <3> SUFFICES ASSUME NEW j \in 0..m PROVE PortInv(g[j], j)
      OBVIOUS
    <3>1. CASE j = m
      BY <2>3, <2>5, <3>1
    <3>2. CASE j # m
      <4>1. j \in 0..(m - 1) /\ g[j] = k[j]
        BY <1>1, <2>5, <3>2
      <4> QED BY <2>1, <4>1 DEF Iterates
    <3> QED BY <3>1, <3>2
  <2>8. Iterates(g, port, m)
    BY <2>1, <2>4, <2>5, <2>6, <2>7 DEF Iterates
  <2> QED BY <2>8
<1> HIDE DEF T
<1>4. \A j \in 0..Limit : j \in T
  BY <1>1, <1>2, <1>3, CountingUp
<1>5. Limit \in 0..Limit
  BY <1>1
<1> QED BY <1>4, <1>5 DEF T

\* Where the loop stands after its last iteration.
LEMMA IteratedGood ==
  ASSUME window \in Seq(Byte), NEW port \in {"go", "ts"}
  PROVE  PortInv(Iterated(port), Limit)
<1> DEFINE n == Limit
           step(t) == LET s == Counted(t)
                      IN  CASE t.ended -> t
                            [] ~s.ended /\ TooLong(s) -> CutAtRun(s)
                            [] ~s.ended /\ ~TooLong(s) -> PortStep(port, s, window[s.i + 1])
           after[j \in 0..n] == IF j = 0 THEN PortStart ELSE step(after[j - 1])
<1>1. n \in Nat
  BY WindowFacts
<1>2. PICK k : Iterates(k, port, n)
  BY LoopExists
<1>3. Iterated(port) = after[n]
  BY DEF Iterated
<1>4. \A t : step(t) = PortNext(port, t)
  BY DEF PortNext
<1> HIDE DEF step, n
<1>5. k = [j \in 0..n |-> IF j = 0 THEN PortStart ELSE step(k[j - 1])]
  <2> DEFINE g == [j \in 0..n |-> IF j = 0 THEN PortStart ELSE step(k[j - 1])]
  <2>1. ASSUME NEW j \in 0..n PROVE k[j] = g[j]
    BY <1>1, <1>2, <1>4, <2>1 DEF Iterates
  <2>2. k = [j \in 0..n |-> k[j]] /\ g = [j \in 0..n |-> g[j]]
    BY <1>2 DEF Iterates
  <2> HIDE DEF g
  <2>3. k = g
    BY <2>1, <2>2
  <2> QED BY <2>3 DEF g
<1>6. after = [j \in 0..n |-> IF j = 0 THEN PortStart ELSE step(after[j - 1])]
  BY <1>5
<1> HIDE DEF after
<1>7. \A j \in 0..n : after[j] = k[j]
  <2> DEFINE T == {j \in 0..n : after[j] = k[j]}
  <2>1. 0 \in T
    BY <1>1, <1>5, <1>6
  <2>2. ASSUME NEW j \in 1..n, j - 1 \in T PROVE j \in T
    <3>1. after[j] = step(after[j - 1]) /\ k[j] = step(k[j - 1])
      BY <1>1, <1>5, <1>6
    <3> QED BY <1>1, <2>2, <3>1
  <2> HIDE DEF T
  <2>3. \A j \in 0..n : j \in T
    BY <1>1, <2>1, <2>2, CountingUp
  <2> QED BY <2>3 DEF T
<1>8. PortInv(k[n], n)
  BY <1>1, <1>2 DEF Iterates
<1> QED BY <1>1, <1>3, <1>7, <1>8 DEF n

\* A loop that has come to the limit without an end of the prefix has accepted
\* all of it.
LEMMA PortAnswers ==
  ASSUME window \in Seq(Byte), NEW s, PortInv(s, Limit)
  PROVE  s.i = DpLen(window, 0) /\ Exact(s.mask, s.profile, s.i)
<1>1. CASE s.ended
  BY <1>1 DEF PortInv
<1>2. CASE ~s.ended
  <2>1. Limit \in Nat /\ Limit \in 0..Limit /\ Limit = DpLimit(window, 0) /\ MinFillInSegment \in Nat
    BY WindowFacts
  <2>2. s.i = Limit /\ Accepted(Limit) /\ NoRunWithin(Limit)
    BY <1>2 DEF PortInv
  <2>3. ASSUME NEW j \in 0..(Limit - 1) PROVE ~DpEnds(window, 0, j)
    <3>1. j \in Nat
      OBVIOUS
    <3>2. ~RunBreaks(window, 0, j)
      BY <2>1, <2>2, <3>1, RunBreaksIs DEF NoRunWithin
    <3> QED BY <2>1, <2>2, <3>2, OnlyRunsEnd
  <2>4. DpEnds(window, 0, Limit)
    BY <2>1 DEF DpEnds
  <2>5. DpLen(window, 0) = Limit
    BY <2>1, <2>3, <2>4, FirstEnd
  <2> QED BY <2>2, <2>5 DEF PortInv
<1> QED BY <1>1, <1>2

\* Whatever the window, the scans of Go and TypeScript return the prefix that the
\* Rust scan returns, with its mask and its profile.
THEOREM ScanPortsAlike == Spec => []PortsScanAlike
<1>1. ScanInv => PortsScanAlike
  <2> SUFFICES ASSUME ScanInv, ~Running, NEW port \in {"go", "ts"}
               PROVE  Prefix(Iterated(port)) = prefix
    BY DEF PortsScanAlike
  <2>1. window \in Seq(Byte)
    BY StateFacts DEF ScanInv
  <2> DEFINE s == Iterated(port)
  <2>2. s.i = DpLen(window, 0) /\ Exact(s.mask, s.profile, s.i)
    BY <2>1, IteratedGood, PortAnswers
  <2>3. /\ prefix = [len |-> prefix.len, mask |-> prefix.mask, profile |-> prefix.profile]
        /\ prefix.len = DpLen(window, 0)
        /\ Exact(prefix.mask, prefix.profile, prefix.len)
    BY DEF ScanInv, PrefixInv
  <2> HIDE DEF s
  <2>4. s.i = prefix.len /\ s.mask = prefix.mask /\ s.profile = prefix.profile
    BY <2>2, <2>3 DEF Exact
  <2> QED BY <2>3, <2>4 DEF Prefix, s
<1> QED BY <1>1, ScanInvariant, PTL

-----------------------------------------------------------------------------
(* The translation of a segment.                                           *)

\* What pairs give for the characters they replace, and that no replacement is
\* replaced in its turn.
Substitutes(pairs, k) ==
  /\ DOMAIN pairs = 1..k /\ Len(pairs) = k
  /\ \A r \in 1..k, x \in 1..k : pairs[r][1] = pairs[x][1] => r = x
  /\ \A r \in 1..k, x \in 1..k : pairs[r][2] # pairs[x][1]

\* Comparing and blending, pair after pair, substitutes a byte once.
LEMMA BlendedIs ==
  ASSUME NEW k \in Nat, NEW pairs, Substitutes(pairs, k), NEW b
  PROVE  /\ \A r \in 1..k : pairs[r][1] = b => Blended(pairs, b) = pairs[r][2]
         /\ (\A r \in 1..k : pairs[r][1] # b) => Blended(pairs, b) = b
<1> DEFINE step(v, r) == IF v = pairs[r][1] THEN pairs[r][2] ELSE v
           iter[s \in SUBSET DOMAIN pairs] ==
             IF s = {} THEN b ELSE LET x == Max(s) IN step(iter[s \ {x}], x)
           hit(s) == {r \in s : pairs[r][1] = b}
           value(s) == IF hit(s) = {} THEN b ELSE pairs[CHOOSE r \in hit(s) : TRUE][2]
           g == [s \in SUBSET DOMAIN pairs |-> value(s)]
<1>1. Blended(pairs, b) = iter[DOMAIN pairs]
  BY DEF Blended, FoldLeft, MapThenFoldSet
<1>2. DOMAIN pairs = 1..k
  BY DEF Substitutes
<1>3. \A s \in SUBSET (1..k) : \A r \in hit(s) : value(s) = pairs[r][2]
  <2> SUFFICES ASSUME NEW s \in SUBSET (1..k), NEW r \in hit(s)
               PROVE  value(s) = pairs[r][2]
    OBVIOUS
  <2> DEFINE c == CHOOSE x \in hit(s) : TRUE
  <2>1. c \in hit(s)
    OBVIOUS
  <2> HIDE DEF c
  <2>2. c = r
    BY <2>1 DEF Substitutes
  <2>3. value(s) = pairs[c][2]
    BY DEF c
  <2> QED BY <2>2, <2>3
<1>4. ASSUME NEW s \in SUBSET (1..k), s # {}
      PROVE  Max(s) \in s /\ value(s) = step(value(s \ {Max(s)}), Max(s))
  <2> DEFINE x == Max(s)
             rest == s \ {x}
  <2>1. x \in s /\ x \in 1..k /\ rest \in SUBSET (1..k)
    BY <1>4, LargestNat
  <2> HIDE DEF x
  <2>2. CASE pairs[x][1] = b
    <3>1. hit(rest) = {} /\ x \in hit(s)
      BY <2>1, <2>2 DEF Substitutes
    <3>2. value(rest) = b /\ value(s) = pairs[x][2]
      BY <1>3, <2>1, <3>1
    <3> QED BY <2>1, <2>2, <3>2 DEF x
  <2>3. CASE pairs[x][1] # b
    <3>1. hit(rest) = hit(s)
      BY <2>1, <2>3
    <3>2. value(rest) = value(s)
      <4> HIDE DEF hit, rest
      <4> QED BY <3>1
    <3>3. value(rest) # pairs[x][1]
      <4>1. CASE hit(rest) = {}
        BY <2>3, <4>1
      <4>2. CASE hit(rest) # {}
        <5>1. PICK r \in hit(rest) : TRUE
          BY <4>2
        <5>2. value(rest) = pairs[r][2] /\ r \in 1..k
          BY <1>3, <2>1, <5>1
        <5> QED BY <2>1, <5>2 DEF Substitutes
      <4> QED BY <4>1, <4>2
    <3> HIDE DEF value, hit, rest
    <3> QED BY <2>1, <3>2, <3>3 DEF x, rest
  <2> QED BY <2>2, <2>3
<1>5. value({}) = b
  OBVIOUS
<1> HIDE DEF value, hit
<1>6. g = [s \in SUBSET DOMAIN pairs |->
             IF s = {} THEN b ELSE LET x == Max(s) IN step(g[s \ {x}], x)]
  <2> DEFINE h == [s \in SUBSET DOMAIN pairs |->
                     IF s = {} THEN b ELSE LET x == Max(s) IN step(g[s \ {x}], x)]
  <2>1. ASSUME NEW s \in SUBSET DOMAIN pairs PROVE g[s] = h[s]
    <3>1. CASE s = {}
      BY <1>5, <3>1
    <3>2. CASE s # {}
      <4>1. s \ {Max(s)} \in SUBSET DOMAIN pairs
        OBVIOUS
      <4>2. g[s] = value(s) /\ g[s \ {Max(s)}] = value(s \ {Max(s)})
        BY <4>1
      <4>3. h[s] = step(g[s \ {Max(s)}], Max(s))
        BY <3>2
      <4> HIDE DEF g, h, step
      <4> QED BY <1>2, <1>4, <3>2, <4>2, <4>3
    <3> QED BY <3>1, <3>2
  <2>2. g = [s \in SUBSET DOMAIN pairs |-> g[s]] /\ h = [s \in SUBSET DOMAIN pairs |-> h[s]]
    OBVIOUS
  <2> HIDE DEF g, h
  <2>3. g = h
    BY <2>1, <2>2
  <2> QED BY <2>3 DEF h
<1> HIDE DEF g, step
<1>7. iter = [s \in SUBSET DOMAIN pairs |->
                IF s = {} THEN b ELSE LET x == Max(s) IN step(iter[s \ {x}], x)]
  BY <1>6
<1> HIDE DEF iter
<1>8. \A n \in 0..k : iter[1..n] = g[1..n]
  <2> DEFINE T == {n \in 0..k : iter[1..n] = g[1..n]}
  <2>1. 0 \in T
    <3>1. 1..0 = {}
      OBVIOUS
    <3> QED BY <1>6, <1>7, <3>1
  <2>2. ASSUME NEW n \in 1..k, n - 1 \in T PROVE n \in T
    <3> DEFINE s == 1..n
    <3>1. s \in SUBSET (1..k) /\ s # {} /\ n \in s /\ \A x \in s : x <= n
      OBVIOUS
    <3>2. Max(s) \in s /\ n <= Max(s)
      <4> HIDE DEF s
      <4> QED BY <3>1, LargestNat
    <3>3. Max(s) = n /\ s \ {n} = 1..(n - 1)
      BY <3>2
    <3> HIDE DEF s
    <3>4. iter[s] = step(iter[s \ {n}], n) /\ g[s] = step(g[s \ {n}], n)
      BY <1>2, <1>6, <1>7, <3>1, <3>3
    <3>5. iter[1..(n - 1)] = g[1..(n - 1)]
      BY <2>2
    <3>6. iter[1..n] = g[1..n]
      BY <3>3, <3>4, <3>5 DEF s
    <3> QED BY <3>6
  <2> HIDE DEF T
  <2>3. \A n \in 0..k : n \in T
    BY <2>1, <2>2, CountingUp
  <2> QED BY <2>3 DEF T
<1>9. Blended(pairs, b) = value(1..k)
  <2>1. iter[1..k] = g[1..k] /\ 1..k \in SUBSET DOMAIN pairs
    BY <1>2, <1>8
  <2>2. g[1..k] = value(1..k)
    BY <2>1 DEF g
  <2> QED BY <1>1, <1>2, <2>1, <2>2
<1>10. \A r \in 1..k : pairs[r][1] = b => value(1..k) = pairs[r][2]
  BY <1>3 DEF hit
<1>11. (\A r \in 1..k : pairs[r][1] # b) => value(1..k) = b
  BY DEF value, hit
<1> QED BY <1>9, <1>10, <1>11

\* Looking a byte up substitutes it in the same way.
LEMMA FoundIs ==
  ASSUME NEW k \in Nat, NEW pairs, Substitutes(pairs, k), NEW b
  PROVE  /\ \A r \in 1..k : pairs[r][1] = b => Found(pairs, b) = pairs[r][2]
         /\ (\A r \in 1..k : pairs[r][1] # b) => Found(pairs, b) = b
<1> DEFINE hits == {r \in 1..Len(pairs) : pairs[r][1] = b}
<1>1. Found(pairs, b) = IF hits = {} THEN b ELSE pairs[Min(hits)][2]
  BY DEF Found
<1>2. Len(pairs) = k
  BY DEF Substitutes
<1>3. ASSUME NEW r \in 1..k, pairs[r][1] = b PROVE Found(pairs, b) = pairs[r][2]
  <2>1. hits # {} /\ hits \in SUBSET Nat /\ r \in hits
    BY <1>2, <1>3
  <2>2. Min(hits) \in hits
    <3> HIDE DEF hits
    <3> QED BY <2>1, LeastNat
  <2>3. Min(hits) = r
    BY <1>2, <1>3, <2>2 DEF Substitutes
  <2> HIDE DEF hits
  <2> QED BY <1>1, <2>1, <2>3
<1>4. ASSUME \A r \in 1..k : pairs[r][1] # b PROVE Found(pairs, b) = b
  BY <1>1, <1>2, <1>4
<1> QED BY <1>3, <1>4

\* A segment's substitutions in index order: each character of the mask with the
\* donor spent on it.
LEMMA PairsAre ==
  ASSUME NEW q \in ProfileIds, NEW m \in SUBSET RSetBytes
  PROVE  LET k == Cardinality(m)
             pairs == Pairs(q, m)
         IN  /\ k \in Nat /\ Substitutes(pairs, k)
             /\ \A r \in 1..k : /\ pairs[r][1] \in m
                                /\ pairs[r][2] = Donors(q, m)[pairs[r][1]]
                                /\ pairs[r][2] \in AlphabetN
             /\ \A c \in m : \E r \in 1..k : pairs[r][1] = c
             /\ \A r \in 1..k, x \in 1..k : pairs[r][2] = pairs[x][2] => r = x
<1> DEFINE k == Cardinality(m)
           pairs == Pairs(q, m)
           first(r) == CHOOSE x \in m : RankIn(m, x) = r
<1>1. /\ k \in Nat /\ k \in 0..Len(RSet)
      /\ \A c \in m : RankIn(m, c) \in 1..k
      /\ \A c \in m, x \in m : RankIn(m, c) = RankIn(m, x) => c = x
      /\ \A r \in 1..k : \E c \in m : RankIn(m, c) = r
  BY MaskOrder, MaskSize
<1>2. pairs = [r \in 1..k |-> <<first(r), Profiles[q][r]>>]
  BY DEF Pairs, RankIn
<1>3. \A c \in m : Donors(q, m)[c] = Profiles[q][RankIn(m, c)]
  BY DEF Donors, RankIn
<1> HIDE DEF k, pairs
<1>4. \A r \in 1..k : first(r) \in m /\ RankIn(m, first(r)) = r
  BY <1>1
<1> HIDE DEF first
<1>5. \A r \in 1..k : pairs[r] = <<first(r), Profiles[q][r]>>
  BY <1>2
<1>6. \A r \in 1..k : pairs[r][1] = first(r) /\ pairs[r][2] = Profiles[q][r]
  BY <1>5
<1>7. DOMAIN pairs = 1..k /\ Len(pairs) = k
  <2> DEFINE X == {pairs[r] : r \in 1..k}
  <2>1. DOMAIN pairs = 1..k /\ pairs \in [1..k -> X]
    BY <1>2
  <2> HIDE DEF X
  <2>2. pairs \in Seq(X)
    BY <1>1, <2>1, SeqDef
  <2>3. DOMAIN pairs = 1..Len(pairs) /\ Len(pairs) \in Nat
    BY <2>2, LenProperties
  <2>4. 1..k = 1..Len(pairs)
    BY <2>1, <2>3
  <2> QED BY <1>1, <2>1, <2>3, <2>4
<1>8. \A r \in 1..k : Profiles[q][r] \in AlphabetN
  BY <1>1, ProfilesAssumption DEF ProfileIds
<1>9. \A r \in 1..k, x \in 1..k : Profiles[q][r] = Profiles[q][x] => r = x
  <2>1. \A r \in 1..Len(RSet), x \in 1..Len(RSet) : Profiles[q][r] = Profiles[q][x] => r = x
    BY ProfilesAssumption
  <2>2. 1..k \subseteq 1..Len(RSet)
    BY <1>1
  <2> QED BY <2>1, <2>2
<1>10. \A r \in 1..k, x \in 1..k : pairs[r][1] = pairs[x][1] => r = x
  BY <1>4, <1>6
<1>11. \A r \in 1..k, x \in 1..k : pairs[r][2] # pairs[x][1]
  BY <1>4, <1>6, <1>8, BytesAssumption
<1>12. ASSUME NEW c \in m PROVE \E r \in 1..k : pairs[r][1] = c
  <2>1. RankIn(m, c) \in 1..k /\ first(RankIn(m, c)) = c
    BY <1>1, <1>4
  <2> QED BY <1>6, <2>1
<1>13. Substitutes(pairs, k)
  BY <1>7, <1>10, <1>11 DEF Substitutes
<1>14. \A r \in 1..k : /\ pairs[r][1] \in m /\ pairs[r][2] = Donors(q, m)[pairs[r][1]]
                       /\ pairs[r][2] \in AlphabetN
  BY <1>3, <1>4, <1>6, <1>8
<1>15. \A r \in 1..k, x \in 1..k : pairs[r][2] = pairs[x][2] => r = x
  BY <1>6, <1>9
<1> QED BY <1>1, <1>12, <1>13, <1>14, <1>15 DEF k, pairs

\* Whatever the segment, a build with vectors writes what one without them does,
\* and no two bytes of it are written as the same character.
THEOREM ScanTranslation == Spec => []TranslationExact
<1>1. ScanInv => TranslationExact
  <2> SUFFICES ASSUME ScanInv, ~Running PROVE TranslationExact
    BY DEF TranslationExact
  <2> DEFINE n == prefix.len
             q == prefix.profile
             m == prefix.mask
             k == Cardinality(m)
             src == SubSeq(window, 1, n)
             donors == Donors(q, m)
             pairs == Pairs(q, m)
             one(b) == IF b \in m THEN donors[b] ELSE b
             written == Translated(pairs, src)
  <2>1. /\ window \in Seq(Byte) /\ n \in 0..Limit /\ Limit \in 0..Len(window)
        /\ Accepted(n) /\ Exact(m, q, n)
    BY StateFacts, WindowFacts DEF ScanInv, PrefixInv
  <2>2. m \in SUBSET RSetBytes /\ q \in ProfileIds /\ q \in Viable(Prefixed(n))
    BY <2>1, SmallestViable DEF Accepted, Exact
  <2>3. Len(src) = n /\ \A j \in 1..n : src[j] = window[j]
    BY <2>1
  <2>4. \A j \in 1..n : src[j] \in Prefixed(n)
    <3>1. \A j \in 1..n : window[j] \in Prefixed(n)
      <4>1. Prefixed(n) = {window[0 + j] : j \in 1..n}
        BY DEF Prefixed, Seen
      <4> HIDE DEF n
      <4>2. \A j \in 1..n : window[j] = window[0 + j]
        BY <2>1
      <4> QED BY <4>1, <4>2
    <3> HIDE DEF src, n
    <3> QED BY <2>3, <3>1
  <2>5. /\ k \in Nat /\ Substitutes(pairs, k)
        /\ \A r \in 1..k : /\ pairs[r][1] \in m /\ pairs[r][2] = donors[pairs[r][1]]
                           /\ pairs[r][2] \in AlphabetN
        /\ \A c \in m : \E r \in 1..k : pairs[r][1] = c
        /\ \A r \in 1..k, x \in 1..k : pairs[r][2] = pairs[x][2] => r = x
    BY <2>2, PairsAre
  <2>6. m = Prefixed(n) \cap RSetBytes /\ \A c \in m : donors[c] \notin Prefixed(n)
    <3>1. Carries(q, Prefixed(n))
      BY <2>1, <2>2, CarriesIs DEF Accepted
    <3>2. m = Prefixed(n) \cap RSetBytes
      BY <2>1 DEF Exact
    <3>3. DOMAIN donors = m
      BY DEF Donors
    <3> QED BY <3>1, <3>2, <3>3 DEF Carries
  <2> HIDE DEF n, q, m, k, src, donors, pairs
  <2>7. \A b : Blended(pairs, b) = one(b) /\ Found(pairs, b) = one(b)
    <3> TAKE b
    <3>1. CASE b \in m
      <4>1. PICK r \in 1..k : pairs[r][1] = b
        BY <2>5, <3>1
      <4>2. pairs[r][2] = one(b)
        BY <2>5, <3>1, <4>1
      <4> HIDE DEF one
      <4>3. Blended(pairs, b) = pairs[r][2]
        BY <2>5, <4>1, BlendedIs
      <4>4. Found(pairs, b) = pairs[r][2]
        BY <2>5, <4>1, FoundIs
      <4> QED BY <4>2, <4>3, <4>4
    <3>2. CASE b \notin m
      <4>1. \A r \in 1..k : pairs[r][1] # b
        BY <2>5, <3>2
      <4>2. Blended(pairs, b) = b
        BY <2>5, <4>1, BlendedIs
      <4>3. Found(pairs, b) = b
        BY <2>5, <4>1, FoundIs
      <4> QED BY <3>2, <4>2, <4>3
    <3> QED BY <3>1, <3>2
  <2>8. written = [j \in 1..n |-> one(src[j])]
    <3> HIDE DEF one
    <3> QED BY <2>3, <2>7 DEF Translated
  <2>9. ASSUME NEW i_ \in 1..n, NEW j_ \in 1..n, one(src[i_]) = one(src[j_])
        PROVE  src[i_] = src[j_]
    <3>1. \A c \in m, x \in m : donors[c] = donors[x] => c = x
      BY <2>5
    <3> QED BY <2>4, <2>6, <2>9, <3>1
  <2>10. \A j_, k_ \in 1..n : written[j_] = written[k_] => src[j_] = src[k_]
    <3> HIDE DEF one, written
    <3> QED BY <2>8, <2>9
  <2>11. written = [j \in 1..n |-> IF src[j] \in m THEN donors[src[j]] ELSE src[j]]
    BY <2>8
  <2> HIDE DEF written, one
  <2> QED BY <2>10, <2>11 DEF TranslationExact, written, n, q, m, src, donors, pairs
<1> QED BY <1>1, ScanInvariant, PTL

-----------------------------------------------------------------------------
(* The words of the scan: one profile to a lane.                           *)

\* The word of some lanes, from each lane up: its own value, and what is in the
\* lanes above.
Word(f, w) ==
  /\ w \in [1..(Len(Profiles) + 1) -> Int]
  /\ w[Len(Profiles) + 1] = 0
  /\ \A q \in ProfileIds : w[q] = f[q] + LaneValues * w[q + 1]

\* The number of profiles.
LEMMA ProfileCount == Len(Profiles) \in Nat /\ 1 <= Len(Profiles)
<1>1. Profiles \in Seq(Seq(AlphabetN)) /\ Profiles # <<>>
  BY ProfilesAssumption
<1>2. Len(Profiles) \in Nat /\ (Len(Profiles) = 0 => Profiles = <<>>)
  BY <1>1, LenProperties, EmptySeq
<1> QED BY <1>1, <1>2

\* What holds above the last number and passes to the one below holds of all.
LEMMA DownTo ==
  ASSUME NEW n \in Nat, NEW T, n + 1 \in T, \A q \in 1..n : q + 1 \in T => q \in T
  PROVE  \A q \in 1..(n + 1) : q \in T
<1> DEFINE U == {j \in 0..n : n + 1 - j \in T}
<1>1. 0 \in U
  OBVIOUS
<1>2. ASSUME NEW j \in 1..n, j - 1 \in U PROVE j \in U
  <2>1. n + 1 - (j - 1) \in T
    BY <1>2
  <2>2. n + 1 - j \in 1..n /\ (n + 1 - j) + 1 = n + 1 - (j - 1)
    OBVIOUS
  <2>3. n + 1 - j \in T
    BY <2>1, <2>2
  <2> QED BY <2>3
<1>3. \A j \in 0..n : j \in U
  <2> HIDE DEF U
  <2> QED BY <1>1, <1>2, CountingUp
<1>4. ASSUME NEW q \in 1..(n + 1) PROVE q \in T
  <2>1. n + 1 - q \in 0..n /\ n + 1 - (n + 1 - q) = q
    OBVIOUS
  <2>2. n + 1 - q \in U
    BY <1>3, <2>1
  <2> QED BY <2>1, <2>2
<1> QED BY <1>4

\* Every function of the profiles has its word.
LEMMA WordExists ==
  ASSUME NEW f \in [ProfileIds -> Int]
  PROVE  \E w : Word(f, w)
<1> DEFINE P == Len(Profiles)
           below(j, w) == /\ w \in [1..(P + 1) -> Int] /\ w[P + 1] = 0
                          /\ \A q \in j..P : w[q] = f[q] + LaneValues * w[q + 1]
           T == {j \in 1..(P + 1) : \E w : below(j, w)}
<1>1. P \in Nat /\ ProfileIds = 1..P
  BY ProfileCount DEF ProfileIds
<1> HIDE DEF P
<1>2. P + 1 \in T
  <2> DEFINE w == [q \in 1..(P + 1) |-> 0]
  <2>1. below(P + 1, w)
    BY <1>1
  <2> QED BY <1>1, <2>1
<1>3. ASSUME NEW j \in 1..P, j + 1 \in T PROVE j \in T
  <2>1. PICK w : below(j + 1, w)
    BY <1>3
  <2> DEFINE v == [w EXCEPT ![j] = f[j] + LaneValues * w[j + 1]]
  <2>2. j \in 1..(P + 1) /\ j + 1 \in 1..(P + 1) /\ w[j + 1] \in Int /\ f[j] \in Int
    BY <1>1, <2>1
  <2>3. f[j] + LaneValues * w[j + 1] \in Int
    BY <2>2 DEF LaneValues
  <2>4. /\ v \in [1..(P + 1) -> Int] /\ v[j] = f[j] + LaneValues * w[j + 1]
        /\ \A q \in 1..(P + 1) : q # j => v[q] = w[q]
    <3> DEFINE new == f[j] + LaneValues * w[j + 1]
    <3> HIDE DEF new
    <3> SUFFICES [w EXCEPT ![j] = new] \in [1..(P + 1) -> Int]
      BY <2>1, <2>2 DEF new
    <3> QED BY <2>1, <2>2, <2>3 DEF new
  <2> HIDE DEF v
  <2>5. v[P + 1] = 0
    BY <1>1, <2>1, <2>4
  <2>6. \A q \in j..P : v[q] = f[q] + LaneValues * v[q + 1]
    <3> SUFFICES ASSUME NEW q \in j..P PROVE v[q] = f[q] + LaneValues * v[q + 1]
      OBVIOUS
    <3>1. v[q + 1] = w[q + 1]
      BY <1>1, <2>4
    <3>2. CASE q = j
      BY <2>4, <3>1, <3>2
    <3>3. CASE q # j
      <4>1. q \in (j + 1)..P /\ q \in 1..(P + 1)
        BY <1>1, <3>3
      <4> QED BY <2>1, <2>4, <3>1, <3>3, <4>1
    <3> QED BY <3>2, <3>3
  <2>7. below(j, v)
    BY <2>4, <2>5, <2>6
  <2> QED BY <2>2, <2>7
<1>4. 1 \in T
  <2> HIDE DEF T
  <2>1. \A j \in 1..(P + 1) : j \in T
    BY <1>1, <1>2, <1>3, DownTo
  <2> QED BY <1>1, <2>1
<1>5. PICK w : below(1, w)
  BY <1>4
<1>6. Word(f, w)
  BY <1>1, <1>5 DEF Word, P
<1> QED BY <1>6

\* And only one.
LEMMA WordIs ==
  ASSUME NEW f \in [ProfileIds -> Int], NEW w, Word(f, w)
  PROVE  Packed(f) = w[1] /\ w[1] \in Int
<1> DEFINE P == Len(Profiles)
           F(g) == [q \in 1..(P + 1) |->
                      IF q \in ProfileIds THEN f[q] + LaneValues * g[q + 1] ELSE 0]
           from == CHOOSE g : g = F(g)
<1>1. P \in Nat /\ ProfileIds = 1..P
  BY ProfileCount DEF ProfileIds
<1>2. /\ w \in [1..(P + 1) -> Int] /\ w[P + 1] = 0
      /\ \A q \in ProfileIds : w[q] = f[q] + LaneValues * w[q + 1]
  BY DEF Word
<1>3. Packed(f) = from[1]
  BY DEF Packed
<1> HIDE DEF P
<1>4. \A q \in 1..(P + 1) : q \in ProfileIds \/ (q = P + 1 /\ q \notin ProfileIds)
  <2> SUFFICES ASSUME NEW q \in 1..(P + 1)
               PROVE  q \in ProfileIds \/ (q = P + 1 /\ q \notin ProfileIds)
    OBVIOUS
  <2>1. q \in 1..P \/ q = P + 1
    BY <1>1
  <2>2. P + 1 \notin 1..P
    BY <1>1
  <2> QED BY <1>1, <2>1, <2>2
<1>5. w = F(w)
  <2>1. \A q \in 1..(P + 1) :
          w[q] = IF q \in ProfileIds THEN f[q] + LaneValues * w[q + 1] ELSE 0
    BY <1>2, <1>4
  <2>2. w = [q \in 1..(P + 1) |-> w[q]]
    BY <1>2
  <2> QED BY <2>1, <2>2
<1>6. from = F(from)
  <2> HIDE DEF F
  <2> QED BY <1>5
<1> HIDE DEF from
<1>7. from[P + 1] = 0 /\ \A q \in ProfileIds : from[q] = f[q] + LaneValues * from[q + 1]
  <2>1. \A q \in 1..(P + 1) :
          from[q] = IF q \in ProfileIds THEN f[q] + LaneValues * from[q + 1] ELSE 0
    BY <1>6
  <2> QED BY <1>1, <1>4, <2>1
<1> DEFINE T == {q \in 1..(P + 1) : from[q] = w[q]}
<1>8. P + 1 \in T
  BY <1>1, <1>2, <1>7
<1>9. ASSUME NEW q \in 1..P, q + 1 \in T PROVE q \in T
  BY <1>1, <1>2, <1>7, <1>9
<1>10. \A q \in 1..(P + 1) : q \in T
  <2> HIDE DEF T
  <2> QED BY <1>1, <1>8, <1>9, DownTo
<1>11. 1 \in 1..(P + 1)
  BY <1>1
<1> QED BY <1>2, <1>3, <1>10, <1>11

\* A word has in its lanes what was put there, where it fits in a lane.
LEMMA LaneIs ==
  ASSUME NEW f \in [ProfileIds -> 0..255], NEW q \in ProfileIds
  PROVE  Lane(Packed(f), q) = f[q]
<1> DEFINE P == Len(Profiles)
           x == Packed(f)
           F(g) == [r \in ProfileIds |-> IF r = 1 THEN x ELSE g[r - 1] \div LaneValues]
           down == CHOOSE g : g = F(g)
<1>1. P \in Nat /\ 1 <= P /\ ProfileIds = 1..P
  BY ProfileCount DEF ProfileIds
<1>2. f \in [ProfileIds -> Int]
  OBVIOUS
<1>3. PICK w : Word(f, w)
  BY <1>2, WordExists
<1>4. /\ w \in [1..(P + 1) -> Int] /\ w[P + 1] = 0
      /\ \A r \in ProfileIds : w[r] = f[r] + LaneValues * w[r + 1]
  BY <1>3 DEF Word
<1>5. Lane(x, q) = down[q] % LaneValues
  BY DEF Lane
<1>6. x = w[1]
  BY <1>2, <1>3, WordIs
<1> HIDE DEF P, x
<1>7. \A r \in ProfileIds : w[r] \div LaneValues = w[r + 1] /\ w[r] % LaneValues = f[r]
  <2> SUFFICES ASSUME NEW r \in ProfileIds
               PROVE  w[r] \div LaneValues = w[r + 1] /\ w[r] % LaneValues = f[r]
    OBVIOUS
  <2>1. w[r] \in Int /\ w[r + 1] \in Int /\ f[r] \in 0..255 /\ w[r] = f[r] + 256 * w[r + 1]
    BY <1>1, <1>4 DEF LaneValues
  <2> DEFINE a == f[r]
             y == w[r + 1]
  <2>2. a \in 0..255 /\ y \in Int /\ w[r] = a + 256 * y
    BY <2>1
  <2> HIDE DEF a, y
  <2>3. (a + 256 * y) \div 256 = y /\ (a + 256 * y) % 256 = a
    BY <2>2
  <2> QED BY <2>2, <2>3 DEF LaneValues, a, y
<1> DEFINE d == [r \in ProfileIds |-> w[r]]
<1>8. d = F(d)
  <2>1. \A r \in ProfileIds : w[r] = IF r = 1 THEN x ELSE d[r - 1] \div LaneValues
    <3> SUFFICES ASSUME NEW r \in ProfileIds, r # 1 PROVE w[r] = d[r - 1] \div LaneValues
      BY <1>6
    <3>1. r - 1 \in ProfileIds /\ (r - 1) + 1 = r
      BY <1>1
    <3> QED BY <1>7, <3>1
  <2> QED BY <2>1
<1>9. down = F(down)
  <2> HIDE DEF F, d
  <2> QED BY <1>8
<1> HIDE DEF down, d
<1>10. \A r \in ProfileIds : down[r] = IF r = 1 THEN x ELSE down[r - 1] \div LaneValues
  BY <1>9
<1> DEFINE T == {j \in 0..P : j = 0 \/ down[j] = w[j]}
<1>11. ASSUME NEW j \in 1..P, j - 1 \in T PROVE j \in T
  <2>1. CASE j = 1
    BY <1>1, <1>6, <1>10, <2>1
  <2>2. CASE j # 1
    <3>1. j - 1 \in ProfileIds /\ j \in ProfileIds /\ (j - 1) + 1 = j /\ down[j - 1] = w[j - 1]
      BY <1>1, <1>11, <2>2
    <3>2. down[j] = w[j]
      BY <1>7, <1>10, <2>2, <3>1
    <3> QED BY <3>2
  <2> QED BY <2>1, <2>2
<1>12. \A j \in 0..P : j \in T
  <2>1. 0 \in T
    BY <1>1
  <2> HIDE DEF T
  <2> QED BY <1>1, <1>11, <2>1, CountingUp
<1>13. down[q] = w[q]
  BY <1>1, <1>12
<1> QED BY <1>5, <1>7, <1>13 DEF x

\* The difference of two words is the word of the differences.
LEMMA PackedMinus ==
  ASSUME NEW f \in [ProfileIds -> Int], NEW g \in [ProfileIds -> Int]
  PROVE  Packed(f) - Packed(g) = Packed([q \in ProfileIds |-> f[q] - g[q]])
<1> DEFINE P == Len(Profiles)
           h == [q \in ProfileIds |-> f[q] - g[q]]
<1>1. P \in Nat /\ 1 <= P /\ ProfileIds = 1..P
  BY ProfileCount DEF ProfileIds
<1>2. PICK v : Word(f, v)
  BY WordExists
<1>3. PICK w : Word(g, w)
  BY WordExists
<1> DEFINE d == [q \in 1..(P + 1) |-> v[q] - w[q]]
<1>4. /\ v \in [1..(P + 1) -> Int] /\ v[P + 1] = 0
      /\ \A q \in ProfileIds : v[q] = f[q] + LaneValues * v[q + 1]
  BY <1>2 DEF Word
<1>5. /\ w \in [1..(P + 1) -> Int] /\ w[P + 1] = 0
      /\ \A q \in ProfileIds : w[q] = g[q] + LaneValues * w[q + 1]
  BY <1>3 DEF Word
<1>6. Packed(f) = v[1] /\ Packed(g) = w[1]
  BY <1>2, <1>3, WordIs
<1>7. h \in [ProfileIds -> Int]
  OBVIOUS
<1>8. Word(h, d)
  <2> HIDE DEF P
  <2>1. d \in [1..(P + 1) -> Int] /\ d[P + 1] = 0
    <3>1. \A q \in 1..(P + 1) : v[q] - w[q] \in Int
      BY <1>4, <1>5
    <3>2. d \in [1..(P + 1) -> Int]
      BY <3>1
    <3>3. P + 1 \in 1..(P + 1)
      BY <1>1
    <3> QED BY <1>4, <1>5, <3>2, <3>3
  <2>2. ASSUME NEW q \in ProfileIds PROVE d[q] = h[q] + LaneValues * d[q + 1]
    <3>1. q \in 1..(P + 1) /\ q + 1 \in 1..(P + 1)
      BY <1>1
    <3>2. /\ v[q] \in Int /\ w[q] \in Int /\ v[q + 1] \in Int /\ w[q + 1] \in Int
          /\ f[q] \in Int /\ g[q] \in Int
      BY <1>4, <1>5, <3>1
    <3>3. v[q] - w[q] = (f[q] - g[q]) + 256 * (v[q + 1] - w[q + 1])
      BY <1>4, <1>5, <3>2 DEF LaneValues
    <3> QED BY <3>1, <3>3 DEF LaneValues
  <2> HIDE DEF d, h
  <2> QED BY <2>1, <2>2 DEF Word, P
<1>9. 1 \in 1..(P + 1)
  BY <1>1
<1>10. Packed(h) = d[1]
  <2> HIDE DEF h, d
  <2> QED BY <1>7, <1>8, WordIs
<1> QED BY <1>6, <1>9, <1>10

\* A multiple of a word is the word of the multiples.
LEMMA PackedTimes ==
  ASSUME NEW f \in [ProfileIds -> Int], NEW k \in Int
  PROVE  k * Packed(f) = Packed([q \in ProfileIds |-> k * f[q]])
<1> DEFINE P == Len(Profiles)
           h == [q \in ProfileIds |-> k * f[q]]
<1>1. P \in Nat /\ 1 <= P /\ ProfileIds = 1..P
  BY ProfileCount DEF ProfileIds
<1>2. PICK v : Word(f, v)
  BY WordExists
<1> DEFINE d == [q \in 1..(P + 1) |-> k * v[q]]
<1>3. /\ v \in [1..(P + 1) -> Int] /\ v[P + 1] = 0
      /\ \A q \in ProfileIds : v[q] = f[q] + LaneValues * v[q + 1]
  BY <1>2 DEF Word
<1>4. Packed(f) = v[1]
  BY <1>2, WordIs
<1>5. h \in [ProfileIds -> Int]
  OBVIOUS
<1>6. Word(h, d)
  <2> HIDE DEF P
  <2>1. \A q \in 1..(P + 1) : k * v[q] \in Int
    BY <1>3
  <2>2. d \in [1..(P + 1) -> Int]
    BY <2>1
  <2>3. d[P + 1] = 0
    <3>1. P + 1 \in 1..(P + 1) /\ k * 0 = 0
      BY <1>1
    <3> QED BY <1>3, <3>1
  <2>4. ASSUME NEW q \in ProfileIds PROVE d[q] = h[q] + LaneValues * d[q + 1]
    <3>1. q \in 1..(P + 1) /\ q + 1 \in 1..(P + 1)
      BY <1>1
    <3>2. v[q + 1] \in Int /\ f[q] \in Int
      BY <1>3, <3>1
    <3>3. \A a, b \in Int : k * (a + 256 * b) = k * a + 256 * (k * b)
      OBVIOUS
    <3>4. k * v[q] = k * f[q] + 256 * (k * v[q + 1])
      BY <1>3, <3>2, <3>3 DEF LaneValues
    <3> QED BY <3>1, <3>4 DEF LaneValues
  <2> HIDE DEF d, h
  <2> QED BY <2>2, <2>3, <2>4 DEF Word, P
<1>7. 1 \in 1..(P + 1)
  BY <1>1
<1>8. Packed(h) = d[1]
  <2> HIDE DEF h, d
  <2> QED BY <1>5, <1>6, WordIs
<1> QED BY <1>4, <1>7, <1>8

\* A word is an integer.
LEMMA PackedInt ==
  ASSUME NEW f \in [ProfileIds -> Int]
  PROVE  Packed(f) \in Int
<1>1. PICK w : Word(f, w)
  BY WordExists
<1> QED BY <1>1, WordIs

\* The high bits of a word.
LEMMA HighIs ==
  ASSUME NEW f \in [ProfileIds -> 0..255]
  PROVE  HighOf(Packed(f)) = Packed([q \in ProfileIds |-> IF f[q] < LaneHigh THEN 0 ELSE LaneHigh])
<1> DEFINE x == Packed(f)
<1>1. \A q \in ProfileIds : Lane(x, q) = f[q]
  BY LaneIs
<1>2. [q \in ProfileIds |-> IF Lane(x, q) < LaneHigh THEN 0 ELSE LaneHigh]
        = [q \in ProfileIds |-> IF f[q] < LaneHigh THEN 0 ELSE LaneHigh]
  BY <1>1
<1> QED BY <1>2 DEF HighOf

\* And the word with its high bits set.
LEMMA WithHighIs ==
  ASSUME NEW f \in [ProfileIds -> 0..127]
  PROVE  WithHigh(Packed(f)) = Packed([q \in ProfileIds |-> f[q] + LaneHigh])
<1> DEFINE x == Packed(f)
<1>1. f \in [ProfileIds -> 0..255]
  OBVIOUS
<1>2. \A q \in ProfileIds : Lane(x, q) = f[q] /\ f[q] < LaneHigh
  BY <1>1, LaneIs DEF LaneHigh
<1>3. [q \in ProfileIds |-> IF Lane(x, q) < LaneHigh THEN Lane(x, q) + LaneHigh ELSE Lane(x, q)]
        = [q \in ProfileIds |-> f[q] + LaneHigh]
  BY <1>2
<1> QED BY <1>3 DEF WithHigh

\* No lane borrows from its neighbour: a comparison holds in the lanes where it
\* holds of what is in them.
LEMMA LaneGeIs ==
  ASSUME NEW f \in [ProfileIds -> 0..127], NEW g \in [ProfileIds -> 0..128]
  PROVE  LaneGe(Packed(f), Packed(g))
           = Packed([q \in ProfileIds |-> IF f[q] >= g[q] THEN LaneHigh ELSE 0])
<1> DEFINE h == [q \in ProfileIds |-> f[q] + LaneHigh]
           d == [q \in ProfileIds |-> h[q] - g[q]]
<1>1. \A q \in ProfileIds : f[q] \in 0..127 /\ g[q] \in 0..128
  OBVIOUS
<1>2. h \in [ProfileIds -> Int] /\ g \in [ProfileIds -> Int]
  BY <1>1 DEF LaneHigh
<1>3. WithHigh(Packed(f)) = Packed(h)
  BY WithHighIs
<1>4. Packed(h) - Packed(g) = Packed(d)
  <2> HIDE DEF h
  <2> QED BY <1>2, PackedMinus
<1>5. ASSUME NEW q \in ProfileIds
      PROVE  /\ d[q] = f[q] + 128 - g[q] /\ d[q] \in 0..255
             /\ d[q] < LaneHigh <=> ~(f[q] >= g[q])
  <2>1. d[q] = f[q] + 128 - g[q]
    BY DEF LaneHigh
  <2> DEFINE a == f[q]
             b == g[q]
  <2>2. a \in 0..127 /\ b \in 0..128
    BY <1>1
  <2> HIDE DEF a, b
  <2>3. a + 128 - b \in 0..255 /\ (a + 128 - b < 128 <=> ~(a >= b))
    BY <2>2
  <2> HIDE DEF d
  <2> QED BY <2>1, <2>3 DEF LaneHigh, a, b
<1>6. d \in [ProfileIds -> 0..255]
  <2>1. d = [q \in ProfileIds |-> d[q]]
    OBVIOUS
  <2> HIDE DEF d
  <2> QED BY <1>5, <2>1
<1>7. HighOf(Packed(d)) = Packed([q \in ProfileIds |-> IF d[q] < LaneHigh THEN 0 ELSE LaneHigh])
  <2> HIDE DEF d
  <2> QED BY <1>6, HighIs
<1>8. [q \in ProfileIds |-> IF d[q] < LaneHigh THEN 0 ELSE LaneHigh]
        = [q \in ProfileIds |-> IF f[q] >= g[q] THEN LaneHigh ELSE 0]
  <2> HIDE DEF d
  <2> QED BY <1>5
<1> QED BY <1>3, <1>4, <1>7, <1>8 DEF LaneGe

\* The minimum takes each lane from the right word.
LEMMA LaneMinIs ==
  ASSUME NEW f \in [ProfileIds -> 0..127], NEW g \in [ProfileIds -> 0..127]
  PROVE  LaneMin(Packed(f), Packed(g)) = Packed([q \in ProfileIds |-> Smaller(f[q], g[q])])
<1> DEFINE bit == [q \in ProfileIds |-> IF f[q] >= g[q] THEN 1 ELSE 0]
           full == [q \in ProfileIds |-> (LaneValues - 1) * bit[q]]
           m == (LaneGe(Packed(f), Packed(g)) \div LaneHigh) * (LaneValues - 1)
<1>1. \A q \in ProfileIds : f[q] \in 0..127 /\ g[q] \in 0..127
  OBVIOUS
<1>2. g \in [ProfileIds -> 0..128] /\ f \in [ProfileIds -> 0..255] /\ g \in [ProfileIds -> 0..255]
  BY <1>1
<1>3. bit \in [ProfileIds -> Int] /\ \A q \in ProfileIds : bit[q] \in {0, 1}
  OBVIOUS
<1>4. LaneGe(Packed(f), Packed(g)) = 128 * Packed(bit)
  <2>1. LaneGe(Packed(f), Packed(g))
          = Packed([q \in ProfileIds |-> IF f[q] >= g[q] THEN LaneHigh ELSE 0])
    BY <1>2, LaneGeIs
  <2>2. [q \in ProfileIds |-> IF f[q] >= g[q] THEN LaneHigh ELSE 0]
          = [q \in ProfileIds |-> 128 * bit[q]]
    BY DEF LaneHigh
  <2>3. 128 * Packed(bit) = Packed([q \in ProfileIds |-> 128 * bit[q]])
    <3> HIDE DEF bit
    <3> QED BY <1>3, PackedTimes
  <2> QED BY <2>1, <2>2, <2>3
<1>5. m = Packed(full)
  <2> HIDE DEF bit
  <2>1. Packed(bit) \in Int
    BY <1>3, PackedInt
  <2>2. \A a \in Int : (128 * a) \div 128 = a
    OBVIOUS
  <2>3. m = Packed(bit) * 255
    BY <1>4, <2>1, <2>2 DEF LaneHigh, LaneValues
  <2>4. LaneValues - 1 = 255
    BY DEF LaneValues
  <2>5. 255 * Packed(bit) = Packed([q \in ProfileIds |-> 255 * bit[q]])
    BY <1>3, PackedTimes
  <2> QED BY <2>1, <2>3, <2>4, <2>5
<1>6. \A q \in ProfileIds : full[q] = IF f[q] >= g[q] THEN 255 ELSE 0
  BY DEF LaneValues
<1>7. full \in [ProfileIds -> 0..255]
  <2>1. \A q \in ProfileIds : full[q] \in 0..255
    <3> HIDE DEF full
    <3> QED BY <1>6
  <2>2. full = [q \in ProfileIds |-> full[q]]
    OBVIOUS
  <2> HIDE DEF full
  <2> QED BY <2>1, <2>2
<1> HIDE DEF bit, full, m
<1>8. \A q \in ProfileIds : /\ Lane(m, q) = full[q]
                            /\ Lane(Packed(f), q) = f[q] /\ Lane(Packed(g), q) = g[q]
  BY <1>2, <1>5, <1>7, LaneIs
<1>9. [q \in ProfileIds |-> IF Lane(m, q) = 0 THEN Lane(Packed(f), q) ELSE Lane(Packed(g), q)]
        = [q \in ProfileIds |-> Smaller(f[q], g[q])]
  <2>1. \A q \in ProfileIds : full[q] = 0 <=> ~(f[q] >= g[q])
    BY <1>6
  <2>2. \A q \in ProfileIds :
          (IF Lane(m, q) = 0 THEN Lane(Packed(f), q) ELSE Lane(Packed(g), q)) = Smaller(f[q], g[q])
    BY <1>1, <1>8, <2>1 DEF Smaller
  <2> QED BY <2>2
<1> QED BY <1>9 DEF LaneMin, m

\* A comparison of words with a constant in each lane.
LEMMA ComparedWith ==
  ASSUME NEW f \in [ProfileIds -> 0..127], NEW k \in 0..128, NEW q \in ProfileIds
  PROVE  Lane(LaneGe(Packed(f), k * OnesWord), q) # 0 <=> f[q] >= k
<1> DEFINE ones == [r \in ProfileIds |-> 1]
           g == [r \in ProfileIds |-> k]
           h == [r \in ProfileIds |-> IF f[r] >= k THEN LaneHigh ELSE 0]
<1>1. k * OnesWord = Packed(g)
  <2>1. k * Packed(ones) = Packed([r \in ProfileIds |-> k * ones[r]])
    <3>1. ones \in [ProfileIds -> Int] /\ k \in Int
      OBVIOUS
    <3> HIDE DEF ones
    <3> QED BY <3>1, PackedTimes
  <2>2. [r \in ProfileIds |-> k * ones[r]] = g
    OBVIOUS
  <2> QED BY <2>1, <2>2 DEF OnesWord
<1>2. LaneGe(Packed(f), Packed(g)) = Packed(h)
  <2>1. g \in [ProfileIds -> 0..128] /\ \A r \in ProfileIds : g[r] = k
    OBVIOUS
  <2> HIDE DEF g
  <2>2. LaneGe(Packed(f), Packed(g))
          = Packed([r \in ProfileIds |-> IF f[r] >= g[r] THEN LaneHigh ELSE 0])
    BY <2>1, LaneGeIs
  <2>3. [r \in ProfileIds |-> IF f[r] >= g[r] THEN LaneHigh ELSE 0] = h
    BY <2>1
  <2> QED BY <2>2, <2>3
<1>3. h \in [ProfileIds -> 0..255] /\ (h[q] # 0 <=> f[q] >= k)
  BY DEF LaneHigh
<1>4. Lane(Packed(h), q) = h[q]
  <2> HIDE DEF h
  <2> QED BY <1>3, LaneIs
<1> HIDE DEF g, h
<1> QED BY <1>1, <1>2, <1>3, <1>4

\* Wherever the scan accounts for a byte, the words of the code decide what the
\* lanes kept apart decide.
THEOREM ScanLanes == Spec => []LanesExact
<1>1. ScanInv => LanesExact
  <2> SUFFICES ASSUME ScanInv, Running, i < Limit, Current \in Representable \ (seen \cup Plain)
               PROVE  LET word   == ViableWord(Current)
                          viable == ViableWith(Current)
                      IN  /\ LaneMin(Packed(min_donor), RankWord(Current))
                               = Packed(MinDonorWith(Current))
                          /\ \A q \in ProfileIds : Lane(word, q) # 0 <=> q \in viable
                          /\ viable # {} => LowestLane(word) = Min(viable)
    BY DEF LanesExact
  <2> DEFINE word == ViableWord(Current)
             viable == ViableWith(Current)
             k == Cardinality(mask)
             n == Len(RSet)
             ranks == [q \in ProfileIds |-> Rank(q, Current)]
             low == MinDonorWith(Current)
  <2>1. n \in 0..127
    <3>1. n \in Nat
      BY BytesAssumption
    <3>2. n < 128
      BY RanksAssumption DEF LaneHigh
    <3> HIDE DEF n
    <3> QED BY <3>1, <3>2
  <2>2. /\ min_donor \in [ProfileIds -> 0..127]
        /\ k \in 0..127
    <3>1. min_donor \in [ProfileIds -> 0..n] /\ mask \in SUBSET RSetBytes
      BY StateFacts DEF ScanInv, StateInv
    <3>2. k \in 0..n
      BY <3>1, MaskSize
    <3> HIDE DEF n, k
    <3>3. \A a \in 0..n : a \in 0..127
      BY <2>1
    <3> QED BY <3>1, <3>2, <3>3
  <2>3. ranks \in [ProfileIds -> 0..127]
    <3>1. \A q \in ProfileIds : Rank(q, Current) \in 0..n
      BY RankFacts
    <3> HIDE DEF n
    <3>2. \A a \in 0..n : a \in 0..127
      BY <2>1
    <3> QED BY <3>1, <3>2
  <2>4. low \in [ProfileIds -> 0..127] /\ \A q \in ProfileIds : low[q] = Smaller(min_donor[q], ranks[q])
    <3>1. \A q \in ProfileIds : Smaller(min_donor[q], ranks[q]) \in 0..127
      BY <2>2, <2>3 DEF Smaller
    <3> QED BY <3>1 DEF MinDonorWith
  <2>5. LaneMin(Packed(min_donor), RankWord(Current)) = Packed(low)
    <3>1. LaneMin(Packed(min_donor), Packed(ranks))
            = Packed([q \in ProfileIds |-> Smaller(min_donor[q], ranks[q])])
      <4> HIDE DEF ranks
      <4> QED BY <2>2, <2>3, LaneMinIs
    <3>2. [q \in ProfileIds |-> Smaller(min_donor[q], ranks[q])] = low
      BY DEF MinDonorWith
    <3> QED BY <3>1, <3>2 DEF RankWord
  <2>6. ASSUME NEW q \in ProfileIds PROVE Lane(word, q) # 0 <=> q \in viable
    <3>1. CASE Current \in RSetBytes
      <4>1. word = LaneGe(Packed(min_donor), (k + 1) * OnesWord)
        BY <3>1 DEF ViableWord
      <4>2. k + 1 \in 0..128
        BY <2>2
      <4>3. Lane(LaneGe(Packed(min_donor), (k + 1) * OnesWord), q) # 0 <=> min_donor[q] >= k + 1
        <5> HIDE DEF k
        <5> QED BY <2>2, <4>2, ComparedWith
      <4>4. viable = {p \in ProfileIds : min_donor[p] >= k + 1}
        BY <3>1 DEF ViableWith
      <4> HIDE DEF word, viable
      <4> QED BY <4>1, <4>3, <4>4
    <3>2. CASE Current \notin RSetBytes
      <4>1. word = LaneGe(LaneMin(Packed(min_donor), RankWord(Current)), k * OnesWord)
        BY <3>2 DEF ViableWord
      <4>2. k \in 0..128
        BY <2>2
      <4>3. Lane(LaneGe(Packed(low), k * OnesWord), q) # 0 <=> low[q] >= k
        <5> HIDE DEF k, low
        <5> QED BY <2>4, <4>2, ComparedWith
      <4>4. viable = {p \in ProfileIds : low[p] >= k}
        BY <3>2 DEF ViableWith
      <4> HIDE DEF word, viable, low
      <4> QED BY <2>5, <4>1, <4>3, <4>4
    <3> QED BY <3>1, <3>2
  <2> HIDE DEF word, low, k, n
  <2>7. ASSUME viable # {} PROVE LowestLane(word) = Min(viable)
    <3>1. viable \subseteq ProfileIds /\ ProfileIds \subseteq Nat
      BY DEF ViableWith, ProfileIds
    <3> HIDE DEF viable
    <3>2. Min(viable) \in viable /\ \A p \in viable : Min(viable) <= p
      BY <2>7, <3>1, LeastNat
    <3>3. /\ Min(viable) \in ProfileIds /\ Min(viable) \in Int
          /\ \A q \in ProfileIds : q \in 1..Len(Profiles) /\ q \in Int
      <4>1. Min(viable) \in ProfileIds
        BY <3>1, <3>2
      <4> QED BY <4>1 DEF ProfileIds
    <3> DEFINE lowest(q) == Lane(word, q) # 0 /\ \A r \in 1..(q - 1) : Lane(word, r) = 0
    <3>4. lowest(Min(viable))
      <4>1. ASSUME NEW r \in 1..(Min(viable) - 1) PROVE Lane(word, r) = 0
        <5>1. Min(viable) \in 1..Len(Profiles) /\ Len(Profiles) \in Nat
          BY <3>1, <3>2, ProfileCount DEF ProfileIds
        <5>2. r \in ProfileIds /\ ~(Min(viable) <= r)
          BY <5>1 DEF ProfileIds
        <5> QED BY <2>6, <3>2, <5>2
      <4> QED BY <2>6, <3>1, <3>2, <4>1
    <3>5. ASSUME NEW q \in ProfileIds, lowest(q) PROVE q = Min(viable)
      <4>1. q \in viable
        BY <2>6, <3>5
      <4>2. Min(viable) <= q
        BY <3>2, <4>1
      <4>3. ~(Min(viable) <= q - 1)
        <5>1. ASSUME Min(viable) <= q - 1 PROVE FALSE
          <6>1. Min(viable) \in 1..(q - 1) /\ Min(viable) \in ProfileIds
            BY <3>3, <5>1
          <6> QED BY <2>6, <3>2, <3>5, <6>1
        <5> QED BY <5>1
      <4>4. q \in Int /\ Min(viable) \in Int
        BY <3>3
      <4> QED BY <4>2, <4>3, <4>4
    <3>6. LowestLane(word) = CHOOSE q \in ProfileIds : lowest(q)
      BY DEF LowestLane
    <3> HIDE DEF lowest
    <3> QED BY <3>3, <3>4, <3>5, <3>6
  <2> QED BY <2>5, <2>6, <2>7 DEF word, low
<1> QED BY <1>1, ScanInvariant, PTL
=============================================================================
