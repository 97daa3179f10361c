----------------------------- MODULE WireProofs -----------------------------
(***************************************************************************)
(* The arithmetic of groups: the two ways of dividing a value into digits  *)
(* agree, digits and value are inverse to each other, and a short last     *)
(* group is accepted and gives back the bytes it was made from, for every  *)
(* base and every number of byte values that satisfy DigitsAssumption.     *)
(* Then what each construct is read as: bytes, and how many; and what the  *)
(* loops over a text compute: its bytes, and the text without white space. *)
(***************************************************************************)
EXTENDS Wire, SequenceTheorems, FiniteSetTheorems, TLAPS

-----------------------------------------------------------------------------
(* Induction and recursion over a range of numbers, stated of sets and     *)
(* functions.                                                              *)

\* A nonempty set of naturals has a smallest element.
LEMMA LeastNat ==
  ASSUME NEW S \in SUBSET Nat, S # {}
  PROVE  \E m \in S : \A x \in S : m <= x
<1> DEFINE R == StrictSubsetOrdering(Nat)
           T == {0..x : x \in S}
<1>1. PICK t \in T : \A u \in T : <<u, t>> \notin R
  <2>1. IsWellFoundedOn(R, FiniteSubsetsOf(Nat))
    BY FS_StrictSubsetOrderingWellFounded
  <2>2. \A x \in S : IsFiniteSet(0..x) /\ 0..x \in SUBSET Nat
    BY FS_Interval
  <2>3. T \subseteq FiniteSubsetsOf(Nat) /\ T # {}
    BY <2>2 DEF FiniteSubsetsOf
  <2> HIDE DEF R, T
  <2> QED BY <2>1, <2>3, WFMin
<1>2. PICK m \in S : t = 0..m
  OBVIOUS
<1>3. ASSUME NEW x \in S, x < m PROVE FALSE
  <2>1. 0..x \in T /\ 0..x \subseteq 0..m /\ 0..x # 0..m /\ 0..m \subseteq Nat
    BY <1>3
  <2> QED BY <1>1, <1>2, <2>1 DEF StrictSubsetOrdering
<1> QED BY <1>3

\* A set that holds 0 and with each number up to n the next holds all of them.
LEMMA CountingUp ==
  ASSUME NEW n \in Nat, NEW T, 0 \in T, \A i \in 1..n : i - 1 \in T => i \in T
  PROVE  \A i \in 0..n : i \in T
<1> DEFINE B == {i \in 0..n : i \notin T}
<1>1. SUFFICES ASSUME B # {} PROVE FALSE
  OBVIOUS
<1>2. B \in SUBSET Nat
  OBVIOUS
<1>3. PICK m \in B : \A x \in B : m <= x
  <2> HIDE DEF B
  <2> QED BY <1>1, <1>2, LeastNat
<1>4. m \in 0..n /\ m \notin T
  OBVIOUS
<1>5. m \in 1..n /\ m - 1 \in 0..n /\ ~(m <= m - 1)
  BY <1>4
<1>6. m - 1 \in T
  BY <1>3, <1>5
<1> QED BY <1>4, <1>5, <1>6

\* k begins with b, and each of its values up to that at n gives the next by f.
Recurs(k, n, S, b, f) ==
  k \in [0..n -> S] /\ k[0] = b /\ \A i \in 1..n : k[i] = f[<<i, k[i - 1]>>]

\* There is such a function.
LEMMA Recursion ==
  ASSUME NEW n \in Nat, NEW S, NEW b \in S, NEW f \in [(1..n) \X S -> S]
  PROVE  \E k : Recurs(k, n, S, b, f)
<1> DEFINE upTo(k, m) == k[0] = b /\ \A i \in 1..m : k[i] = f[<<i, k[i - 1]>>]
           T == {m \in 0..n : \E k \in [0..m -> S] : upTo(k, m)}
<1>1. 0 \in T
  <2> DEFINE g == [i \in 0..0 |-> b]
  <2>1. g \in [0..0 -> S] /\ upTo(g, 0)
    OBVIOUS
  <2> HIDE DEF g
  <2> QED BY <2>1
<1>2. ASSUME NEW i \in 1..n, i - 1 \in T PROVE i \in T
  <2>1. PICK k \in [0..(i - 1) -> S] : upTo(k, i - 1)
    BY <1>2
  <2> DEFINE g == [j \in 0..i |-> IF j = i THEN f[<<i, k[i - 1]>>] ELSE k[j]]
  <2>2. k[i - 1] \in S /\ f[<<i, k[i - 1]>>] \in S
    OBVIOUS
  <2>3. g \in [0..i -> S]
    BY <2>2
  <2>4. g[0] = b /\ g[i] = f[<<i, k[i - 1]>>] /\ \A j \in 0..(i - 1) : g[j] = k[j]
    BY <2>1
  <2> HIDE DEF g
  <2>5. \A j \in 1..i : g[j] = f[<<j, g[j - 1]>>]
    <3> SUFFICES ASSUME NEW j \in 1..i PROVE g[j] = f[<<j, g[j - 1]>>]
      OBVIOUS
    <3>1. j - 1 \in 0..(i - 1) /\ g[j - 1] = k[j - 1]
      BY <2>4
    <3>2. CASE j = i
      BY <2>4, <3>1, <3>2
    <3>3. CASE j # i
      BY <2>1, <2>4, <3>1, <3>3
    <3> QED BY <3>2, <3>3
  <2> QED BY <2>3, <2>4, <2>5
<1> HIDE DEF T
<1>3. n \in T
  BY <1>1, <1>2, CountingUp
<1> QED BY <1>3 DEF T, Recurs

\* It is the function a recursive definition chooses.
LEMMA RecursFunction ==
  ASSUME NEW n \in Nat, NEW S, NEW b, NEW f, NEW k, Recurs(k, n, S, b, f)
  PROVE  k = [i \in 0..n |-> IF i = 0 THEN b ELSE f[<<i, k[i - 1]>>]]
<1> DEFINE g == [i \in 0..n |-> IF i = 0 THEN b ELSE f[<<i, k[i - 1]>>]]
<1>1. k \in [0..n -> S] /\ k[0] = b /\ \A i \in 1..n : k[i] = f[<<i, k[i - 1]>>]
  BY DEF Recurs
<1>2. ASSUME NEW i \in 0..n PROVE k[i] = g[i]
  <2>1. CASE i = 0
    BY <1>1, <2>1
  <2>2. CASE i # 0
    <3>1. i \in 1..n
      BY <2>2
    <3> QED BY <1>1, <2>2, <3>1
  <2> QED BY <2>1, <2>2
<1>3. k = [i \in 0..n |-> k[i]] /\ g = [i \in 0..n |-> g[i]]
  BY <1>1
<1> HIDE DEF g
<1>4. k = g
  BY <1>2, <1>3
<1> QED BY <1>4 DEF g

\* A function of which each value gives the next by f has its values in S.
LEMMA RecursType ==
  ASSUME NEW n \in Nat, NEW S, NEW b \in S, NEW k, k[0] = b,
         \A i \in 1..n : k[i - 1] \in S => k[i] \in S
  PROVE  \A i \in 0..n : k[i] \in S
<1> DEFINE T == {i \in 0..n : k[i] \in S}
<1>1. 0 \in T
  OBVIOUS
<1>2. \A i \in 1..n : i - 1 \in T => i \in T
  <2> SUFFICES ASSUME NEW i \in 1..n, i - 1 \in T PROVE i \in T
    OBVIOUS
  <2> QED OBVIOUS
<1> HIDE DEF T
<1>3. \A i \in 0..n : i \in T
  BY <1>1, <1>2, CountingUp
<1> QED BY <1>3 DEF T

-----------------------------------------------------------------------------
(* The runs of Base85N exist and are what their loops count.               *)

\* Smaller and Larger pick one of their arguments.
LEMMA SmallerLarger ==
  ASSUME NEW a \in Int, NEW b \in Int
  PROVE  /\ Smaller(a, b) \in Int /\ Smaller(a, b) <= a /\ Smaller(a, b) <= b
         /\ Smaller(a, b) = a \/ Smaller(a, b) = b
         /\ Larger(a, b) \in Int /\ Larger(a, b) >= a /\ Larger(a, b) >= b
         /\ Larger(a, b) = a \/ Larger(a, b) = b
BY DEF Smaller, Larger

\* The run at p has at least one byte, stays in the input and in a signal's length
\* field, and is a run.
LEMMA FillRunFacts ==
  ASSUME NEW d \in Seq(Byte), NEW p \in 0..(Len(d) - 1)
  PROVE  /\ FillRun(d, p) \in 1..(Len(d) - p) /\ FillRun(d, p) <= MaxFill
         /\ \A j \in 1..FillRun(d, p) : d[p + j] = d[p + 1]
<1> DEFINE limit == Smaller(Len(d) - p, MaxFill)
           ends(i) == i = limit \/ d[p + i + 1] # d[p + 1]
           run(i) == ends(i) /\ \A j \in 1..(i - 1) : d[p + j + 1] = d[p + 1]
           S == {i \in 1..limit : ends(i)}
<1>1. limit \in 1..(Len(d) - p) /\ limit <= MaxFill /\ MaxFill \in Nat
  BY ThresholdsAssumption DEF Smaller
<1>2. PICK m \in S : \A x \in S : m <= x
  <2>1. S \in SUBSET Nat /\ limit \in S
    BY <1>1
  <2> QED BY <2>1, LeastNat, Zenon
<1>3. \A j \in 1..(m - 1) : d[p + j + 1] = d[p + 1]
  <2> SUFFICES ASSUME NEW j \in 1..(m - 1), d[p + j + 1] # d[p + 1] PROVE FALSE
    OBVIOUS
  <2>1. j \in S
    BY <1>1, <1>2
  <2> QED BY <1>1, <1>2, <2>1
<1>4. m \in 1..limit /\ run(m)
  BY <1>2, <1>3
<1>5. FillRun(d, p) = CHOOSE i \in 1..limit : run(i)
  BY Zenon DEF FillRun
<1>6. FillRun(d, p) \in 1..limit /\ run(FillRun(d, p))
  <2> HIDE DEF run, limit
  <2> QED BY <1>4, <1>5, Zenon
<1>7. ASSUME NEW j \in 2..FillRun(d, p) PROVE d[p + j] = d[p + 1]
  <2> DEFINE i == j - 1
  <2>1. i \in 1..(FillRun(d, p) - 1) /\ p + i + 1 = p + j
    BY <1>1, <1>6
  <2>2. d[p + i + 1] = d[p + 1]
    BY <1>6, <2>1
  <2> QED BY <2>1, <2>2
<1> QED BY <1>1, <1>6, <1>7, SMTT(30)

\* The zero run at p stays in the input and in its length field, and is one of zeros.
LEMMA ZeroRunFacts ==
  ASSUME NEW d \in Seq(Byte), NEW p \in 0..Len(d)
  PROVE  /\ ZeroRun(d, p) \in 0..(Len(d) - p) /\ ZeroRun(d, p) <= MaxTailZeros
         /\ \A j \in 1..ZeroRun(d, p) : d[p + j] = Zero
<1> DEFINE limit == Smaller(Len(d) - p, MaxTailZeros)
           ends(i) == i = limit \/ d[p + i + 1] # Zero
           run(i) == ends(i) /\ \A j \in 0..(i - 1) : d[p + j + 1] = Zero
           S == {i \in 0..limit : ends(i)}
<1>1. limit \in 0..(Len(d) - p) /\ limit <= MaxTailZeros /\ MaxTailZeros \in Nat
  BY ThresholdsAssumption DEF Smaller
<1>2. PICK m \in S : \A x \in S : m <= x
  <2>1. S \in SUBSET Nat /\ limit \in S
    BY <1>1
  <2> QED BY <2>1, LeastNat, Zenon
<1>3. \A j \in 0..(m - 1) : d[p + j + 1] = Zero
  <2> SUFFICES ASSUME NEW j \in 0..(m - 1), d[p + j + 1] # Zero PROVE FALSE
    OBVIOUS
  <2>1. j \in S
    BY <1>1, <1>2
  <2> QED BY <1>1, <1>2, <2>1
<1>4. m \in 0..limit /\ run(m)
  BY <1>2, <1>3
<1>5. ZeroRun(d, p) = CHOOSE i \in 0..limit : run(i)
  BY Zenon DEF ZeroRun
<1>6. ZeroRun(d, p) \in 0..limit /\ run(ZeroRun(d, p))
  <2> HIDE DEF run, limit
  <2> QED BY <1>4, <1>5, Zenon
<1>7. ASSUME NEW j \in 1..ZeroRun(d, p) PROVE d[p + j] = Zero
  <2> DEFINE i == j - 1
  <2>1. i \in 0..(ZeroRun(d, p) - 1) /\ p + i + 1 = p + j
    BY <1>1, <1>6
  <2>2. d[p + i + 1] = Zero
    BY <1>6, <2>1
  <2> QED BY <2>1, <2>2
<1> QED BY <1>1, <1>6, <1>7

\* A passthrough candidate stays in the input, and nothing ends it earlier.
LEMMA DpLenFacts ==
  ASSUME NEW d \in Seq(Byte), NEW p \in 0..Len(d)
  PROVE  /\ DpLen(d, p) \in 0..(Len(d) - p) /\ DpLen(d, p) <= MaxDpSegment
         /\ \A j \in 0..(DpLen(d, p) - 1) : ~DpEnds(d, p, j)
<1> DEFINE first(i) == DpEnds(d, p, i) /\ \A j \in 0..(i - 1) : ~DpEnds(d, p, j)
           limit == DpLimit(d, p)
           S == {i \in 0..limit : DpEnds(d, p, i)}
<1>1. limit \in 0..(Len(d) - p) /\ limit <= MaxDpSegment /\ MaxDpSegment \in Nat
  BY ThresholdsAssumption DEF DpLimit, Smaller
<1>2. PICK m \in S : \A x \in S : m <= x
  <2>1. DpEnds(d, p, limit)
    BY DEF DpEnds
  <2>2. S \in SUBSET Nat /\ limit \in S
    BY <1>1, <2>1
  <2> QED BY <2>2, LeastNat, Zenon
<1>3. \A j \in 0..(m - 1) : ~DpEnds(d, p, j)
  <2> SUFFICES ASSUME NEW j \in 0..(m - 1), DpEnds(d, p, j) PROVE FALSE
    OBVIOUS
  <2>1. j \in S
    BY <1>1, <1>2
  <2> QED BY <1>1, <1>2, <2>1
<1>4. m \in 0..limit /\ first(m)
  BY <1>2, <1>3
<1>5. DpLen(d, p) = CHOOSE i \in 0..limit : first(i)
  BY Zenon DEF DpLen
<1>6. DpLen(d, p) \in 0..limit /\ first(DpLen(d, p))
  <2> HIDE DEF first, limit
  <2> QED BY <1>4, <1>5, Zenon
<1> QED BY <1>1, <1>6

-----------------------------------------------------------------------------
(* The units of an input.                                                  *)

\* No Fill and no segment begins at q: the loop would take a block-mode group.
OnlyBlock(d, q) == FillCovers(d, q) = 0 /\ ~(DpLen(d, q) >= MinPassthrough)

\* A Fill stays in the input.
LEMMA FillRange ==
  ASSUME NEW d \in Seq(Byte), NEW p \in 0..(Len(d) - 1)
  PROVE  FillCovers(d, p) \in 0..(Len(d) - p)
<1>1. SolidCovers(d, p) \in 0..(Len(d) - p)
  BY FillRunFacts DEF SolidCovers
<1>2. ZerosFirstCovers(d, p) \in 0..(Len(d) - p)
  BY FillRunFacts, ThresholdsAssumption DEF ZerosFirstCovers, Smaller
<1>3. LiteralsFirstCovers(d, p) \in 0..(Len(d) - p)
  <2>1. CASE Len(d) - p >= 3
    <3>1. p + 2 \in 0..Len(d)
      BY <2>1
    <3>2. ZeroRun(d, p + 2) \in 0..(Len(d) - (p + 2))
      BY <3>1, ZeroRunFacts
    <3> QED BY <2>1, <3>2 DEF LiteralsFirstCovers
  <2>2. CASE ~(Len(d) - p >= 3)
    BY <2>2 DEF LiteralsFirstCovers
  <2> QED BY <2>1, <2>2
<1> QED BY <1>1, <1>2, <1>3 DEF FillCovers

\* Every construct an encoding of d can hold.
Units(d) == {UnitAt(d, p) : p \in 0..(Len(d) - 1)}

\* The construct at p begins at p, is not empty and ends inside the input.
LEMMA UnitFacts ==
  ASSUME NEW d \in Seq(Byte), NEW p \in 0..(Len(d) - 1)
  PROVE  /\ UnitAt(d, p) \in Units(d)
         /\ UnitAt(d, p).at = p
         /\ UnitAt(d, p).len \in 1..(Len(d) - p)
         /\ OnlyBlock(d, p) => UnitAt(d, p) = BlockUnit(d, p)
<1>1. UnitAt(d, p) \in Units(d)
  BY DEF Units
<1>2. CASE FillCovers(d, p) > 0
  <2>1. UnitAt(d, p) = ChooseFill(d, p)
    BY <1>2 DEF UnitAt
  <2>2. ChooseFill(d, p).at = p /\ ChooseFill(d, p).len = FillCovers(d, p)
    BY DEF ChooseFill
  <2> QED BY <1>1, <1>2, <2>1, <2>2, FillRange DEF OnlyBlock
<1>3. CASE ~(FillCovers(d, p) > 0) /\ DpLen(d, p) >= MinPassthrough
  <2> DEFINE len == DpLen(d, p)
             donors == Donors(DpProfile(d, p, len), DpMask(d, p, len))
  <2>1. UnitAt(d, p) = DpUnit(d, p, len, donors)
    BY <1>3 DEF UnitAt
  <2>2. DpUnit(d, p, len, donors).at = p /\ DpUnit(d, p, len, donors).len = len
    BY DEF DpUnit
  <2> QED BY <1>1, <1>3, <2>1, <2>2, DpLenFacts, ThresholdsAssumption DEF OnlyBlock
<1>4. CASE ~(FillCovers(d, p) > 0) /\ ~(DpLen(d, p) >= MinPassthrough)
  <2>1. UnitAt(d, p) = BlockUnit(d, p)
    BY <1>4 DEF UnitAt
  <2>2. BlockUnit(d, p).at = p /\ BlockUnit(d, p).len = Smaller(Len(d) - p, 4)
    BY DEF BlockUnit
  <2> QED BY <1>1, <2>1, <2>2 DEF Smaller
<1> QED BY <1>2, <1>3, <1>4

-----------------------------------------------------------------------------
(* Canonical encodings can be joined and cut at unit boundaries.           *)

\* The empty encoding leads from a position to itself.
LEMMA CanonEmpty ==
  ASSUME NEW d, NEW a PROVE Canon(d, a, <<>>, a)
BY DEF Canon

\* One construct is the canonical encoding of what it covers.
LEMMA CanonUnit ==
  ASSUME NEW d \in Seq(Byte), NEW a \in 0..(Len(d) - 1)
  PROVE  Canon(d, a, <<UnitAt(d, a)>>, a + UnitAt(d, a).len)
<1> DEFINE u == <<UnitAt(d, a)>>
<1>1. Len(u) = 1 /\ u[1] = UnitAt(d, a) /\ u # <<>>
  OBVIOUS
<1>2. u[1].at = a
  BY <1>1, UnitFacts
<1> HIDE DEF u
<1> QED BY <1>1, <1>2 DEF Canon

\* Canonical encodings that meet can be concatenated.
LEMMA CanonConcat ==
  ASSUME NEW d \in Seq(Byte), NEW u \in Seq(Units(d)), NEW v \in Seq(Units(d)),
         NEW a, NEW b, NEW c, Canon(d, a, u, b), Canon(d, b, v, c)
  PROVE  /\ u \o v \in Seq(Units(d))
         /\ Canon(d, a, u \o v, c)
<1> DEFINE w == u \o v
<1>1. /\ w \in Seq(Units(d)) /\ Len(w) = Len(u) + Len(v)
      /\ \A k \in 1..Len(u) : w[k] = u[k]
      /\ \A k \in (Len(u) + 1)..Len(w) : w[k] = v[k - Len(u)]
  OBVIOUS
<1>2. Len(u) = 0 <=> u = <<>>
  OBVIOUS
<1>3. Len(v) = 0 <=> v = <<>>
  OBVIOUS
<1>4. Len(w) = 0 <=> w = <<>>
  OBVIOUS
<1>5. Len(u) \in Nat /\ Len(v) \in Nat
  OBVIOUS
<1> HIDE DEF w
<1>6. ASSUME NEW k \in 1..Len(w)
      PROVE  /\ w[k].at \in 0..(Len(d) - 1)
             /\ w[k] = UnitAt(d, w[k].at)
             /\ w[k].at + w[k].len = (IF k = Len(w) THEN c ELSE w[k + 1].at)
  <2>1. CASE k < Len(u)
    <3>1. k \in 1..Len(u) /\ k + 1 \in 1..Len(u) /\ k # Len(w) /\ k # Len(u)
      BY <1>1, <1>5, <2>1
    <3>2. w[k] = u[k] /\ w[k + 1] = u[k + 1]
      BY <1>1, <3>1
    <3> QED BY <3>1, <3>2 DEF Canon
  <2>2. CASE k = Len(u) /\ Len(v) = 0
    <3>1. k \in 1..Len(u) /\ k = Len(w) /\ w[k] = u[k] /\ b = c
      BY <1>1, <1>3, <1>5, <2>2 DEF Canon
    <3> QED BY <2>2, <3>1 DEF Canon
  <2>3. CASE k = Len(u) /\ Len(v) # 0
    <3>1. /\ k \in 1..Len(u) /\ k # Len(w) /\ w[k] = u[k]
          /\ k + 1 \in (Len(u) + 1)..Len(w) /\ (k + 1) - Len(u) = 1
      BY <1>1, <1>5, <2>3
    <3>2. w[k + 1] = v[1]
      BY <1>1, <3>1
    <3>3. v[1].at = b
      BY <1>3, <2>3 DEF Canon
    <3> QED BY <2>3, <3>1, <3>2, <3>3 DEF Canon
  <2>4. CASE k > Len(u)
    <3> DEFINE j == k - Len(u)
    <3>1. /\ j \in 1..Len(v) /\ w[k] = v[j] /\ (k = Len(w) <=> j = Len(v))
          /\ k # Len(w) => w[k + 1] = v[j + 1]
      <4>1. j \in 1..Len(v) /\ (k = Len(w) <=> j = Len(v)) /\ k \in (Len(u) + 1)..Len(w)
        BY <1>1, <1>5, <2>4
      <4>2. w[k] = v[j]
        BY <1>1, <4>1
      <4>3. ASSUME k # Len(w) PROVE w[k + 1] = v[j + 1]
        <5>1. k + 1 \in (Len(u) + 1)..Len(w) /\ (k + 1) - Len(u) = j + 1
          BY <1>1, <1>5, <4>1, <4>3
        <5>2. w[k + 1] = v[(k + 1) - Len(u)]
          BY <1>1, <5>1
        <5> QED BY <5>1, <5>2
      <4> QED BY <4>1, <4>2, <4>3
    <3> HIDE DEF j
    <3> QED BY <3>1 DEF Canon
  <2> QED BY <1>5, <2>1, <2>2, <2>3, <2>4
<1>7. (IF w = <<>> THEN c ELSE w[1].at) = a
  <2>1. CASE Len(u) # 0
    <3>1. w # <<>> /\ w[1] = u[1]
      BY <1>1, <1>4, <1>5, <2>1
    <3> QED BY <1>2, <2>1, <3>1 DEF Canon
  <2>2. CASE Len(u) = 0
    <3>1. a = b
      BY <1>2, <2>2 DEF Canon
    <3>2. CASE Len(v) = 0
      BY <1>1, <1>3, <1>4, <2>2, <3>1, <3>2 DEF Canon
    <3>3. CASE Len(v) # 0
      <4>1. w # <<>> /\ w[1] = v[1]
        <5>1. 1 \in (Len(u) + 1)..Len(w) /\ 1 - Len(u) = 1
          BY <1>1, <1>5, <2>2, <3>3
        <5> QED BY <1>1, <1>4, <5>1
      <4> QED BY <1>3, <3>1, <3>3, <4>1 DEF Canon
    <3> QED BY <3>2, <3>3
  <2> QED BY <2>1, <2>2
<1> QED BY <1>1, <1>6, <1>7 DEF Canon, w

\* Where the part of an encoding from offset w on begins.
StartOf(u, w, b) == IF w = Len(u) THEN b ELSE u[w + 1].at

\* What follows offset w of a canonical encoding is one, from where it begins.
LEMMA CanonSuffix ==
  ASSUME NEW d \in Seq(Byte), NEW u \in Seq(Units(d)), NEW a, NEW b,
         Canon(d, a, u, b), NEW w \in 0..Len(u)
  PROVE  /\ SubSeq(u, w + 1, Len(u)) \in Seq(Units(d))
         /\ Canon(d, StartOf(u, w, b), SubSeq(u, w + 1, Len(u)), b)
<1> DEFINE v == SubSeq(u, w + 1, Len(u))
<1>1. /\ v \in Seq(Units(d)) /\ Len(v) = Len(u) - w
      /\ \A k \in 1..Len(v) : v[k] = u[w + k]
  OBVIOUS
<1>2. Len(v) = 0 <=> v = <<>>
  BY <1>1
<1> HIDE DEF v
<1>3. ASSUME NEW k \in 1..Len(v)
      PROVE  /\ v[k].at \in 0..(Len(d) - 1)
             /\ v[k] = UnitAt(d, v[k].at)
             /\ v[k].at + v[k].len = (IF k = Len(v) THEN b ELSE v[k + 1].at)
  <2> DEFINE i == w + k
  <2>1. i \in 1..Len(u) /\ v[k] = u[i] /\ (k = Len(v) <=> i = Len(u))
    BY <1>1
  <2>2. ASSUME k # Len(v) PROVE v[k + 1] = u[i + 1]
    <3>1. k + 1 \in 1..Len(v) /\ w + (k + 1) = i + 1
      BY <1>1, <2>2
    <3>2. v[k + 1] = u[w + (k + 1)]
      BY <1>1, <3>1
    <3> QED BY <3>1, <3>2
  <2> HIDE DEF i
  <2> QED BY <2>1, <2>2 DEF Canon
<1>4. (IF v = <<>> THEN b ELSE v[1].at) = StartOf(u, w, b)
  <2>1. CASE w = Len(u)
    BY <1>1, <1>2, <2>1 DEF StartOf
  <2>2. CASE w # Len(u)
    BY <1>1, <1>2, <2>2 DEF StartOf
  <2> QED BY <2>1, <2>2
<1> QED BY <1>1, <1>3, <1>4 DEF Canon, v

\* The units of an encoding lie, in order, between its ends.
LEMMA CanonBounds ==
  ASSUME NEW d \in Seq(Byte), NEW u \in Seq(Units(d)), NEW a \in Nat, NEW b \in Nat,
         Canon(d, a, u, b)
  PROVE  \A k \in 1..Len(u) :
           u[k].at \in Nat /\ u[k].len \in Nat \ {0} /\ u[k].at >= a /\ u[k].at + u[k].len <= b
<1>1. ASSUME NEW k \in 1..Len(u)
      PROVE  /\ u[k].at \in Nat /\ u[k].len \in Nat \ {0}
             /\ u[k].at + u[k].len = (IF k = Len(u) THEN b ELSE u[k + 1].at)
  <2>1. /\ u[k].at \in 0..(Len(d) - 1) /\ u[k] = UnitAt(d, u[k].at)
        /\ u[k].at + u[k].len = (IF k = Len(u) THEN b ELSE u[k + 1].at)
    BY DEF Canon
  <2> DEFINE p == u[k].at
  <2>2. p \in 0..(Len(d) - 1) /\ u[k].len = UnitAt(d, p).len
    BY <2>1, Zenon
  <2>3. UnitAt(d, p).len \in 1..(Len(d) - p)
    BY <2>2, UnitFacts
  <2> HIDE DEF p
  <2> QED BY <2>1, <2>2, <2>3 DEF p
<1>2. \A k \in 1..Len(u) : u[k].at >= a
  <2> DEFINE S == {k \in 1..Len(u) : ~(u[k].at >= a)}
  <2> SUFFICES ASSUME S # {} PROVE FALSE
    OBVIOUS
  <2>1. PICK m \in S : \A x \in S : m <= x
    <3>1. S \in SUBSET Nat
      OBVIOUS
    <3> QED BY <3>1, LeastNat, Zenon
  <2>2. m # 1
    <3>1. u # <<>>
      BY <2>1
    <3> QED BY <2>1, <3>1 DEF Canon
  <2>3. m - 1 \in 1..Len(u) /\ m - 1 \notin S /\ m - 1 # Len(u) /\ (m - 1) + 1 = m
    BY <2>1, <2>2
  <2>4. /\ u[m - 1].at \in Nat /\ u[m - 1].len \in Nat /\ u[m - 1].at >= a
        /\ u[m - 1].at + u[m - 1].len = u[(m - 1) + 1].at
    BY <1>1, <2>3
  <2>5. u[m].at >= a
    BY <2>3, <2>4
  <2> QED BY <2>1, <2>5
<1>3. \A k \in 1..Len(u) : u[k].at + u[k].len <= b
  <2> DEFINE late(k) == ~(u[k].at + u[k].len <= b)
             S == {j \in 0..(Len(u) - 1) : late(Len(u) - j)}
  <2> SUFFICES ASSUME NEW k \in 1..Len(u), late(k) PROVE FALSE
    OBVIOUS
  <2>1. Len(u) - k \in S
    <3>1. Len(u) - k \in 0..(Len(u) - 1) /\ Len(u) - (Len(u) - k) = k
      OBVIOUS
    <3> QED BY <3>1
  <2>2. PICK m \in S : \A x \in S : m <= x
    <3>1. S \in SUBSET Nat
      OBVIOUS
    <3> QED BY <2>1, <3>1, LeastNat, Zenon
  <2> DEFINE i == Len(u) - m
  <2> HIDE DEF late
  <2>3. i \in 1..Len(u) /\ late(i)
    <3>1. m \in 0..(Len(u) - 1) /\ late(i)
      BY <2>2, Zenon
    <3>2. Len(u) \in Nat
      OBVIOUS
    <3> QED BY <3>1, <3>2
  <2>4. i # Len(u)
    BY <1>1, <2>3 DEF late
  <2>5. i + 1 \in 1..Len(u) /\ m - 1 \in 0..(Len(u) - 1) /\ Len(u) - (m - 1) = i + 1
    BY <2>2, <2>3, <2>4
  <2>6. ~late(i + 1)
    <3>1. m \in Nat
      BY <2>2
    <3>2. ~(m <= m - 1)
      BY <3>1
    <3>3. m - 1 \notin S
      BY <2>2, <3>2, Zenon
    <3> QED BY <2>5, <3>3
  <2>7. u[i].at + u[i].len = u[i + 1].at
    BY <1>1, <2>3, <2>4
  <2>8. /\ u[i].at \in Nat /\ u[i].len \in Nat
        /\ u[i + 1].at \in Nat /\ u[i + 1].len \in Nat
    BY <1>1, <2>3, <2>5
  <2> QED BY <2>3, <2>6, <2>7, <2>8, SMTT(30) DEF late
<1> QED BY <1>1, <1>2, <1>3

\* k[p] is the encoding of what is left of d from p.
Encodes(k, d, a) ==
  /\ k \in [a..Len(d) -> Seq(Units(d))]
  /\ \A p \in a..Len(d) :
       k[p] = IF p = Len(d) THEN <<>>
              ELSE LET u == UnitAt(d, p) IN <<u>> \o k[p + u.len]

\* What is left can be encoded from its end on.
LEMMA EncodesBack ==
  ASSUME NEW d \in Seq(Byte)
  PROVE  \E k : Encodes(k, d, 0)
<1> DEFINE n == Len(d)
           T == {m \in 0..n : \E k : Encodes(k, d, n - m)}
<1>1. n \in Nat
  OBVIOUS
<1>2. 0 \in T
  <2> DEFINE k == [p \in n..n |-> <<>>]
  <2>1. k \in [n..n -> Seq(Units(d))] /\ \A p \in n..n : p = n /\ k[p] = <<>>
    BY <1>1
  <2> HIDE DEF k
  <2>2. Encodes(k, d, n - 0)
    BY <1>1, <2>1 DEF Encodes
  <2> QED BY <1>1, <2>2
<1>3. ASSUME NEW i \in 1..n, i - 1 \in T PROVE i \in T
  <2> DEFINE a == n - i
             u == UnitAt(d, a)
  <2>1. a \in 0..(n - 1) /\ n - (i - 1) = a + 1
    BY <1>1
  <2>2. PICK k : Encodes(k, d, a + 1)
    BY <1>3, <2>1
  <2>3. u \in Units(d) /\ u.len \in 1..(n - a)
    BY <2>1, UnitFacts
  <2> HIDE DEF u, a, n
  <2>4. /\ k \in [(a + 1)..n -> Seq(Units(d))]
        /\ \A p \in (a + 1)..n :
             k[p] = IF p = n THEN <<>>
                    ELSE LET v == UnitAt(d, p) IN <<v>> \o k[p + v.len]
    BY <2>2 DEF Encodes, n
  <2>5. a + u.len \in (a + 1)..n
    BY <1>1, <2>1, <2>3
  <2> DEFINE new == <<u>> \o k[a + u.len]
             g == [p \in a..n |-> IF p = a THEN new ELSE k[p]]
  <2>6. new \in Seq(Units(d))
    <3>1. k[a + u.len] \in Seq(Units(d)) /\ <<u>> \in Seq(Units(d))
      BY <2>3, <2>4, <2>5
    <3> QED BY <3>1, ConcatProperties
  <2>7. g \in [a..n -> Seq(Units(d))]
    <3>1. ASSUME NEW p \in a..n PROVE (IF p = a THEN new ELSE k[p]) \in Seq(Units(d))
      <4>1. p # a => p \in (a + 1)..n
        BY <1>1, <2>1
      <4> HIDE DEF new
      <4> QED BY <2>4, <2>6, <4>1
    <3> HIDE DEF new
    <3> QED BY <3>1
  <2>8. g[a] = new /\ \A p \in (a + 1)..n : g[p] = k[p]
    BY <1>1, <2>1
  <2>9. g[a] = <<u>> \o g[a + u.len]
    BY <2>5, <2>8
  <2> HIDE DEF g, new
  <2>10. ASSUME NEW p \in a..n
         PROVE  g[p] = IF p = n THEN <<>>
                       ELSE LET v == UnitAt(d, p) IN <<v>> \o g[p + v.len]
    <3>1. CASE p = a
      <4>1. p # n /\ UnitAt(d, p) = u
        BY <1>1, <2>1, <3>1 DEF u
      <4> QED BY <2>9, <3>1, <4>1
    <3>2. CASE p # a
      <4>1. p \in (a + 1)..n
        BY <1>1, <2>1, <3>2
      <4>2. p # n => p + UnitAt(d, p).len \in (a + 1)..n
        <5> SUFFICES ASSUME p # n PROVE p + UnitAt(d, p).len \in (a + 1)..n
          OBVIOUS
        <5>1. p \in 0..(n - 1)
          BY <1>1, <2>1, <4>1
        <5>2. UnitAt(d, p).len \in 1..(n - p)
          BY <5>1, UnitFacts DEF n
        <5> QED BY <1>1, <2>1, <4>1, <5>2
      <4> QED BY <2>4, <2>8, <4>1, <4>2
    <3> QED BY <3>1, <3>2
  <2>11. Encodes(g, d, a)
    BY <2>7, <2>10 DEF Encodes, n
  <2>12. i \in 0..n
    BY <1>1
  <2> QED BY <2>11, <2>12 DEF a
<1> HIDE DEF T
<1>4. n \in T
  <2>1. n \in 0..n
    BY <1>1
  <2> HIDE DEF n
  <2>2. \A i \in 1..n : i - 1 \in T => i \in T
    BY <1>3
  <2> QED BY <1>1, <1>2, <2>1, <2>2, CountingUp
<1>5. n - n = 0
  BY <1>1
<1> HIDE DEF n
<1> QED BY <1>4, <1>5 DEF T

\* The encoding of an input is canonical from its start to its end.
LEMMA EncodingCanon ==
  ASSUME NEW d \in Seq(Byte)
  PROVE  Encoding(d) \in Seq(Units(d)) /\ Canon(d, 0, Encoding(d), Len(d))
<1> DEFINE n == Len(d)
           units[p \in 0..n] ==
             IF p = n THEN <<>> ELSE LET u == UnitAt(d, p) IN <<u>> \o units[p + u.len]
<1>1. n \in Nat /\ 0 \in 0..n
  OBVIOUS
<1>2. Encoding(d) = units[0]
  BY DEF Encoding
<1>3. PICK k : Encodes(k, d, 0)
  BY EncodesBack
<1>4. k = [p \in 0..n |-> IF p = n THEN <<>>
                          ELSE LET u == UnitAt(d, p) IN <<u>> \o k[p + u.len]]
  <2> DEFINE g == [p \in 0..n |-> IF p = n THEN <<>>
                                  ELSE LET u == UnitAt(d, p) IN <<u>> \o k[p + u.len]]
  <2>1. /\ k \in [0..n -> Seq(Units(d))]
        /\ \A p \in 0..n : k[p] = IF p = n THEN <<>>
                                  ELSE LET u == UnitAt(d, p) IN <<u>> \o k[p + u.len]
    BY <1>3 DEF Encodes
  <2>2. \A p \in 0..n : k[p] = g[p]
    BY <2>1
  <2>3. k = [p \in 0..n |-> k[p]] /\ g = [p \in 0..n |-> g[p]]
    BY <2>1
  <2> HIDE DEF g
  <2>4. k = g
    BY <2>2, <2>3
  <2> QED BY <2>4 DEF g
<1>5. units = [p \in 0..n |-> IF p = n THEN <<>>
                              ELSE LET u == UnitAt(d, p) IN <<u>> \o units[p + u.len]]
  BY <1>4
<1> HIDE DEF units
<1> DEFINE good(p) == units[p] \in Seq(Units(d)) /\ Canon(d, p, units[p], n)
           T == {m \in 0..n : \A p \in (n - m)..n : good(p)}
<1>6. ASSUME NEW a \in 0..n, \A p \in (a + 1)..n : good(p)
      PROVE  good(a)
  <2>1. CASE a = n
    <3>1. units[a] = <<>>
      BY <1>5, <2>1
    <3>2. Canon(d, a, <<>>, n)
      BY <2>1, CanonEmpty
    <3> QED BY <3>1, <3>2
  <2>2. CASE a # n
    <3> DEFINE u == UnitAt(d, a)
               b == a + u.len
               rest == units[b]
    <3>1. a \in 0..(n - 1)
      BY <1>1, <2>2
    <3>2. u \in Units(d) /\ u.len \in 1..(n - a)
      BY <3>1, UnitFacts
    <3>3. Canon(d, a, <<u>>, b) /\ <<u>> \in Seq(Units(d))
      BY <3>1, <3>2, CanonUnit
    <3>4. b \in (a + 1)..n
      BY <1>1, <3>1, <3>2
    <3>5. units[a] = <<u>> \o rest
      BY <1>5, <2>2
    <3> HIDE DEF u, b, n
    <3>6. rest \in Seq(Units(d)) /\ Canon(d, b, rest, n)
      BY <1>6, <3>4
    <3> HIDE DEF rest
    <3>7. <<u>> \o rest \in Seq(Units(d)) /\ Canon(d, a, <<u>> \o rest, n)
      BY <3>3, <3>6, CanonConcat, ConcatProperties
    <3> QED BY <3>5, <3>7
  <2> QED BY <2>1, <2>2
<1>7. 0 \in T
  <2>1. n \in 0..n /\ \A p \in (n + 1)..n : good(p)
    BY <1>1
  <2> HIDE DEF good
  <2>2. good(n)
    BY <1>6, <2>1
  <2>3. \A p \in (n - 0)..n : p = n
    BY <1>1
  <2> QED BY <1>1, <2>2, <2>3
<1>8. \A i \in 1..n : i - 1 \in T => i \in T
  <2> SUFFICES ASSUME NEW i \in 1..n, i - 1 \in T PROVE i \in T
    OBVIOUS
  <2> HIDE DEF good
  <2>1. n - i \in 0..n /\ (n - i) + 1 = n - (i - 1) /\ i \in 0..n
    BY <1>1
  <2>2. \A p \in ((n - i) + 1)..n : good(p)
    BY <2>1
  <2>3. good(n - i)
    BY <1>6, <2>1, <2>2
  <2>4. \A p \in (n - i)..n : p = n - i \/ p \in ((n - i) + 1)..n
    BY <1>1
  <2> QED BY <2>1, <2>2, <2>3, <2>4
<1>9. good(0)
  <2> HIDE DEF good
  <2>1. n \in T
    <3>1. n \in 0..n
      BY <1>1
    <3> HIDE DEF T, n
    <3> QED BY <1>1, <1>7, <1>8, <3>1, CountingUp
  <2>2. 0 \in (n - n)..n
    BY <1>1
  <2> QED BY <2>1, <2>2
<1> QED BY <1>2, <1>9

-----------------------------------------------------------------------------
(* Division.                                                               *)

\* A product with a factor that is not less than one is not less than the other.
LEMMA TimesOne ==
  ASSUME NEW b \in Nat, NEW k \in Nat \ {0}
  PROVE  b * k >= b
<1>1. PICK j \in Nat : k = j + 1
  BY k - 1 \in Nat
<1>2. b * k = b * j + b
  BY <1>1
<1>3. b * j \in Nat
  OBVIOUS
<1> QED BY <1>2, <1>3

\* Quotient and remainder are unique.
LEMMA DivisionUnique ==
  ASSUME NEW b \in Nat \ {0}, NEW q \in Int, NEW k \in Int,
         NEW r \in 0..(b - 1), NEW m \in 0..(b - 1), b * q + r = b * k + m
  PROVE  q = k /\ r = m
<1>1. ~(k > q)
  <2> SUFFICES ASSUME k > q PROVE FALSE
    OBVIOUS
  <2>1. b * (k - q) >= b
    BY TimesOne, k - q \in Nat \ {0}
  <2>2. b * (k - q) = b * k - b * q
    OBVIOUS
  <2> QED BY <2>1, <2>2
<1>2. ~(q > k)
  <2> SUFFICES ASSUME q > k PROVE FALSE
    OBVIOUS
  <2>1. b * (q - k) >= b
    BY TimesOne, q - k \in Nat \ {0}
  <2>2. b * (q - k) = b * q - b * k
    OBVIOUS
  <2> QED BY <2>1, <2>2
<1>3. q = k
  BY <1>1, <1>2
<1> QED BY <1>3

\* What division gives.
LEMMA DivisionIs ==
  ASSUME NEW v \in Int, NEW b \in Nat \ {0}
  PROVE  /\ v \div b \in Int /\ v % b \in 0..(b - 1)
         /\ v = b * (v \div b) + (v % b)
OBVIOUS

\* Division undoes multiplication, the remainder aside.
LEMMA DivisionOf ==
  ASSUME NEW b \in Nat \ {0}, NEW q \in Int, NEW r \in 0..(b - 1)
  PROVE  (b * q + r) \div b = q /\ (b * q + r) % b = r
<1> DEFINE v == b * q + r
<1>1. v \in Int
  OBVIOUS
<1> HIDE DEF v
<1>2. /\ v \div b \in Int /\ v % b \in 0..(b - 1)
      /\ v = b * (v \div b) + (v % b)
  BY <1>1, DivisionIs
<1>3. v = b * q + r
  BY DEF v
<1>4. q = v \div b /\ r = v % b
  BY <1>2, <1>3, DivisionUnique
<1> QED BY <1>4 DEF v

\* Dividing twice is dividing once by the product.
LEMMA DivisionTwice ==
  ASSUME NEW v \in Nat, NEW a \in Nat \ {0}, NEW b \in Nat \ {0}
  PROVE  (v \div a) \div b = v \div (a * b)
<1> DEFINE q == v \div a  r == v % a
           h == q \div b  s == q % b
<1>1. q \in Int /\ r \in 0..(a - 1) /\ v = a * q + r
  BY DivisionIs
<1>2. h \in Int /\ s \in 0..(b - 1) /\ q = b * h + s
  BY <1>1, DivisionIs
<1> DEFINE n == a * b  m == a * s + r
<1> HIDE DEF q, r, h, s
<1>3. n \in Nat \ {0}
  BY TimesOne
<1>4. v = n * h + m
  <2>1. a * q = a * (b * h) + a * s
    BY <1>1, <1>2
  <2>2. a * (b * h) = n * h
    BY <1>2
  <2> QED BY <1>1, <1>2, <2>1, <2>2
<1>5. m \in 0..(n - 1)
  <2>1. a * s \in Nat /\ a * (b - 1 - s) \in Nat
    BY <1>2
  <2>2. a * (b - 1 - s) = n - a - a * s
    BY <1>2
  <2> QED BY <1>1, <1>2, <2>1, <2>2
<1> HIDE DEF n, m
<1>6. v \div n = h
  BY <1>2, <1>3, <1>4, <1>5, DivisionOf
<1> QED BY <1>6 DEF n, h, q

\* Dividing v by b gives q and leaves r.
Splits(v, b, q, r) ==
  b \in Nat \ {0} /\ q \in Int /\ r \in 0..(b - 1) /\ v = b * q + r

\* Such a splitting is the one division makes.
LEMMA SplitsBy ==
  ASSUME NEW v, NEW b, NEW q, NEW r, Splits(v, b, q, r)
  PROVE  v \div b = q /\ v % b = r
BY DivisionOf DEF Splits

-----------------------------------------------------------------------------
(* Digits.                                                                 *)

\* The base and its powers are positive.
LEMMA BaseType ==
  /\ Base \in Nat \ {0} /\ Base - 1 \in Nat
  /\ Base_2 \in Nat \ {0} /\ Base_3 \in Nat \ {0}
<1>1. Base \in Nat \ {0} /\ Base - 1 \in Nat
  BY DigitsAssumption
<1>2. Base_2 \in Nat \ {0}
  BY <1>1, TimesOne DEF Base_2
<1>3. Base_3 \in Nat \ {0}
  BY <1>1, <1>2, TimesOne DEF Base_3
<1> QED BY <1>1, <1>2, <1>3

\* The quotients and remainders of a value that five digits can hold.
LEMMA Quotients ==
  ASSUME NEW v \in 0..(Base_5 - 1), NEW v4, NEW v3, NEW v2, NEW v1,
         v4 = v \div Base, v3 = v4 \div Base, v2 = v3 \div Base, v1 = v2 \div Base
  PROVE  /\ v4 \in Nat /\ v3 \in Nat /\ v2 \in Nat /\ v1 \in Digit
         /\ v % Base \in Digit /\ v4 % Base \in Digit /\ v3 % Base \in Digit
         /\ v2 % Base \in Digit /\ v1 % Base = v1
         /\ v = Base * v4 + (v % Base) /\ v4 = Base * v3 + (v4 % Base)
         /\ v3 = Base * v2 + (v3 % Base) /\ v2 = Base * v1 + (v2 % Base)
<1> DEFINE D == Base
<1>1. D \in Nat \ {0} /\ v \in Int
  BY BaseType DEF Base_5, Base_4, Base_3, Base_2
<1> HIDE DEF D
<1>2. v4 \in Int /\ v % D \in 0..(D - 1) /\ v = D * v4 + (v % D)
  BY <1>1, DivisionIs DEF D
<1>3. v3 \in Int /\ v4 % D \in 0..(D - 1) /\ v4 = D * v3 + (v4 % D)
  BY <1>1, <1>2, DivisionIs DEF D
<1>4. v2 \in Int /\ v3 % D \in 0..(D - 1) /\ v3 = D * v2 + (v3 % D)
  BY <1>1, <1>3, DivisionIs DEF D
<1>5. v1 \in Int /\ v2 % D \in 0..(D - 1) /\ v2 = D * v1 + (v2 % D)
  BY <1>1, <1>4, DivisionIs DEF D
<1> DEFINE r5 == v % D  r4 == v4 % D  r3 == v3 % D  r2 == v2 % D
<1>6. /\ r5 \in 0..(D - 1) /\ r4 \in 0..(D - 1) /\ r3 \in 0..(D - 1) /\ r2 \in 0..(D - 1)
      /\ v = D * v4 + r5 /\ v4 = D * v3 + r4 /\ v3 = D * v2 + r3 /\ v2 = D * v1 + r2
  BY <1>2, <1>3, <1>4, <1>5
<1> HIDE DEF r5, r4, r3, r2
<1>7. v4 >= 0 /\ v3 >= 0 /\ v2 >= 0 /\ v1 >= 0
  <2>1. ASSUME NEW x \in Int, x >= 0, NEW q \in Int, NEW r \in 0..(D - 1), x = D * q + r
        PROVE  q >= 0
    <3> SUFFICES ASSUME q < 0 PROVE FALSE
      OBVIOUS
    <3>1. D * (0 - q) >= D
      BY <1>1, TimesOne, 0 - q \in Nat \ {0}
    <3>2. D * (0 - q) = 0 - D * q /\ D * q \in Int
      BY <1>1
    <3>3. D * q <= 0 - D
      BY <1>1, <3>1, <3>2
    <3> QED BY <1>1, <2>1, <3>2, <3>3
  <2>2. v >= 0
    OBVIOUS
  <2>3. v4 >= 0
    BY <1>1, <1>2, <1>6, <2>1, <2>2, ZenonT(30)
  <2>4. v3 >= 0
    BY <1>2, <1>3, <1>6, <2>1, <2>3, ZenonT(30)
  <2>5. v2 >= 0
    BY <1>3, <1>4, <1>6, <2>1, <2>4, ZenonT(30)
  <2>6. v1 >= 0
    BY <1>4, <1>5, <1>6, <2>1, <2>5, ZenonT(30)
  <2> QED BY <2>3, <2>4, <2>5, <2>6
<1>8. v1 < D
  <2> SUFFICES ASSUME v1 >= D PROVE FALSE
    BY <1>1, <1>5
  <2>1. \A x, y, m \in Nat : x >= y => m * x >= m * y
    <3> SUFFICES ASSUME NEW x \in Nat, NEW y \in Nat, NEW m \in Nat, x >= y
                 PROVE  m * x >= m * y
      OBVIOUS
    <3>1. m * (x - y) \in Nat /\ m * (x - y) = m * x - m * y
      BY x - y \in Nat
    <3> QED BY <3>1
  <2>2. D * v1 >= D * D /\ D * D \in Nat
    BY <1>1, <1>5, <1>7, <2>1
  <2>3. v2 >= D * D
    BY <1>1, <1>5, <1>6, <2>2, SMTT(30)
  <2>4. D * v2 >= D * (D * D) /\ D * (D * D) \in Nat
    BY <1>1, <1>4, <1>7, <2>1, <2>2, <2>3
  <2>5. v3 >= D * (D * D)
    BY <1>1, <1>4, <1>6, <2>4
  <2>6. D * v3 >= D * (D * (D * D)) /\ D * (D * (D * D)) \in Nat
    BY <1>1, <1>3, <1>7, <2>1, <2>4, <2>5
  <2>7. v4 >= D * (D * (D * D))
    BY <1>1, <1>3, <1>6, <2>6
  <2>8. D * v4 >= D * (D * (D * (D * D))) /\ D * (D * (D * (D * D))) \in Nat
    BY <1>1, <1>2, <1>7, <2>1, <2>6, <2>7
  <2>9. v >= D * (D * (D * (D * D)))
    BY <1>1, <1>2, <1>6, <2>8
  <2>10. Base_5 = D * (D * (D * (D * D)))
    BY DEF Base_5, Base_4, Base_3, Base_2, D
  <2> HIDE DEF Base_5
  <2> QED BY <1>1, <2>8, <2>9, <2>10
<1>9. v1 % D = v1
  <2>1. v1 \in 0..(D - 1) /\ D * 0 + v1 = v1
    BY <1>1, <1>5, <1>7, <1>8
  <2>2. (D * 0 + v1) % D = v1
    BY <1>1, <2>1, DivisionOf
  <2> QED BY <2>1, <2>2
<1> QED
  BY <1>1, <1>2, <1>3, <1>4, <1>5, <1>7, <1>8, <1>9 DEF D, Digit

\* The digits of a value are digits, and stand for it (value_to_digits and
\* digits_to_value).
THEOREM ValueRoundTrip ==
  ASSUME NEW v \in 0..(Base_5 - 1)
  PROVE  /\ ValueToDigits(v) \in Seq(Digit) /\ Len(ValueToDigits(v)) = 5
         /\ DigitsToValue(ValueToDigits(v)) = v
<1> DEFINE v4 == v \div Base  v3 == v4 \div Base  v2 == v3 \div Base  v1 == v2 \div Base
           d1 == v1 % Base  d2 == v2 % Base  d3 == v3 % Base  d4 == v4 % Base  d5 == v % Base
<1>1. /\ v4 \in Nat /\ v3 \in Nat /\ v2 \in Nat /\ v1 \in Digit
      /\ d5 \in Digit /\ d4 \in Digit /\ d3 \in Digit /\ d2 \in Digit /\ d1 = v1
      /\ v = Base * v4 + d5 /\ v4 = Base * v3 + d4 /\ v3 = Base * v2 + d3
      /\ v2 = Base * v1 + d2
  BY Quotients
<1>2. ValueToDigits(v) = <<d1, d2, d3, d4, d5>>
  BY DEF ValueToDigits
<1> HIDE DEF v4, v3, v2, v1, d1, d2, d3, d4, d5
<1>3. d1 \in Digit
  BY <1>1
<1>4. DigitsToValue(<<d1, d2, d3, d4, d5>>)
        = (((d1 * Base + d2) * Base + d3) * Base + d4) * Base + d5
  BY DEF DigitsToValue
<1>5. /\ v2 = d1 * Base + d2 /\ v3 = v2 * Base + d3
      /\ v4 = v3 * Base + d4 /\ v = v4 * Base + d5
  BY <1>1, BaseType DEF Digit
<1>6. DigitsToValue(<<d1, d2, d3, d4, d5>>) = v
  BY <1>4, <1>5
<1>7. <<d1, d2, d3, d4, d5>> \in Seq(Digit) /\ Len(<<d1, d2, d3, d4, d5>>) = 5
  BY <1>1, <1>3
<1> QED BY <1>2, <1>6, <1>7

\* Block mode's two independent divisions give the same digits
\* (value_to_5chars_32).
THEOREM PairsAgree ==
  ASSUME NEW v \in 0..(Base_5 - 1)
  PROVE  ValueToDigitPairs(v) = ValueToDigits(v)
<1> DEFINE v4 == v \div Base  v3 == v4 \div Base  v2 == v3 \div Base  v1 == v2 \div Base
           d1 == v1 % Base  d2 == v2 % Base  d3 == v3 % Base  d4 == v4 % Base  d5 == v % Base
           q == v \div Base_2  head == v \div Base_3
           tail == v - q * Base_2  mid == q - head * Base
<1>1. /\ v4 \in Nat /\ v3 \in Nat /\ v2 \in Nat /\ v1 \in Digit
      /\ d5 \in Digit /\ d4 \in Digit /\ d3 \in Digit /\ d2 \in Digit /\ d1 = v1
      /\ v = Base * v4 + d5 /\ v4 = Base * v3 + d4 /\ v3 = Base * v2 + d3
      /\ v2 = Base * v1 + d2
  BY Quotients
<1>2. v \in Nat
  BY DEF Base_5, Base_4, Base_3, Base_2
<1>3. q = v3
  BY <1>2, BaseType, DivisionTwice DEF Base_2
<1>4. head = v2
  <2>1. (v \div Base_2) \div Base = v \div (Base_2 * Base)
    BY <1>2, BaseType, DivisionTwice
  <2>2. Base_2 * Base = Base_3
    BY BaseType DEF Base_3
  <2> QED BY <1>3, <2>1, <2>2
<1>5. head \div Base = d1 /\ head % Base = d2
  BY <1>1, <1>4
<1> HIDE DEF v4, v3, v2, v1, d1, d2, d3, d4, d5, q, head
<1>6. mid = d3
  BY <1>1, <1>3, <1>4, BaseType DEF Digit
<1>7. tail = Base * d4 + d5
  <2>1. q * Base_2 = Base * (Base * v3)
    BY <1>1, <1>3, BaseType DEF Base_2
  <2>2. Base * v4 = Base * (Base * v3) + Base * d4
    BY <1>1, BaseType DEF Digit
  <2> QED BY <1>1, <1>2, <2>1, <2>2, BaseType DEF Digit
<1>8. tail \div Base = d4 /\ tail % Base = d5
  <2>1. Base \in Nat \ {0} /\ d4 \in Int /\ d5 \in 0..(Base - 1)
    BY <1>1, BaseType DEF Digit
  <2>2. (Base * d4 + d5) \div Base = d4 /\ (Base * d4 + d5) % Base = d5
    BY <2>1, DivisionOf
  <2> QED BY <1>7, <2>2
<1>9. ValueToDigitPairs(v) = <<head \div Base, head % Base, mid, tail \div Base, tail % Base>>
  BY DEF ValueToDigitPairs, q, head
<1>10. ValueToDigits(v) = <<d1, d2, d3, d4, d5>>
  BY DEF ValueToDigits, v4, v3, v2, v1, d1, d2, d3, d4, d5
<1> QED BY <1>5, <1>6, <1>8, <1>9, <1>10

\* The decoder's weighing of the digits is Horner's rule.
THEOREM WeighAgrees ==
  ASSUME NEW g \in Seq(Digit), Len(g) = 5
  PROVE  WeighDigits(g) = DigitsToValue(g)
<1> DEFINE a == g[1]  b == g[2]  c == g[3]  d == g[4]  e == g[5]  D == Base
<1>1. a \in Int /\ b \in Int /\ c \in Int /\ d \in Int /\ e \in Int /\ D \in Int
  <2>1. \A i \in 1..5 : g[i] \in Digit
    BY ElementOfSeq
  <2>2. \A i \in 1..5 : g[i] \in Int
    BY <2>1, BaseType DEF Digit
  <2>3. 1 \in 1..5 /\ 2 \in 1..5 /\ 3 \in 1..5 /\ 4 \in 1..5 /\ 5 \in 1..5
    OBVIOUS
  <2> QED BY <2>2, <2>3, BaseType
<1>2. WeighDigits(g) = a * (D * (D * (D * D))) + (b * (D * (D * D)) + c * (D * D) + d * D + e)
  BY DEF WeighDigits, Base_4, Base_3, Base_2
<1>3. DigitsToValue(g) = (((a * D + b) * D + c) * D + d) * D + e
  BY DEF DigitsToValue
<1> HIDE DEF a, b, c, d, e, D
<1> QED BY <1>1, <1>2, <1>3

-----------------------------------------------------------------------------
(* Bytes.                                                                  *)

\* The number of byte values and its powers are positive.
LEMMA RadixType ==
  /\ Radix \in Nat \ {0} /\ Radix_2 \in Nat \ {0} /\ Radix_3 \in Nat \ {0}
  /\ Base <= Radix
<1>1. Radix \in Nat \ {0} /\ Base <= Radix
  BY DigitsAssumption
<1>2. Radix_2 \in Nat \ {0}
  BY <1>1, TimesOne DEF Radix_2
<1>3. Radix_3 \in Nat \ {0}
  BY <1>1, <1>2, TimesOne DEF Radix_3
<1> QED BY <1>1, <1>2, <1>3

\* A value below the product of its parts' ranges.
LEMMA MixedRange ==
  ASSUME NEW m \in Nat \ {0}, NEW n \in Nat \ {0}, NEW x \in 0..(n - 1), NEW y \in 0..(m - 1)
  PROVE  x * m + y \in 0..(m * n - 1)
<1>1. x * m \in Nat /\ m * n \in Nat /\ m * (n - 1 - x) \in Nat
  OBVIOUS
<1>2. m * (n - 1 - x) = m * n - m - x * m
  OBVIOUS
<1> QED BY <1>1, <1>2

\* Four bytes as a value and back.
LEMMA BytesOf ==
  ASSUME NEW b1 \in Octet, NEW b2 \in Octet, NEW b3 \in Octet, NEW b4 \in Octet,
         NEW v, v = ((b1 * Radix + b2) * Radix + b3) * Radix + b4
  PROVE  v \in 0..(Radix_4 - 1) /\ ValueToBytes(v) = <<b1, b2, b3, b4>>
<1> DEFINE R == Radix  x2 == b1 * R + b2  x3 == x2 * R + b3
<1>1. /\ R \in Nat \ {0} /\ b1 \in 0..(R - 1) /\ b2 \in 0..(R - 1)
      /\ b3 \in 0..(R - 1) /\ b4 \in 0..(R - 1)
  BY RadixType DEF Octet
<1>2. v = x3 * R + b4
  OBVIOUS
<1> HIDE DEF R
<1>3. x2 \in 0..(R * R - 1) /\ R * R \in Nat \ {0}
  BY <1>1, MixedRange, TimesOne
<1>4. x3 \in 0..(R * (R * R) - 1) /\ R * (R * R) \in Nat \ {0}
  BY <1>1, <1>3, MixedRange, TimesOne
<1> HIDE DEF x3
<1>5. v \in 0..(R * (R * (R * R)) - 1)
  BY <1>1, <1>2, <1>4, MixedRange
<1>6. Radix_4 = R * (R * (R * R)) /\ Radix_2 = R * R /\ Radix_3 = R * (R * R)
  BY DEF Radix_4, Radix_3, Radix_2, R
<1>7. v \div R = x3 /\ v % R = b4
  <2>1. v = R * x3 + b4 /\ x3 \in Int
    BY <1>1, <1>2, <1>4
  <2> QED BY <1>1, <2>1, DivisionOf
<1>8. x3 \div R = x2 /\ x3 % R = b3
  <2> HIDE DEF x2
  <2>1. x3 = R * x2 + b3 /\ x2 \in Int
    BY <1>1, <1>3 DEF x3
  <2> QED BY <1>1, <2>1, DivisionOf
<1>9. x2 \div R = b1 /\ x2 % R = b2
  <2>1. x2 = R * b1 + b2 /\ b1 \in Int
    BY <1>1
  <2> HIDE DEF x2
  <2> QED BY <1>1, <2>1, DivisionOf
<1>10. v \div Radix_2 = x2
  <2>1. v \in Nat
    BY <1>1, <1>4, <1>5, TimesOne
  <2> QED BY <1>1, <1>6, <1>7, <1>8, <2>1, DivisionTwice
<1>11. v \div Radix_3 = b1
  <2>1. v \in Nat
    BY <1>1, <1>4, <1>5, TimesOne
  <2>2. (v \div Radix_2) \div R = v \div (Radix_2 * R)
    BY <1>1, <2>1, RadixType, DivisionTwice
  <2>3. Radix_2 * R = Radix_3
    BY <1>1, <1>6
  <2> QED BY <1>9, <1>10, <2>2, <2>3
<1>12. v \div Radix = x3 /\ v % Radix = b4
  BY <1>7 DEF R
<1> QED
  BY <1>5, <1>6, <1>8, <1>9, <1>10, <1>11, <1>12 DEF ValueToBytes, R

\* Four bytes have a value below the signals, and five digits hold it.
LEMMA BlockValue ==
  ASSUME NEW b \in Seq(Octet), Len(b) = 4
  PROVE  /\ BytesToValue(b) \in 0..(Radix_4 - 1)
         /\ BytesToValue(b) \in 0..(Base_5 - 1)
         /\ ValueToBytes(BytesToValue(b)) = b
<1>1. b[1] \in Octet /\ b[2] \in Octet /\ b[3] \in Octet /\ b[4] \in Octet
  <2>1. 1 \in 1..4 /\ 2 \in 1..4 /\ 3 \in 1..4 /\ 4 \in 1..4
    OBVIOUS
  <2> QED BY <2>1, ElementOfSeq
<1>2. /\ BytesToValue(b) \in 0..(Radix_4 - 1)
      /\ ValueToBytes(BytesToValue(b)) = <<b[1], b[2], b[3], b[4]>>
  BY <1>1, BytesOf DEF BytesToValue
<1>3. b = <<b[1], b[2], b[3], b[4]>>
  OBVIOUS
<1>4. Radix_4 \in Int /\ Base_5 \in Int /\ Radix_4 <= Base_5
  BY BaseType, RadixType, DigitsAssumption DEF Radix_4, Base_5, Base_4
<1> QED BY <1>2, <1>3, <1>4

\* A block-mode group is read back as the bytes it was written for: the value
\* the decoder weighs its digits to is no signal, and gives the bytes again.
THEOREM BlockRoundTrip ==
  ASSUME NEW b \in Seq(Octet), Len(b) = 4,
         NEW v, v = WeighDigits(ValueToDigitPairs(BytesToValue(b)))
  PROVE  v \in 0..(Radix_4 - 1) /\ ValueToBytes(v) = b
<1>1. ValueToDigitPairs(BytesToValue(b)) = ValueToDigits(BytesToValue(b))
  BY BlockValue, PairsAgree
<1>2. v = BytesToValue(b)
  BY <1>1, BlockValue, ValueRoundTrip, WeighAgrees
<1> QED BY <1>2, BlockValue

-----------------------------------------------------------------------------
(* The last group.                                                         *)

\* What padding with the largest digit adds to the value of a short group
\* stays below what its missing bytes are worth.
LEMMA PaddingAdds ==
  ASSUME NEW d3 \in Digit, NEW d4 \in Digit, NEW d5 \in Digit,
         NEW e1, NEW e2, NEW e3,
         e1 = Base - 1 - d5,
         e2 = (Base - 1 - d4) * Base + e1,
         e3 = (Base - 1 - d3) * Base_2 + e2
  PROVE  e1 \in 0..(Radix - 1) /\ e2 \in 0..(Radix_2 - 1) /\ e3 \in 0..(Radix_3 - 1)
<1> DEFINE D == Base  R == Radix  c4 == D - 1 - d4  c3 == D - 1 - d3
<1>1. /\ D \in Nat \ {0} /\ R \in Nat \ {0} /\ D <= R
      /\ e1 \in 0..(D - 1) /\ c4 \in 0..(D - 1) /\ c3 \in 0..(D - 1)
  BY BaseType, RadixType DEF Digit
<1>2. e2 = c4 * D + e1 /\ e3 = c3 * (D * D) + e2
  BY DEF Base_2
<1>3. Radix_2 = R * R /\ Radix_3 = R * (R * R)
  BY DEF Radix_2, Radix_3
<1> HIDE DEF D, R, c4, c3
<1>4. \A x, y, m, n \in Nat : x <= y /\ m <= n => x * m <= y * n
  <2> SUFFICES ASSUME NEW x \in Nat, NEW y \in Nat, NEW m \in Nat, NEW n \in Nat,
                      x <= y, m <= n
               PROVE  x * m <= y * n
    OBVIOUS
  <2>1. x * (n - m) \in Nat /\ x * (n - m) = x * n - x * m
    OBVIOUS
  <2>2. n * (y - x) \in Nat /\ n * (y - x) = y * n - x * n
    OBVIOUS
  <2> QED BY <2>1, <2>2
<1>5. e2 \in 0..(D * D - 1) /\ D * D \in Nat \ {0}
  BY <1>1, <1>2, MixedRange, TimesOne
<1>6. e3 \in 0..((D * D) * D - 1) /\ (D * D) * D \in Nat \ {0}
  BY <1>1, <1>2, <1>5, MixedRange, TimesOne
<1>7. D * D <= R * R /\ R * R \in Nat
  BY <1>1, <1>4
<1>8. (D * D) * D <= (R * R) * R /\ (R * R) * R = R * (R * R) /\ R * (R * R) \in Nat
  BY <1>1, <1>4, <1>5, <1>7
<1>9. e1 \in 0..(R - 1)
  BY <1>1
<1> QED BY <1>3, <1>5, <1>6, <1>7, <1>8, <1>9 DEF R

\* Dividing a number below a product by one factor leaves one below the other.
LEMMA DivisionRange ==
  ASSUME NEW d \in Nat \ {0}, NEW n \in Nat \ {0}, NEW v \in 0..(d * n - 1)
  PROVE  /\ v \div d \in 0..(n - 1) /\ v % d \in 0..(d - 1)
         /\ v = (v \div d) * d + (v % d)
<1> DEFINE q == v \div d  r == v % d
<1>1. v \in Int /\ v >= 0 /\ v < d * n /\ d * n \in Int
  OBVIOUS
<1>2. q \in Int /\ r \in 0..(d - 1) /\ v = d * q + r
  BY <1>1, DivisionIs
<1> HIDE DEF q, r
<1>3. q >= 0
  <2> SUFFICES ASSUME q < 0 PROVE FALSE
    BY <1>2
  <2>1. d * (0 - q) >= d
    BY <1>2, TimesOne, 0 - q \in Nat \ {0}
  <2>2. d * (0 - q) = 0 - d * q /\ d * q \in Int
    BY <1>2
  <2> QED BY <1>1, <1>2, <2>1, <2>2
<1>4. q < n
  <2> SUFFICES ASSUME q >= n PROVE FALSE
    BY <1>2
  <2>1. d * (q - n) \in Nat /\ d * (q - n) = d * q - d * n /\ d * q \in Int
    BY <1>2
  <2> QED BY <1>1, <1>2, <2>1
<1>5. v = q * d + r
  BY <1>2
<1> QED BY <1>2, <1>3, <1>4, <1>5 DEF q, r

\* A number below two, three bytes' worth as bytes.
LEMMA OctetsOf ==
  /\ \A e \in 0..(Radix_2 - 1) : \E c3, c4 \in Octet : e = c3 * Radix + c4
  /\ \A e \in 0..(Radix_3 - 1) :
       \E c2, c3, c4 \in Octet : e = (c2 * Radix + c3) * Radix + c4
<1>1. ASSUME NEW e \in 0..(Radix_2 - 1)
      PROVE  \E c3, c4 \in Octet : e = c3 * Radix + c4
  <2>1. /\ e \div Radix \in Octet /\ e % Radix \in Octet
        /\ e = (e \div Radix) * Radix + (e % Radix)
    BY <1>1, DivisionRange, RadixType DEF Radix_2, Octet
  <2> QED BY <2>1
<1>2. ASSUME NEW e \in 0..(Radix_3 - 1)
      PROVE  \E c2, c3, c4 \in Octet : e = (c2 * Radix + c3) * Radix + c4
  <2>1. /\ e \div Radix \in 0..(Radix_2 - 1) /\ e % Radix \in Octet
        /\ e = (e \div Radix) * Radix + (e % Radix)
    BY <1>2, DivisionRange, RadixType DEF Radix_3, Octet
  <2>2. PICK c2 \in Octet, c3 \in Octet : e \div Radix = c2 * Radix + c3
    BY <1>1, <2>1
  <2>3. e = (c2 * Radix + c3) * Radix + (e % Radix)
    BY <2>1, <2>2
  <2> QED BY <2>1, <2>3
<1> QED BY <1>1, <1>2

\* The value of five digits, the last one to three of which are replaced.
LEMMA PaddedValue ==
  ASSUME NEW g1 \in Digit, NEW g2 \in Digit, NEW g3 \in Digit, NEW g4 \in Digit,
         NEW g5 \in Digit, NEW v, v = (((g1 * Base + g2) * Base + g3) * Base + g4) * Base + g5,
         NEW e1, NEW e2, NEW e3, NEW P, P = Base - 1,
         e1 = P - g5, e2 = (P - g4) * Base + e1, e3 = (P - g3) * Base_2 + e2
  PROVE  /\ (((g1 * Base + g2) * Base + g3) * Base + g4) * Base + P = v + e1
         /\ (((g1 * Base + g2) * Base + g3) * Base + P) * Base + P = v + e2
         /\ (((g1 * Base + g2) * Base + P) * Base + P) * Base + P = v + e3
<1> DEFINE D == Base  x == g1 * D + g2
<1>1. /\ D \in Int /\ g1 \in Int /\ g2 \in Int /\ g3 \in Int /\ g4 \in Int /\ g5 \in Int
      /\ P \in Int
  BY BaseType DEF Digit
<1>2. x \in Int
  BY <1>1
<1>3. /\ v = ((x * D + g3) * D + g4) * D + g5
      /\ e3 = (P - g3) * (D * D) + e2 /\ e2 = (P - g4) * D + e1 /\ e1 = P - g5
  BY DEF Base_2
<1> HIDE DEF D, x
<1>4. ((x * D + g3) * D + g4) * D + P = v + e1
  BY <1>1, <1>2, <1>3
<1>5. ((x * D + g3) * D + P) * D + P = v + e2
  BY <1>1, <1>2, <1>3
<1>6. ((x * D + P) * D + P) * D + P = v + e3
  BY <1>1, <1>2, <1>3
<1> QED BY <1>4, <1>5, <1>6 DEF D, x

\* The first one, two or three of four values.
LEMMA FirstOf ==
  ASSUME NEW a, NEW b, NEW c, NEW d
  PROVE  /\ SubSeq(<<a, b, c, d>>, 1, 1) = <<a>>
         /\ SubSeq(<<a, b, c, d>>, 1, 2) = <<a, b>>
         /\ SubSeq(<<a, b, c, d>>, 1, 3) = <<a, b, c>>
<1> DEFINE S == {a, b, c, d}  q == <<a, b, c, d>>
<1>1. q \in Seq(S) /\ Len(q) = 4 /\ q[1] = a /\ q[2] = b /\ q[3] = c
  OBVIOUS
<1>2. <<a>> \in Seq(S) /\ <<a, b>> \in Seq(S) /\ <<a, b, c>> \in Seq(S)
  OBVIOUS
<1> HIDE DEF q, S
<1>3. ASSUME NEW n \in 1..3
      PROVE  /\ SubSeq(q, 1, n) \in Seq(S) /\ Len(SubSeq(q, 1, n)) = n
             /\ \A i \in 1..n : SubSeq(q, 1, n)[i] = q[i]
  <2>1. n \in Int /\ 1 \in Int /\ 1 <= n /\ \A i \in 1..n : i \in 1..Len(q)
    BY <1>1
  <2>2. \A i \in 1..n : q[i] \in S
    BY <1>1, <2>1, ElementOfSeq
  <2>3. /\ SubSeq(q, 1, n) \in Seq(S) /\ Len(SubSeq(q, 1, n)) = n - 1 + 1
        /\ \A i \in 1..(n - 1 + 1) : SubSeq(q, 1, n)[i] = q[1 + i - 1]
    BY <2>1, <2>2, SubSeqProperties
  <2> QED BY <2>1, <2>3
<1>4. SubSeq(q, 1, 1) = <<a>>
  <2> DEFINE s == SubSeq(q, 1, 1)  t == <<a>>
  <2>1. s \in Seq(S) /\ Len(s) = 1 /\ \A i \in 1..1 : s[i] = q[i]
    BY <1>3
  <2>2. t \in Seq(S) /\ Len(t) = 1 /\ t[1] = a
    BY <1>2
  <2> HIDE DEF s, t
  <2>3. \A i \in 1..Len(s) : s[i] = t[i]
    BY <1>1, <2>1, <2>2
  <2>4. s = t
    BY <2>1, <2>2, <2>3, SeqEqual
  <2> QED BY <2>4 DEF s, t
<1>5. SubSeq(q, 1, 2) = <<a, b>>
  <2> DEFINE s == SubSeq(q, 1, 2)  t == <<a, b>>
  <2>1. s \in Seq(S) /\ Len(s) = 2 /\ \A i \in 1..2 : s[i] = q[i]
    BY <1>3
  <2>2. t \in Seq(S) /\ Len(t) = 2 /\ t[1] = a /\ t[2] = b
    BY <1>2
  <2> HIDE DEF s, t
  <2>3. \A i \in 1..Len(s) : s[i] = t[i]
    BY <1>1, <2>1, <2>2
  <2>4. s = t
    BY <2>1, <2>2, <2>3, SeqEqual
  <2> QED BY <2>4 DEF s, t
<1>6. SubSeq(q, 1, 3) = <<a, b, c>>
  <2> DEFINE s == SubSeq(q, 1, 3)  t == <<a, b, c>>
  <2>1. s \in Seq(S) /\ Len(s) = 3 /\ \A i \in 1..3 : s[i] = q[i]
    BY <1>3
  <2>2. t \in Seq(S) /\ Len(t) = 3 /\ t[1] = a /\ t[2] = b /\ t[3] = c
    BY <1>2
  <2> HIDE DEF s, t
  <2>3. \A i \in 1..Len(s) : s[i] = t[i]
    BY <1>1, <2>1, <2>2
  <2>4. s = t
    BY <2>1, <2>2, <2>3, SeqEqual
  <2> QED BY <2>4 DEF s, t
<1> QED BY <1>4, <1>5, <1>6 DEF q

\* The last group: one to three bytes are written as digits the decoder accepts
\* and reads back as the bytes.
THEOREM TailRoundTrip ==
  ASSUME NEW b \in Seq(Octet), Len(b) \in 1..3
  PROVE  TailAccepted(TailDigits(b)) /\ TailBytes(TailDigits(b)) = b
<1> DEFINE n == Len(b)
           z == ZeroPadded(b)
           v == BytesToValue(z)
           g == ValueToDigits(v)
           t == TailDigits(b)
           h == [i \in 1..5 |-> IF i <= Len(t) THEN t[i] ELSE Base - 1]
<1>1. z \in Seq(Octet) /\ Len(z) = 4 /\ \A i \in 1..4 : z[i] = IF i <= n THEN b[i] ELSE 0
  <2>1. \A i \in 1..n : b[i] \in Octet
    BY ElementOfSeq
  <2>2. 0 \in Octet
    BY RadixType DEF Octet
  <2>3. z \in [1..4 -> Octet] /\ \A i \in 1..4 : z[i] = IF i <= n THEN b[i] ELSE 0
    BY <2>1, <2>2 DEF ZeroPadded
  <2> HIDE DEF z
  <2>4. z \in Seq(Octet)
    BY <2>3, SeqDef, 4 \in Nat
  <2> QED BY <2>3, <2>4, LenProperties
<1>2. v \in 0..(Radix_4 - 1) /\ v \in 0..(Base_5 - 1)
  BY <1>1, BlockValue
<1>3. /\ g \in Seq(Digit) /\ Len(g) = 5 /\ DigitsToValue(g) = v
      /\ ValueToDigitPairs(v) = g
  BY <1>2, ValueRoundTrip, PairsAgree
<1> HIDE DEF g
<1>4. t = SubSeq(g, 1, n + 1)
  BY <1>3 DEF TailDigits
<1>5. Len(t) = n + 1 /\ \A i \in 1..(n + 1) : t[i] = g[i]
  BY <1>3, <1>4
<1> HIDE DEF t
<1>6. \A i \in 1..5 : g[i] \in Digit
  BY <1>3, ElementOfSeq
<1>7. TailValue(t) = DigitsToValue(h)
  BY DEF TailValue
<1>8. \A i \in 1..n : b[i] \in Octet
  BY ElementOfSeq
<1> DEFINE tv == TailValue(t)
           P == Base - 1
           e1 == P - g[5]
           e2 == (P - g[4]) * Base + e1
           e3 == (P - g[3]) * Base_2 + e2
<1>9. /\ (((g[1] * Base + g[2]) * Base + g[3]) * Base + g[4]) * Base + P = v + e1
      /\ (((g[1] * Base + g[2]) * Base + g[3]) * Base + P) * Base + P = v + e2
      /\ (((g[1] * Base + g[2]) * Base + P) * Base + P) * Base + P = v + e3
  <2>1. v = (((g[1] * Base + g[2]) * Base + g[3]) * Base + g[4]) * Base + g[5]
    BY <1>3 DEF DigitsToValue
  <2> HIDE DEF v
  <2> QED BY <1>6, <2>1, PaddedValue
<1> HIDE DEF e1, e2, e3
<1>10. e1 \in 0..(Radix - 1) /\ e2 \in 0..(Radix_2 - 1) /\ e3 \in 0..(Radix_3 - 1)
  <2>1. g[3] \in Digit /\ g[4] \in Digit /\ g[5] \in Digit
    BY <1>6
  <2>2. /\ e1 = (Base - 1) - g[5] /\ e2 = ((Base - 1) - g[4]) * Base + e1
        /\ e3 = ((Base - 1) - g[3]) * Base_2 + e2
    BY DEF e1, e2, e3, P
  <2> QED BY <2>1, <2>2, PaddingAdds
<1> HIDE DEF P
<1>11. ASSUME n = 1
       PROVE  tv \in 0..(Radix_4 - 1) /\ SubSeq(ValueToBytes(tv), 1, n) = b
  <2>1. z[1] = b[1] /\ z[2] = 0 /\ z[3] = 0 /\ z[4] = 0
    BY <1>1, <1>11
  <2>2. v = ((b[1] * Radix + 0) * Radix + 0) * Radix + 0
    BY <2>1 DEF BytesToValue
  <2>3. h[1] = g[1] /\ h[2] = g[2] /\ h[3] = P /\ h[4] = P /\ h[5] = P
    BY <1>5, <1>11 DEF h, P
  <2> HIDE DEF v, h, z
  <2>4. DigitsToValue(h) = v + e3
    BY <1>9, <2>3 DEF DigitsToValue
  <2>5. tv = v + e3
    BY <1>7, <2>4
  <2>6. PICK b1 \in Octet : b1 = b[1]
    BY <1>8, <1>11
  <2>7. tv = ((b1 * Radix + 0) * Radix + 0) * Radix + 0 + e3
    BY <2>2, <2>5, <2>6
  <2> HIDE DEF tv, n
  <2>8. PICK c2 \in Octet, c3 \in Octet, c4 \in Octet : e3 = (c2 * Radix + c3) * Radix + c4
    BY <1>10, OctetsOf
  <2>9. b1 \in Int /\ c2 \in Int /\ c3 \in Int /\ c4 \in Int /\ Radix \in Int
    BY <2>6, <2>8, RadixType DEF Octet
  <2>10. tv = ((b1 * Radix + c2) * Radix + c3) * Radix + c4
    BY <2>7, <2>8, <2>9
  <2>11. tv \in 0..(Radix_4 - 1) /\ ValueToBytes(tv) = <<b1, c2, c3, c4>>
    BY <2>10, BytesOf, SMTT(30)
  <2>12. SubSeq(ValueToBytes(tv), 1, 1) = <<b1>>
    BY <2>11, FirstOf
  <2>13. b = <<b1>>
    BY <2>6, <1>11 DEF n
  <2> QED BY <1>11, <2>11, <2>12, <2>13
<1>12. ASSUME n = 2
       PROVE  tv \in 0..(Radix_4 - 1) /\ SubSeq(ValueToBytes(tv), 1, n) = b
  <2>1. z[1] = b[1] /\ z[2] = b[2] /\ z[3] = 0 /\ z[4] = 0
    BY <1>1, <1>12
  <2>2. v = ((b[1] * Radix + b[2]) * Radix + 0) * Radix + 0
    BY <2>1 DEF BytesToValue
  <2>3. h[1] = g[1] /\ h[2] = g[2] /\ h[3] = g[3] /\ h[4] = P /\ h[5] = P
    BY <1>5, <1>12 DEF h, P
  <2> HIDE DEF v, h, z
  <2>4. DigitsToValue(h) = v + e2
    BY <1>9, <2>3 DEF DigitsToValue
  <2>5. tv = v + e2
    BY <1>7, <2>4
  <2>6. PICK b1 \in Octet, b2 \in Octet : b1 = b[1] /\ b2 = b[2]
    BY <1>8, <1>12
  <2>7. tv = ((b1 * Radix + b2) * Radix + 0) * Radix + 0 + e2
    BY <2>2, <2>5, <2>6
  <2> HIDE DEF tv, n
  <2>8. PICK c3 \in Octet, c4 \in Octet : e2 = c3 * Radix + c4
    BY <1>10, OctetsOf
  <2>9. b1 \in Int /\ b2 \in Int /\ c3 \in Int /\ c4 \in Int /\ Radix \in Int
    BY <2>6, <2>8, RadixType DEF Octet
  <2>10. tv = ((b1 * Radix + b2) * Radix + c3) * Radix + c4
    BY <2>7, <2>8, <2>9
  <2>11. tv \in 0..(Radix_4 - 1) /\ ValueToBytes(tv) = <<b1, b2, c3, c4>>
    BY <2>10, BytesOf, SMTT(30)
  <2>12. SubSeq(ValueToBytes(tv), 1, 2) = <<b1, b2>>
    BY <2>11, FirstOf
  <2>13. b = <<b1, b2>>
    BY <2>6, <1>12 DEF n
  <2> QED BY <1>12, <2>11, <2>12, <2>13
<1>13. ASSUME n = 3
       PROVE  tv \in 0..(Radix_4 - 1) /\ SubSeq(ValueToBytes(tv), 1, n) = b
  <2>1. z[1] = b[1] /\ z[2] = b[2] /\ z[3] = b[3] /\ z[4] = 0
    BY <1>1, <1>13
  <2>2. v = ((b[1] * Radix + b[2]) * Radix + b[3]) * Radix + 0
    BY <2>1 DEF BytesToValue
  <2>3. h[1] = g[1] /\ h[2] = g[2] /\ h[3] = g[3] /\ h[4] = g[4] /\ h[5] = P
    BY <1>5, <1>13 DEF h, P
  <2> HIDE DEF v, h, z
  <2>4. DigitsToValue(h) = v + e1
    BY <1>9, <2>3 DEF DigitsToValue
  <2>5. tv = v + e1
    BY <1>7, <2>4
  <2>6. PICK b1 \in Octet, b2 \in Octet, b3 \in Octet : b1 = b[1] /\ b2 = b[2] /\ b3 = b[3]
    BY <1>8, <1>13
  <2>7. tv = ((b1 * Radix + b2) * Radix + b3) * Radix + 0 + e1
    BY <2>2, <2>5, <2>6
  <2> HIDE DEF tv, n
  <2>8. PICK c4 \in Octet : e1 = c4
    BY <1>10, OctetsOf DEF Octet
  <2>9. b1 \in Int /\ b2 \in Int /\ b3 \in Int /\ c4 \in Int /\ Radix \in Int
    BY <2>6, <2>8, RadixType DEF Octet
  <2>10. tv = ((b1 * Radix + b2) * Radix + b3) * Radix + c4
    BY <2>7, <2>8, <2>9
  <2>11. tv \in 0..(Radix_4 - 1) /\ ValueToBytes(tv) = <<b1, b2, b3, c4>>
    BY <2>10, BytesOf, SMTT(30)
  <2>12. SubSeq(ValueToBytes(tv), 1, 3) = <<b1, b2, b3>>
    BY <2>11, FirstOf
  <2>13. b = <<b1, b2, b3>>
    BY <2>6, <1>13 DEF n
  <2> QED BY <1>13, <2>11, <2>12, <2>13
<1>14. tv \in 0..(Radix_4 - 1) /\ SubSeq(ValueToBytes(tv), 1, n) = b
  <2>1. n \in 1..3
    OBVIOUS
  <2>2. n = 1 \/ n = 2 \/ n = 3
    BY <2>1
  <2> HIDE DEF n, tv
  <2> QED BY <2>2, <1>11, <1>12, <1>13
<1>15. TailBytes(t) = b
  <2>1. Len(t) - 1 = n
    BY <1>5
  <2> QED BY <1>14, <2>1 DEF TailBytes
<1>16. tv < Radix_4
  BY <1>14, RadixType DEF Radix_4
<1> QED BY <1>15, <1>16 DEF TailAccepted, t

-----------------------------------------------------------------------------
(* What a decoder reads.                                                   *)

\* The numbers that WireAssumption makes bytes.
LEMMA OctetIsByte == Byte = Octet /\ AlphabetN \subseteq Byte
BY WireAssumption, BytesAssumption

\* A character of the alphabet has a digit for its value, and no other has one.
LEMMA ValueOfDigit ==
  ASSUME NEW c \in Char
  PROVE  /\ (ValueOf(c) # NoValue) <=> c \in AlphabetN
         /\ c \in AlphabetN => ValueOf(c) \in Digit
<1>1. ASSUME c \in AlphabetN
      PROVE  ValueOf(c) \in Digit
  <2>1. \E i \in 1..Base : Alphabet[i] = c
    BY <1>1, WireAssumption
  <2> DEFINE i == CHOOSE i \in 1..Base : Alphabet[i] = c
  <2>2. i \in 1..Base
    BY <2>1
  <2>3. ValueOf(c) = i - 1
    BY <1>1 DEF ValueOf
  <2> HIDE DEF i
  <2> QED BY <2>2, <2>3, BaseType DEF Digit
<1>2. NoValue \notin Digit
  BY BaseType DEF NoValue, Digit
<1>3. c \notin AlphabetN => ValueOf(c) = NoValue
  BY DEF ValueOf
<1> QED BY <1>1, <1>2, <1>3

\* Characters of the alphabet have digits for their values.
LEMMA ValuesAreDigits ==
  ASSUME NEW s \in Seq(Char), \A i \in 1..Len(s) : ValueOf(s[i]) # NoValue
  PROVE  Values(s) \in Seq(Digit) /\ Len(Values(s)) = Len(s)
<1>1. \A i \in 1..Len(s) : ValueOf(s[i]) \in Digit
  BY ValueOfDigit, ElementOfSeq
<1>2. Values(s) \in [1..Len(s) -> Digit]
  BY <1>1 DEF Values
<1>3. Len(s) \in Nat
  BY LenProperties
<1> HIDE DEF Values
<1> QED BY <1>2, <1>3, SeqDef, LenProperties

\* Five digits weigh a number.
LEMMA WeightIsNat ==
  ASSUME NEW g \in Seq(Digit), Len(g) = 5
  PROVE  WeighDigits(g) \in Nat
<1> DEFINE a == g[1]  b == g[2]  c == g[3]  d == g[4]  e == g[5]
<1>1. \A i \in 1..5 : g[i] \in Digit
  BY ElementOfSeq
<1>2. a \in Nat /\ b \in Nat /\ c \in Nat /\ d \in Nat /\ e \in Nat /\ Base \in Nat
  BY <1>1, BaseType DEF Digit
<1>3. Base_2 \in Nat /\ Base_3 \in Nat /\ Base_4 \in Nat
  BY <1>2, BaseType DEF Base_4
<1>4. WeighDigits(g) = a * Base_4 + (b * Base_3 + c * Base_2 + d * Base + e)
  BY DEF WeighDigits
<1> HIDE DEF a, b, c, d, e
<1>5. /\ a * Base_4 \in Nat /\ b * Base_3 \in Nat /\ c * Base_2 \in Nat
      /\ d * Base \in Nat
  BY <1>2, <1>3
<1> DEFINE x == a * Base_4  y == b * Base_3  z == c * Base_2  u == d * Base
<1>6. x \in Nat /\ y \in Nat /\ z \in Nat /\ u \in Nat /\ e \in Nat
  BY <1>2, <1>5
<1>7. WeighDigits(g) = x + (y + z + u + e)
  BY <1>4
<1> HIDE DEF x, y, z, u
<1> QED BY <1>6, <1>7

\* The last digit is told by a value, and so is what is before it.
LEMMA LastDigit ==
  ASSUME NEW x \in Int, NEW y \in Int, NEW r \in Digit, NEW m \in Digit,
         x * Base + r = y * Base + m
  PROVE  x = y /\ r = m
<1> DEFINE b == Base
<1>1. b \in Nat \ {0} /\ r \in 0..(b - 1) /\ m \in 0..(b - 1)
  BY BaseType DEF Digit
<1>2. x * b + r = y * b + m
  OBVIOUS
<1> HIDE DEF b
<1>3. x * b = b * x /\ y * b = b * y
  BY <1>1
<1>4. b * x + r = b * y + m
  BY <1>2, <1>3
<1> QED BY <1>1, <1>4, DivisionUnique

\* All five are.
LEMMA DigitsUnique ==
  ASSUME NEW g \in Seq(Digit), NEW h \in Seq(Digit), Len(g) = 5, Len(h) = 5,
         DigitsToValue(g) = DigitsToValue(h)
  PROVE  g = h
<1>1. \A i \in 1..5 : g[i] \in Digit /\ h[i] \in Digit
  BY ElementOfSeq
<1>2. Digit \subseteq Int /\ Base \in Int
  BY BaseType DEF Digit
<1>3. \A x, y \in Int : x * Base + y \in Int
  BY <1>2
<1>4. \A i \in 1..5 : g[i] \in Int /\ h[i] \in Int
  BY <1>1, <1>2
<1>5. /\ g[1] \in Int /\ g[2] \in Int /\ g[3] \in Int /\ g[4] \in Int
       /\ h[1] \in Int /\ h[2] \in Int /\ h[3] \in Int /\ h[4] \in Int
  BY <1>4
<1> DEFINE g2 == g[1] * Base + g[2]  g3 == g2 * Base + g[3]  g4 == g3 * Base + g[4]
           h2 == h[1] * Base + h[2]  h3 == h2 * Base + h[3]  h4 == h3 * Base + h[4]
<1>6. g2 \in Int /\ h2 \in Int
  BY <1>3, <1>5, Zenon
<1> HIDE DEF g2, h2
<1>7. g3 \in Int /\ h3 \in Int
  BY <1>3, <1>6, <1>5, Zenon
<1> HIDE DEF g3, h3
<1>8. g4 \in Int /\ h4 \in Int
  BY <1>3, <1>7, <1>5, Zenon
<1>9. g4 * Base + g[5] = h4 * Base + h[5]
  BY DEF DigitsToValue, g2, g3, h2, h3
<1> HIDE DEF g4, h4
<1>10. g4 = h4 /\ g[5] = h[5]
  <2>1. g[5] \in Digit /\ h[5] \in Digit
    BY <1>1
  <2> QED BY <1>8, <1>9, <2>1, LastDigit
<1>11. g3 = h3 /\ g[4] = h[4]
  <2>1. g3 * Base + g[4] = h3 * Base + h[4]
    BY <1>10 DEF g4, h4
  <2>2. g[4] \in Digit /\ h[4] \in Digit
    BY <1>1
  <2> QED BY <1>7, <2>1, <2>2, LastDigit
<1>12. g2 = h2 /\ g[3] = h[3]
  <2>1. g2 * Base + g[3] = h2 * Base + h[3]
    BY <1>11 DEF g3, h3
  <2>2. g[3] \in Digit /\ h[3] \in Digit
    BY <1>1
  <2> QED BY <1>6, <2>1, <2>2, LastDigit
<1>13. g[1] = h[1] /\ g[2] = h[2]
  <2>1. g[1] * Base + g[2] = h[1] * Base + h[2]
    BY <1>12 DEF g2, h2
  <2>2. g[1] \in Digit /\ h[1] \in Digit /\ g[2] \in Digit /\ h[2] \in Digit
    BY <1>1
  <2>3. g[1] \in Int /\ h[1] \in Int
    BY <1>2, <2>2
  <2> QED BY <2>1, <2>2, <2>3, LastDigit
<1>14. \A i \in 1..5 : g[i] = h[i]
  BY <1>10, <1>11, <1>12, <1>13
<1> QED BY <1>14, SeqEqual

\* The digits of the value of five digits are those, and the value of a value's
\* bytes is that: a block and its bytes determine each other.
LEMMA BlockInverse ==
  ASSUME NEW g \in Seq(Digit), Len(g) = 5, NEW v, v = WeighDigits(g), v < Radix_4
  PROVE  ValueToDigitPairs(BytesToValue(ValueToBytes(v))) = g
<1>1. v = DigitsToValue(g) /\ v \in Nat
  BY WeighAgrees, WeightIsNat
<1>2. v \in 0..(Radix_4 - 1) /\ v \in 0..(Base_5 - 1)
  <2>1. Radix_4 \in Int /\ Base_5 \in Int /\ Radix_4 <= Base_5
    BY DigitsAssumption, RadixType, BaseType
       DEF Radix_4, Radix_3, Radix_2, Base_5, Base_4, Base_3, Base_2
  <2> QED BY <1>1, <2>1
<1>3. BytesToValue(ValueToBytes(v)) = v
  <2>1. /\ v \div Radix \in 0..(Radix_3 - 1) /\ v % Radix \in Octet
        /\ v = (v \div Radix) * Radix + (v % Radix)
    BY <1>2, DivisionRange, RadixType DEF Radix_4, Octet
  <2>2. PICK c1 \in Octet, c2 \in Octet, c3 \in Octet : v \div Radix = (c1 * Radix + c2) * Radix + c3
    BY <2>1, OctetsOf
  <2>3. v = ((c1 * Radix + c2) * Radix + c3) * Radix + (v % Radix)
    BY <2>1, <2>2
  <2>4. ValueToBytes(v) = <<c1, c2, c3, v % Radix>>
    BY <2>1, <2>3, BytesOf, SMTT(60)
  <2> QED BY <2>3, <2>4 DEF BytesToValue
<1>4. ValueToDigitPairs(v) = g
  <2>1. ValueToDigitPairs(v) \in Seq(Digit) /\ Len(ValueToDigitPairs(v)) = 5
        /\ DigitsToValue(ValueToDigitPairs(v)) = v
    BY <1>2, ValueRoundTrip, PairsAgree
  <2> QED BY <1>1, <2>1, DigitsUnique
<1> QED BY <1>3, <1>4

\* A value below the signals is four bytes.
LEMMA BlockBytes ==
  ASSUME NEW v \in 0..(Radix_4 - 1)
  PROVE  ValueToBytes(v) \in Seq(Byte) /\ Len(ValueToBytes(v)) = 4
<1> DEFINE R == Radix
<1>1. /\ R \in Nat \ {0} /\ Radix_2 \in Nat \ {0} /\ Radix_3 \in Nat \ {0}
      /\ R * Radix_3 = Radix_3 * R
  BY RadixType
<1>2. v \div Radix_3 \in 0..(R - 1)
  BY <1>1, DivisionRange DEF Radix_4
<1>3. v \in Int /\ v \div Radix_2 \in Int /\ v \div R \in Int
  BY <1>1, DivisionIs
<1>4. /\ (v \div Radix_2) % R \in 0..(R - 1) /\ (v \div R) % R \in 0..(R - 1)
      /\ v % R \in 0..(R - 1)
  BY <1>1, <1>3
<1>5. /\ v \div Radix_3 \in Byte /\ (v \div Radix_2) % R \in Byte
      /\ (v \div R) % R \in Byte /\ v % R \in Byte
  BY <1>2, <1>4, OctetIsByte DEF Octet
<1> QED BY <1>5 DEF ValueToBytes

\* The final group, once accepted, is one byte fewer than it has digits.
LEMMA FinalBytes ==
  ASSUME NEW t \in Seq(Digit), Len(t) \in 2..4, TailAccepted(t)
  PROVE  TailBytes(t) \in Seq(Byte) /\ Len(TailBytes(t)) = Len(t) - 1
<1> DEFINE h == [i \in 1..5 |-> IF i <= Len(t) THEN t[i] ELSE Base - 1]
           v == TailValue(t)  b == ValueToBytes(v)
<1>1. \A i \in 1..Len(t) : t[i] \in Digit
  BY ElementOfSeq
<1>2. h \in [1..5 -> Digit]
  BY <1>1, BaseType DEF Digit
<1>3. v = DigitsToValue(h)
  BY DEF TailValue
<1> HIDE DEF h
<1>4. h \in Seq(Digit) /\ Len(h) = 5
  <2>1. h \in Seq(Digit)
    BY <1>2, SeqDef, 5 \in Nat
  <2> QED BY <1>2, <2>1, LenProperties
<1>5. v \in Nat
  BY <1>3, <1>4, WeightIsNat, WeighAgrees
<1>6. v \in 0..(Radix_4 - 1)
  BY <1>5, RadixType DEF TailAccepted, Radix_4
<1> HIDE DEF v
<1>7. b \in Seq(Byte) /\ Len(b) = 4
  BY <1>6, BlockBytes
<1>8. TailBytes(t) = SubSeq(b, 1, Len(t) - 1)
  BY DEF TailBytes, v
<1> HIDE DEF b
<1>9. \A i \in 1..(Len(t) - 1) : b[i] \in Byte
  BY <1>7, ElementOfSeq
<1>10. PICK m \in 1..3 : m = Len(t) - 1
  OBVIOUS
<1>11. SubSeq(b, 1, m) \in Seq(Byte) /\ Len(SubSeq(b, 1, m)) = m - 1 + 1
  BY <1>9, <1>10, SubSeqProperties
<1> QED BY <1>8, <1>10, <1>11

\* The two parts of a Solid Fill payload.
LEMMA FillParts ==
  ASSUME NEW p \in 0..(FillSignalSpan - 1)
  PROVE  SplitFill(p).len \in 1..MaxFill /\ SplitFill(p).byte \in Byte
<1>1. MaxFill \in Nat \ {0} /\ Radix \in Nat \ {0} /\ Radix * MaxFill = MaxFill * Radix
  BY ThresholdsAssumption, RadixType
<1>2. p \div MaxFill \in 0..(Radix - 1) /\ p % MaxFill \in 0..(MaxFill - 1)
  BY <1>1, DivisionRange DEF FillSignalSpan
<1> QED BY <1>1, <1>2, OctetIsByte DEF SplitFill, Octet

\* The parts of a Tail payload.
LEMMA TailParts ==
  ASSUME NEW p \in Nat
  PROVE  /\ SplitTail(p).zeros \in 1..MaxTailZeros
         /\ SplitTail(p).lit \in Seq(Byte) /\ Len(SplitTail(p).lit) = 2
<1>1. /\ MaxTailZeros \in Nat \ {0} /\ Radix \in Nat \ {0} /\ Radix_2 \in Nat \ {0}
  BY ThresholdsAssumption, RadixType
<1>2. p \div Radix_2 \in Int /\ p \div Radix \in Int
  BY <1>1, DivisionIs
<1>3. /\ (p \div Radix_2) % MaxTailZeros \in 0..(MaxTailZeros - 1)
      /\ (p \div Radix) % Radix \in 0..(Radix - 1) /\ p % Radix \in 0..(Radix - 1)
  BY <1>1, <1>2
<1>4. (p \div Radix) % Radix \in Byte /\ p % Radix \in Byte
  BY <1>3, OctetIsByte DEF Octet
<1> QED BY <1>1, <1>3, <1>4 DEF SplitTail

\* The bits of a mask double from one R-Set character to the next.
LEMMA BitFacts ==
  /\ Bit[0] = 1
  /\ \A j \in 1..Len(RSet) : Bit[j] = 2 * Bit[j - 1]
  /\ \A j \in 0..Len(RSet) : Bit[j] \in Nat \ {0}
<1> DEFINE n == Len(RSet)
           f == [x \in (1..n) \X Nat |-> 2 * x[2]]
<1>1. n \in Nat
  BY LenProperties, BytesAssumption
<1>2. PICK k : Recurs(k, n, Nat, 1, f)
  <2>1. f \in [(1..n) \X Nat -> Nat] /\ 1 \in Nat
    OBVIOUS
  <2> HIDE DEF f, n
  <2> QED BY <1>1, <2>1, Recursion
<1>3. k = [j \in 0..n |-> IF j = 0 THEN 1 ELSE 2 * k[j - 1]]
  <2>1. k = [j \in 0..n |-> IF j = 0 THEN 1 ELSE f[<<j, k[j - 1]>>]]
    <3> HIDE DEF f, n
    <3> QED BY <1>1, <1>2, RecursFunction
  <2>0. k \in [0..n -> Nat]
    <3> HIDE DEF f, n
    <3> QED BY <1>2 DEF Recurs
  <2>2. \A j \in 0..n : j # 0 => f[<<j, k[j - 1]>>] = 2 * k[j - 1]
    <3> SUFFICES ASSUME NEW j \in 0..n, j # 0 PROVE f[<<j, k[j - 1]>>] = 2 * k[j - 1]
      OBVIOUS
    <3>1. j \in 1..n /\ k[j - 1] \in Nat
      <4> HIDE DEF f, n
      <4> QED BY <1>1, <2>0
    <3> QED BY <3>1
  <2> HIDE DEF f, n
  <2> QED BY <2>1, <2>2
<1>4. Bit = [j \in 0..n |-> IF j = 0 THEN 1 ELSE 2 * Bit[j - 1]]
  BY <1>3 DEF Bit
<1> HIDE DEF f, n
<1>5. Bit[0] = 1 /\ \A j \in 1..n : Bit[j] = 2 * Bit[j - 1]
  BY <1>1, <1>4
<1>6. \A j \in 1..n : Bit[j - 1] \in Nat \ {0} => Bit[j] \in Nat \ {0}
  BY <1>5
<1>7. \A j \in 0..n : Bit[j] \in Nat \ {0}
  BY <1>1, <1>5, <1>6, RecursType, 1 \in Nat \ {0}
<1> QED BY <1>5, <1>7 DEF n

\* The ends of the ranges of values.
LEMMA RangeTypes ==
  /\ DpSignalBase \in Int /\ FillSignalBase \in Int /\ TailSignalBase \in Int
  /\ FutureSignalBase \in Int
  /\ TailSignalBase - FillSignalBase = FillSignalSpan
  /\ DpSignalBase = Radix_4
<1>1. Masks \in Int /\ Len(Profiles) \in Int
  <2>1. Len(RSet) \in Nat /\ Len(Profiles) \in Nat
    BY LenProperties, BytesAssumption, ProfilesAssumption
  <2> QED BY <2>1, BitFacts DEF Masks
<1>2. /\ MaxDpSegment \in Int /\ MaxFill \in Int /\ MaxTailZeros \in Int
      /\ Radix \in Int /\ Radix_2 \in Int /\ Radix_3 \in Int
  BY ThresholdsAssumption, RadixType
<1>3. DpSignalBase \in Int
  BY <1>2 DEF DpSignalBase, Radix_4
<1>4. DpSignalSpan \in Int
  BY <1>1, <1>2 DEF DpSignalSpan
<1>5. FillSignalSpan \in Int
  BY <1>2 DEF FillSignalSpan
<1>6. TailSignalSpan \in Int
  BY <1>2 DEF TailSignalSpan
<1> QED BY <1>3, <1>4, <1>5, <1>6
        DEF DpSignalBase, FillSignalBase, TailSignalBase, FutureSignalBase

\* They ascend.
LEMMA RangeOrder ==
  /\ DpSignalBase <= FillSignalBase /\ FillSignalBase <= TailSignalBase
  /\ TailSignalBase <= FutureSignalBase
<1>1. Len(RSet) \in Nat /\ Len(Profiles) \in Nat
  BY LenProperties, BytesAssumption, ProfilesAssumption
<1>2. Masks \in Nat
  BY BitFacts, <1>1 DEF Masks
<1>3. /\ MaxDpSegment \in Nat /\ MaxFill \in Nat /\ MaxTailZeros \in Nat
      /\ Radix \in Nat /\ Radix_2 \in Nat
  BY ThresholdsAssumption, RadixType
<1>4. DpSignalSpan \in Nat
  <2>1. Len(Profiles) * Masks \in Nat
    BY <1>1, <1>2
  <2> QED BY <1>3, <2>1 DEF DpSignalSpan
<1>5. FillSignalSpan \in Nat
  BY <1>3 DEF FillSignalSpan
<1>6. TailSignalSpan \in Nat
  <2>1. 2 * MaxTailZeros \in Nat
    BY <1>3
  <2> QED BY <1>3, <2>1 DEF TailSignalSpan
<1>7. FillSignalBase = DpSignalBase + DpSignalSpan
  BY DEF FillSignalBase
<1>8. TailSignalBase = FillSignalBase + FillSignalSpan
  BY DEF TailSignalBase
<1>9. FutureSignalBase = TailSignalBase + TailSignalSpan
  BY DEF FutureSignalBase
<1> QED BY <1>4, <1>5, <1>6, <1>7, <1>8, <1>9, RangeTypes

\* The length a passthrough signal gives.
LEMMA SegmentLength ==
  ASSUME NEW p \in Nat
  PROVE  SplitDp(p).len \in 1..MaxDpSegment
<1>1. MaxDpSegment \in Nat \ {0}
  BY ThresholdsAssumption
<1>2. p % MaxDpSegment \in 0..(MaxDpSegment - 1)
  BY <1>1
<1> QED BY <1>1, <1>2 DEF SplitDp

\* A segment's substitution gives bytes.
LEMMA TableBytes ==
  ASSUME NEW q, NEW mask \in SUBSET Byte
  PROVE  DpTable(q, mask) \in [AlphabetN -> Byte]
<1> DEFINE donors == Donors(q, mask)
<1>1. ASSUME NEW c \in AlphabetN, \E r \in mask : donors[r] = c
      PROVE  (CHOOSE r \in mask : donors[r] = c) \in Byte
  BY <1>1
<1> HIDE DEF donors
<1> QED BY <1>1, OctetIsByte DEF DpTable, donors

-----------------------------------------------------------------------------
(* Masks as numbers.                                                       *)

\* An R-Set character and its index.
LEMMA RSetIndexIs ==
  /\ Len(RSet) \in Nat
  /\ \A c \in RSetBytes : RSetIndex(c) \in 1..Len(RSet) /\ RSet[RSetIndex(c)] = c
<1>1. Len(RSet) \in Nat
  BY LenProperties, BytesAssumption
<1>2. ASSUME NEW c \in RSetBytes
      PROVE  RSetIndex(c) \in 1..Len(RSet) /\ RSet[RSetIndex(c)] = c
  <2>1. \E j \in 1..Len(RSet) : RSet[j] = c
    BY DEF RSetBytes
  <2> QED BY <2>1 DEF RSetIndex
<1> QED BY <1>1, <1>2

\* b[j] is what the first j R-Set characters add to the number of a mask.
Adds(b, mask) ==
  /\ b \in [0..Len(RSet) -> Nat] /\ b[0] = 0 /\ b[Len(RSet)] = MaskBits(mask)
  /\ \A j \in 1..Len(RSet) :
       b[j] = b[j - 1] + (IF RSet[j] \in mask THEN Bit[j - 1] ELSE 0)

\* The bits of a mask have running sums.
LEMMA MaskAdds ==
  ASSUME NEW mask
  PROVE  \E b : Adds(b, mask)
<1> DEFINE n == Len(RSet)
           x == [j \in 1..n |-> IF RSet[j] \in mask THEN Bit[j - 1] ELSE 0]
           f == [y \in (1..n) \X Nat |-> y[2] + x[y[1]]]
           bits[j \in 0..n] ==
             IF j = 0 THEN 0 ELSE bits[j - 1] + (IF RSet[j] \in mask THEN Bit[j - 1] ELSE 0)
<1>1. n \in Nat
  BY RSetIndexIs
<1>2. MaskBits(mask) = bits[n]
  BY DEF MaskBits
<1>3. \A j \in 1..n : x[j] \in Nat /\ x[j] = IF RSet[j] \in mask THEN Bit[j - 1] ELSE 0
  <2>1. \A j \in 1..n : Bit[j - 1] \in Nat
    <3> SUFFICES ASSUME NEW j \in 1..n PROVE Bit[j - 1] \in Nat
      OBVIOUS
    <3>1. j - 1 \in 0..n
      BY <1>1
    <3> QED BY <3>1, BitFacts
  <2> QED BY <2>1
<1> HIDE DEF n, x
<1>4. f \in [(1..n) \X Nat -> Nat] /\ 0 \in Nat
  BY <1>3
<1>5. PICK k : Recurs(k, n, Nat, 0, f)
  <2> HIDE DEF f
  <2> QED BY <1>1, <1>4, Recursion
<1>6. k \in [0..n -> Nat] /\ k[0] = 0 /\ \A i \in 1..n : k[i] = f[<<i, k[i - 1]>>]
  <2> HIDE DEF f
  <2> QED BY <1>5 DEF Recurs
<1>7. \A i \in 1..n : k[i] = k[i - 1] + (IF RSet[i] \in mask THEN Bit[i - 1] ELSE 0)
  <2> SUFFICES ASSUME NEW i \in 1..n
               PROVE  k[i] = k[i - 1] + (IF RSet[i] \in mask THEN Bit[i - 1] ELSE 0)
    OBVIOUS
  <2> DEFINE t == k[i - 1]
  <2>1. i - 1 \in 0..n
    BY <1>1
  <2>2. t \in Nat /\ k[i] = f[<<i, t>>]
    BY <1>6, <2>1
  <2> HIDE DEF t
  <2>3. f[<<i, t>>] = t + x[i]
    BY <2>2
  <2> QED BY <1>3, <2>2, <2>3 DEF t
<1> HIDE DEF f
<1>8. k = [j \in 0..n |->
             IF j = 0 THEN 0 ELSE k[j - 1] + (IF RSet[j] \in mask THEN Bit[j - 1] ELSE 0)]
  <2> DEFINE g == [j \in 0..n |->
             IF j = 0 THEN 0 ELSE k[j - 1] + (IF RSet[j] \in mask THEN Bit[j - 1] ELSE 0)]
  <2>1. ASSUME NEW j \in 0..n PROVE k[j] = g[j]
    <3>1. CASE j = 0
      BY <1>6, <3>1
    <3>2. CASE j # 0
      <4>1. j \in 1..n
        BY <1>1, <3>2
      <4> QED BY <1>7, <3>2, <4>1
    <3> QED BY <3>1, <3>2
  <2>2. k = [j \in 0..n |-> k[j]] /\ g = [j \in 0..n |-> g[j]]
    BY <1>6
  <2> HIDE DEF g
  <2>3. k = g
    BY <2>1, <2>2
  <2> QED BY <2>3 DEF g
<1>9. bits = [j \in 0..n |->
                IF j = 0 THEN 0
                ELSE bits[j - 1] + (IF RSet[j] \in mask THEN Bit[j - 1] ELSE 0)]
  BY <1>8
<1> HIDE DEF bits
<1>10. bits[0] = 0
       /\ \A j \in 1..n : bits[j] = bits[j - 1] + (IF RSet[j] \in mask THEN Bit[j - 1] ELSE 0)
  BY <1>1, <1>9
<1>11. \A j \in 1..n : bits[j - 1] \in Nat => bits[j] \in Nat
  <2> SUFFICES ASSUME NEW j \in 1..n, bits[j - 1] \in Nat PROVE bits[j] \in Nat
    OBVIOUS
  <2>1. bits[j] = bits[j - 1] + x[j] /\ x[j] \in Nat
    BY <1>3, <1>10
  <2> QED BY <2>1
<1>12. \A j \in 0..n : bits[j] \in Nat
  BY <1>1, <1>10, <1>11, RecursType, 0 \in Nat
<1>13. bits \in [0..n -> Nat]
  BY <1>9, <1>12
<1> QED BY <1>2, <1>10, <1>13 DEF Adds, n

\* What the R-Set characters after the first i add is a multiple of what the
\* next of them would.
LEMMA AddsAbove ==
  ASSUME NEW mask, NEW b, Adds(b, mask), NEW i \in 0..Len(RSet)
  PROVE  /\ b[i] \in 0..(Bit[i] - 1)
         /\ \E h \in Nat : MaskBits(mask) = h * Bit[i] + b[i]
<1> DEFINE n == Len(RSet)
           x(j) == IF RSet[j] \in mask THEN 1 ELSE 0
<1>1. /\ n \in Nat /\ i \in 0..n /\ Bit[0] = 1
      /\ \A j \in 1..n : Bit[j] = 2 * Bit[j - 1]
      /\ \A j \in 0..n : Bit[j] \in Nat \ {0}
  BY RSetIndexIs, BitFacts
<1>2. /\ b \in [0..n -> Nat] /\ b[0] = 0 /\ b[n] = MaskBits(mask)
      /\ \A j \in 1..n : b[j] = b[j - 1] + (IF RSet[j] \in mask THEN Bit[j - 1] ELSE 0)
  BY DEF Adds
<1> HIDE DEF n
<1>3. \A j \in 1..n : x(j) \in 0..1 /\ b[j] = b[j - 1] + x(j) * Bit[j - 1]
                       /\ j - 1 \in 0..n /\ j \in 0..n
  <2> SUFFICES ASSUME NEW j \in 1..n
               PROVE  x(j) \in 0..1 /\ b[j] = b[j - 1] + x(j) * Bit[j - 1]
                       /\ j - 1 \in 0..n /\ j \in 0..n
    OBVIOUS
  <2>1. j - 1 \in 0..n /\ j \in 0..n
    BY <1>1
  <2>2. Bit[j - 1] \in Nat /\ b[j - 1] \in Nat
    BY <1>1, <1>2, <2>1
  <2>3. CASE RSet[j] \in mask
    BY <1>2, <2>1, <2>2, <2>3
  <2>4. CASE RSet[j] \notin mask
    BY <1>2, <2>1, <2>2, <2>4
  <2> QED BY <2>3, <2>4
<1> HIDE DEF x
<1> DEFINE T == {j \in 0..n : b[j] \in 0..(Bit[j] - 1)}
<1>4. 0 \in T
  BY <1>1, <1>2
<1>5. \A j \in 1..n : j - 1 \in T => j \in T
  <2> SUFFICES ASSUME NEW j \in 1..n, j - 1 \in T PROVE j \in T
    OBVIOUS
  <2> DEFINE p == Bit[j - 1]  c == b[j - 1]
  <2>1. j \in 0..n /\ x(j) \in 0..1 /\ b[j] = c + x(j) * p /\ Bit[j] = 2 * p
    BY <1>1, <1>3
  <2>2. p \in Nat \ {0} /\ c \in 0..(p - 1)
    BY <1>1, <1>3
  <2> HIDE DEF p, c
  <2>3. x(j) = 0 \/ x(j) = 1
    BY <2>1
  <2>4. b[j] \in 0..(Bit[j] - 1)
    BY <2>1, <2>2, <2>3
  <2> QED BY <2>1, <2>4
<1>6. i \in T
  <2> HIDE DEF T
  <2>1. \A j \in 0..n : j \in T
    BY <1>1, <1>4, <1>5, CountingUp
  <2> QED BY <1>1, <2>1
<1> DEFINE up(j) == /\ \E m \in Nat : Bit[i + j] = m * Bit[i]
                    /\ \E h \in Nat : b[i + j] = h * Bit[i] + b[i]
           U == {j \in 0..(n - i) : up(j)}
<1>7. 0 \in U
  <2>1. i + 0 = i /\ 0 \in 0..(n - i) /\ Bit[i] \in Nat /\ b[i] \in Nat
    BY <1>1, <1>2
  <2>2. Bit[i] = 1 * Bit[i] /\ b[i] = 0 * Bit[i] + b[i]
    BY <2>1
  <2>3. up(0)
    BY <2>1, <2>2
  <2> HIDE DEF up
  <2> QED BY <2>1, <2>3
<1>8. \A j \in 1..(n - i) : j - 1 \in U => j \in U
  <2> SUFFICES ASSUME NEW j \in 1..(n - i), j - 1 \in U PROVE j \in U
    OBVIOUS
  <2> DEFINE l == i + (j - 1)  k == i + j
  <2>1. k \in 1..n /\ l = k - 1 /\ j \in 0..(n - i)
    BY <1>1
  <2>2. PICK m \in Nat : Bit[l] = m * Bit[i]
    OBVIOUS
  <2>3. PICK h \in Nat : b[l] = h * Bit[i] + b[i]
    OBVIOUS
  <2> HIDE DEF l, k
  <2>4. Bit[k] = 2 * Bit[l] /\ b[k] = b[l] + x(k) * Bit[l] /\ x(k) \in 0..1
    BY <1>1, <1>3, <2>1
  <2> DEFINE p == Bit[i]  c == b[i]
  <2>5. p \in Nat /\ c \in Nat
    BY <1>1, <1>2
  <2> HIDE DEF p, c
  <2>6. Bit[k] = (2 * m) * p /\ 2 * m \in Nat
    BY <2>2, <2>4, <2>5 DEF p
  <2>7. b[k] = (h + x(k) * m) * p + c /\ h + x(k) * m \in Nat
    <3>1. x(k) = 0 \/ x(k) = 1
      BY <2>4
    <3>2. b[k] = h * p + c + x(k) * (m * p)
      BY <2>2, <2>3, <2>4 DEF p, c
    <3>3. CASE x(k) = 0
      BY <2>5, <3>2, <3>3
    <3>4. CASE x(k) = 1
      <4>1. b[k] = h * p + c + m * p /\ (h + m) * p = h * p + m * p
        BY <2>5, <3>2, <3>4
      <4> QED BY <2>5, <3>4, <4>1
    <3> QED BY <3>1, <3>3, <3>4
  <2>8. up(j)
    BY <2>6, <2>7 DEF k, p, c
  <2> HIDE DEF up
  <2> QED BY <2>1, <2>8
<1>9. up(n - i)
  <2> DEFINE r == n - i
  <2>1. r \in Nat /\ 0..r = 0..(n - i)
    BY <1>1
  <2> HIDE DEF U, r
  <2>2. \A j \in 0..r : j \in U
    BY <1>7, <1>8, <2>1, CountingUp DEF r
  <2>3. r \in U
    BY <2>1, <2>2
  <2> QED BY <2>3 DEF U, r
<1>10. i + (n - i) = n
  BY <1>1
<1>11. \E h \in Nat : b[n] = h * Bit[i] + b[i]
  BY <1>9, <1>10
<1> QED BY <1>2, <1>6, <1>11

\* A mask is read back from its number.
LEMMA MaskRead ==
  ASSUME NEW mask \in SUBSET RSetBytes
  PROVE  /\ MaskBits(mask) \in 0..(Masks - 1)
         /\ {c \in RSetBytes : (MaskBits(mask) \div Bit[RSetIndex(c) - 1]) % 2 = 1} = mask
<1> DEFINE n == Len(RSet)
<1>1. n \in Nat /\ n \in 0..n
  BY RSetIndexIs
<1>2. PICK b : Adds(b, mask)
  BY MaskAdds
<1>3. MaskBits(mask) \in 0..(Masks - 1)
  <2>1. b[n] \in 0..(Bit[n] - 1) /\ b[n] = MaskBits(mask)
    BY <1>1, <1>2, AddsAbove DEF Adds
  <2> QED BY <2>1 DEF Masks
<1>4. ASSUME NEW c \in RSetBytes
      PROVE  (MaskBits(mask) \div Bit[RSetIndex(c) - 1]) % 2 = 1 <=> c \in mask
  <2> DEFINE i == RSetIndex(c)  j == i - 1  x == IF c \in mask THEN 1 ELSE 0
  <2>1. i \in 1..n /\ RSet[i] = c
    BY RSetIndexIs
  <2> HIDE DEF i
  <2>2. j \in 0..n /\ i \in 0..n
    BY <1>1, <2>1
  <2>3. Bit[i] = 2 * Bit[j] /\ Bit[j] \in Nat \ {0}
    BY <2>1, <2>2, BitFacts
  <2>4. b[i] = b[j] + (IF c \in mask THEN Bit[j] ELSE 0)
    BY <1>2, <2>1 DEF Adds
  <2>5. b[j] \in 0..(Bit[j] - 1)
    BY <1>2, <2>2, AddsAbove
  <2>6. PICK h \in Nat : MaskBits(mask) = h * Bit[i] + b[i]
    BY <1>2, <2>2, AddsAbove
  <2> DEFINE p == Bit[j]  r == b[j]
  <2>7. p \in Nat \ {0} /\ r \in 0..(p - 1) /\ Bit[i] = 2 * p
        /\ b[i] = r + (IF c \in mask THEN p ELSE 0)
    BY <2>3, <2>4, <2>5
  <2> HIDE DEF p, r, j
  <2>8. MaskBits(mask) = p * (2 * h + x) + r
    BY <2>6, <2>7
  <2>9. 2 * h + x \in Int /\ (2 * h + x) % 2 = x
    OBVIOUS
  <2> HIDE DEF x
  <2>10. MaskBits(mask) \div p = 2 * h + x
    <3>1. Splits(MaskBits(mask), p, 2 * h + x, r)
      BY <2>7, <2>8, <2>9 DEF Splits
    <3> QED BY <3>1, SplitsBy
  <2>11. (MaskBits(mask) \div Bit[RSetIndex(c) - 1]) % 2 = x
    BY <2>9, <2>10 DEF p, j, i
  <2> QED BY <2>11 DEF x
<1>5. {c \in RSetBytes : (MaskBits(mask) \div Bit[RSetIndex(c) - 1]) % 2 = 1} = mask
  BY <1>4
<1> QED BY <1>3, <1>5

-----------------------------------------------------------------------------
(* Signals.                                                                *)

\* A passthrough signal is in its range and is taken apart into what it was made
\* of (dp_signal in encode.rs, split_dp in decode.rs).
LEMMA DpSignalRead ==
  ASSUME NEW q \in ProfileIds, NEW mask \in SUBSET RSetBytes, NEW len \in 1..MaxDpSegment,
         NEW v, v = DpSignal(q, mask, len)
  PROVE  /\ v \in DpSignalBase..(FillSignalBase - 1)
         /\ SplitDp(v - DpSignalBase) = [len |-> len, mask |-> mask, profile |-> q]
<1> DEFINE N == Len(Profiles)
           m == MaskBits(mask)
           K == (q - 1) * Masks + m
           P == K * MaxDpSegment + (len - 1)
<1>1. N \in Nat \ {0} /\ q - 1 \in 0..(N - 1) /\ q \in Int
  <2>1. N \in Nat
    BY ProfilesAssumption, LenProperties
  <2>2. q \in 1..N
    BY DEF ProfileIds
  <2> QED BY <2>1, <2>2
<1>2. m \in 0..(Masks - 1) /\ Masks \in Nat \ {0}
  <2>1. Len(RSet) \in 0..Len(RSet)
    BY RSetIndexIs
  <2> QED BY <2>1, MaskRead, BitFacts DEF Masks
<1>3. MaxDpSegment \in Nat \ {0} /\ len - 1 \in 0..(MaxDpSegment - 1) /\ len \in Int
  BY ThresholdsAssumption
<1>4. v - DpSignalBase = P /\ DpSignalBase \in Int
  <2>1. P \in Int
    <3> HIDE DEF m
    <3> QED BY <1>1, <1>2, <1>3
  <2>2. v = DpSignalBase + K * MaxDpSegment + (len - 1)
    BY DEF DpSignal
  <2>3. K * MaxDpSegment \in Int
    <3> HIDE DEF m
    <3> QED BY <1>1, <1>2, <1>3
  <2> QED BY <1>3, <2>1, <2>2, <2>3, RangeTypes
<1> HIDE DEF N, m
<1>5. K \in 0..(Masks * N - 1)
  BY <1>1, <1>2, MixedRange
<1>6. K \div Masks = q - 1 /\ K % Masks = m
  <2>1. Splits(K, Masks, q - 1, m)
    BY <1>1, <1>2 DEF Splits
  <2> HIDE DEF K
  <2> QED BY <2>1, SplitsBy
<1> HIDE DEF K
<1>7. Masks * N \in Nat \ {0} /\ K \in Nat
  BY <1>1, <1>2, <1>5
<1>8. P \in 0..(MaxDpSegment * (Masks * N) - 1)
  <2> DEFINE z == Masks * N
  <2>1. z \in Nat \ {0} /\ K \in 0..(z - 1)
    BY <1>5, <1>7
  <2> HIDE DEF z
  <2>2. P \in 0..(MaxDpSegment * z - 1)
    BY <1>3, <2>1, MixedRange
  <2> QED BY <2>2 DEF z
<1>9. P \div MaxDpSegment = K /\ P % MaxDpSegment = len - 1
  <2>1. Splits(P, MaxDpSegment, K, len - 1)
    BY <1>3, <1>7 DEF Splits
  <2> HIDE DEF P
  <2> QED BY <2>1, SplitsBy
<1>10. DpSignalSpan = MaxDpSegment * (Masks * N)
  BY <1>1, <1>2, <1>3 DEF DpSignalSpan, N
<1> HIDE DEF P
<1>11. v \in DpSignalBase..(FillSignalBase - 1)
  <2>1. P \in 0..(DpSignalSpan - 1) /\ DpSignalSpan \in Nat
    <3> DEFINE z == Masks * N
    <3>1. z \in Nat \ {0}
      BY <1>7
    <3> HIDE DEF z
    <3>2. MaxDpSegment * z \in Nat
      BY <1>3, <3>1
    <3> QED BY <1>8, <1>10, <3>2 DEF z
  <2>2. v = DpSignalBase + P
    <3>1. v \in Int
      BY <1>1, <1>2, <1>3, <1>4, RangeTypes DEF DpSignal, m
    <3> QED BY <1>4, <2>1, <3>1
  <2> QED BY <1>4, <2>1, <2>2 DEF FillSignalBase
<1>12. P \in Nat
  BY <1>7, <1>8, <1>3
<1>13. P \div (MaxDpSegment * Masks) = q - 1
  BY <1>2, <1>3, <1>6, <1>9, <1>12, DivisionTwice
<1>14. /\ (P % MaxDpSegment) + 1 = len
       /\ (P \div (MaxDpSegment * Masks)) + 1 = q
       /\ (P \div MaxDpSegment) % Masks = m
  BY <1>1, <1>3, <1>6, <1>9, <1>13
<1>15. SplitDp(P) = [len |-> len, mask |-> mask, profile |-> q]
  BY <1>14, MaskRead DEF SplitDp, m
<1> QED BY <1>4, <1>11, <1>15

\* So is one for a run of one byte (fill_signal, split_fill).
LEMMA FillSignalRead ==
  ASSUME NEW byte \in Byte, NEW len \in 1..MaxFill, NEW v, v = FillSignal(byte, len)
  PROVE  /\ v \in FillSignalBase..(TailSignalBase - 1)
         /\ SplitFill(v - FillSignalBase) = [len |-> len, byte |-> byte]
<1> DEFINE P == byte * MaxFill + (len - 1)
<1>1. MaxFill \in Nat \ {0} /\ len - 1 \in 0..(MaxFill - 1) /\ len \in Int
  BY ThresholdsAssumption
<1>2. Radix \in Nat \ {0} /\ byte \in 0..(Radix - 1)
  BY RadixType, OctetIsByte DEF Octet
<1>3. P \in 0..(MaxFill * Radix - 1)
  BY <1>1, <1>2, MixedRange
<1>4. P \div MaxFill = byte /\ P % MaxFill = len - 1
  <2>1. Splits(P, MaxFill, byte, len - 1)
    BY <1>1, <1>2 DEF Splits
  <2> HIDE DEF P
  <2> QED BY <2>1, SplitsBy
<1>5. P \in Int /\ byte * MaxFill \in Int
  BY <1>1, <1>2
<1>6. v = FillSignalBase + P /\ FillSignalBase \in Int
  BY <1>1, <1>5, RangeTypes DEF FillSignal
<1>7. FillSignalSpan = MaxFill * Radix /\ FillSignalSpan \in Int
  BY <1>1, <1>2 DEF FillSignalSpan
<1> HIDE DEF P
<1>8. v \in FillSignalBase..(TailSignalBase - 1)
  BY <1>3, <1>5, <1>6, <1>7 DEF TailSignalBase
<1>9. v - FillSignalBase = P
  BY <1>5, <1>6
<1>10. SplitFill(P) = [len |-> len, byte |-> byte]
  <2>1. (P % MaxFill) + 1 = len
    BY <1>1, <1>4
  <2> QED BY <1>4, <2>1 DEF SplitFill
<1> QED BY <1>8, <1>9, <1>10

\* And one for zeros with two other bytes (tail_signal, split_tail).
LEMMA TailSignalRead ==
  ASSUME NEW zeros \in 1..MaxTailZeros, NEW order \in 0..1, NEW lit \in [1..2 -> Byte],
         NEW v, v = TailSignal(zeros, order, lit)
  PROVE  /\ v \in TailSignalBase..(FutureSignalBase - 1)
         /\ SplitTail(v - TailSignalBase)
              = [zeros |-> zeros, order |-> order, lit |-> <<lit[1], lit[2]>>]
<1> DEFINE M == MaxTailZeros
           F == order * M + (zeros - 1)
           X == F * Radix + lit[1]
           P == X * Radix + lit[2]
<1>1. M \in Nat \ {0} /\ zeros - 1 \in 0..(M - 1) /\ zeros \in Int /\ order \in Int
      /\ 2 \in Nat \ {0} /\ order \in 0..(2 - 1)
  BY ThresholdsAssumption
<1>2. Radix \in Nat \ {0} /\ lit[1] \in 0..(Radix - 1) /\ lit[2] \in 0..(Radix - 1)
  BY RadixType, OctetIsByte DEF Octet
<1>3. F \in 0..(M * 2 - 1) /\ M * 2 \in Nat \ {0} /\ F \in Nat
  <2>1. F \in 0..(M * 2 - 1)
    BY <1>1, MixedRange
  <2> HIDE DEF F
  <2> QED BY <1>1, <2>1
<1>4. F \div M = order /\ F % M = zeros - 1
  <2>1. Splits(F, M, order, zeros - 1)
    BY <1>1 DEF Splits
  <2> HIDE DEF F
  <2> QED BY <2>1, SplitsBy
<1> HIDE DEF F, M
<1>5. X \in 0..(Radix * (M * 2) - 1) /\ Radix * (M * 2) \in Nat \ {0} /\ X \in Nat
  <2> DEFINE z == M * 2
  <2>1. z \in Nat \ {0} /\ F \in 0..(z - 1)
    BY <1>3
  <2> HIDE DEF z
  <2>2. X \in 0..(Radix * z - 1)
    BY <1>2, <2>1, MixedRange
  <2>3. Radix * z \in Nat \ {0}
    BY <1>2, <2>1
  <2> HIDE DEF X
  <2> QED BY <2>2, <2>3 DEF z
<1>6. X \div Radix = F /\ X % Radix = lit[1]
  <2>1. Splits(X, Radix, F, lit[1])
    BY <1>2, <1>3 DEF Splits
  <2> HIDE DEF X
  <2> QED BY <2>1, SplitsBy
<1> HIDE DEF X
<1>7. P \in 0..(Radix * (Radix * (M * 2)) - 1) /\ P \in Nat
  <2> DEFINE z == Radix * (M * 2)
  <2>1. z \in Nat \ {0} /\ X \in 0..(z - 1)
    BY <1>5
  <2> HIDE DEF z
  <2>2. P \in 0..(Radix * z - 1)
    BY <1>2, <2>1, MixedRange
  <2> QED BY <2>2 DEF z
<1>8. P \div Radix = X /\ P % Radix = lit[2]
  <2>1. Splits(P, Radix, X, lit[2])
    BY <1>2, <1>5 DEF Splits
  <2> HIDE DEF P
  <2> QED BY <2>1, SplitsBy
<1>9. P \div Radix_2 = F
  BY <1>2, <1>6, <1>7, <1>8, DivisionTwice DEF Radix_2
<1>10. TailSignalSpan = Radix * (Radix * (M * 2)) /\ TailSignalSpan \in Int
  BY <1>1, <1>2 DEF TailSignalSpan, Radix_2, M
<1>11. v = TailSignalBase + P /\ TailSignalBase \in Int
  <2>1. v = TailSignalBase + X * Radix + lit[2]
    BY DEF TailSignal, X, F, M
  <2>2. X * Radix \in Int
    BY <1>2, <1>5
  <2> QED BY <1>2, <2>1, <2>2, RangeTypes
<1> HIDE DEF P
<1>12. v \in TailSignalBase..(FutureSignalBase - 1)
  BY <1>7, <1>10, <1>11 DEF FutureSignalBase
<1>13. v - TailSignalBase = P
  BY <1>7, <1>11
<1>14. SplitTail(P) = [zeros |-> zeros, order |-> order, lit |-> <<lit[1], lit[2]>>]
  <2>1. ((P \div Radix_2) % MaxTailZeros) + 1 = zeros /\ (P \div Radix_2) \div MaxTailZeros = order
    BY <1>1, <1>4, <1>9 DEF M
  <2> QED BY <1>6, <1>8, <2>1 DEF SplitTail
<1> QED BY <1>12, <1>13, <1>14

-----------------------------------------------------------------------------
(* What is written, character by character.                                *)

\* The character of a digit has that digit for its value.
LEMMA CharOfDigit ==
  ASSUME NEW v \in Digit
  PROVE  CharOf(v) \in AlphabetN /\ ValueOf(CharOf(v)) = v
<1>1. v + 1 \in 1..Base /\ v \in Int /\ (v + 1) - 1 = v
  BY BaseType DEF Digit
<1>2. Alphabet[v + 1] \in AlphabetN
  BY <1>1, WireAssumption, ElementOfSeq
<1> DEFINE i == CHOOSE i \in 1..Base : Alphabet[i] = Alphabet[v + 1]
<1>3. i \in 1..Base /\ Alphabet[i] = Alphabet[v + 1]
  BY <1>1
<1>4. ValueOf(CharOf(v)) = i - 1
  BY <1>2 DEF ValueOf, CharOf
<1> HIDE DEF i
<1>5. i = v + 1
  BY <1>1, <1>3, WireAssumption
<1> QED BY <1>1, <1>2, <1>4, <1>5 DEF CharOf

\* Digits are read back from their characters.
LEMMA CharactersRead ==
  ASSUME NEW g \in Seq(Digit)
  PROVE  /\ Characters(g) \in Seq(AlphabetN) /\ Len(Characters(g)) = Len(g)
         /\ Values(Characters(g)) = g
<1> DEFINE c == Characters(g)
<1>1. Len(g) \in Nat /\ \A i \in 1..Len(g) : g[i] \in Digit
  BY LenProperties, ElementOfSeq
<1>2. c = [i \in 1..Len(g) |-> CharOf(g[i])]
  BY DEF Characters
<1>3. \A i \in 1..Len(g) : c[i] \in AlphabetN /\ ValueOf(c[i]) = g[i]
  BY <1>1, <1>2, CharOfDigit
<1> HIDE DEF c
<1>4. c \in [1..Len(g) -> AlphabetN]
  BY <1>2, <1>3
<1>5. c \in Seq(AlphabetN) /\ Len(c) = Len(g)
  BY <1>1, <1>4, SeqDef, LenProperties
<1>6. Values(c) = [i \in 1..Len(g) |-> g[i]]
  BY <1>3, <1>5 DEF Values
<1>7. g = [i \in 1..Len(g) |-> g[i]]
  BY LenProperties
<1> QED BY <1>5, <1>6, <1>7 DEF c

\* A value that five digits can have is read back from its characters.
LEMMA SignalRead ==
  ASSUME NEW v \in 0..(Base_5 - 1)
  PROVE  /\ Signal(v) \in Seq(AlphabetN) /\ Len(Signal(v)) = 5
         /\ WeighDigits(Values(Signal(v))) = v
<1> DEFINE g == ValueToDigits(v)
<1>1. g \in Seq(Digit) /\ Len(g) = 5 /\ DigitsToValue(g) = v
  BY ValueRoundTrip
<1> HIDE DEF g
<1>2. /\ Characters(g) \in Seq(AlphabetN) /\ Len(Characters(g)) = 5
      /\ Values(Characters(g)) = g
  BY <1>1, CharactersRead
<1>3. WeighDigits(g) = v
  BY <1>1, WeighAgrees
<1> QED BY <1>2, <1>3 DEF Signal, g

\* There are no more R-Set characters than the R-Set has.
LEMMA RSetFinite ==
  /\ IsFiniteSet(RSetBytes) /\ Cardinality(RSetBytes) \in Nat
  /\ Cardinality(RSetBytes) <= Len(RSet)
<1> DEFINE n == Len(RSet)  f == [j \in 1..n |-> RSet[j]]
<1>1. n \in Nat
  BY BytesAssumption, LenProperties
<1>2. f \in Surjection(1..n, RSetBytes)
  BY DEF RSetBytes, Surjection
<1> HIDE DEF n, f
<1>3. IsFiniteSet(1..n) /\ Cardinality(1..n) = n
  <2>1. IsFiniteSet(1..n) /\ Cardinality(1..n) = IF 1 > n THEN 0 ELSE n - 1 + 1
    BY <1>1, FS_Interval, 1 \in Int, n \in Int
  <2> QED BY <1>1, <2>1
<1> QED BY <1>2, <1>3, FS_Surjection, FS_CardinalityType DEF n

\* A segment spends a donor on each character of its mask, and no two on the
\* same: the characters of a mask in index order are its first, second, ...
LEMMA DonorsApart ==
  ASSUME NEW q \in ProfileIds, NEW mask \in SUBSET RSetBytes
  PROVE  /\ DOMAIN Donors(q, mask) = mask
         /\ \A c \in mask : Donors(q, mask)[c] \in AlphabetN
         /\ \A c \in mask, x \in mask : Donors(q, mask)[c] = Donors(q, mask)[x] => c = x
<1> DEFINE n == Len(RSet)
           upTo(c) == {x \in mask : RSetIndex(x) <= RSetIndex(c)}
           at == [c \in mask |-> Cardinality(upTo(c))]
<1>1. n \in Nat /\ \A c \in mask : RSetIndex(c) \in 1..n /\ RSet[RSetIndex(c)] = c
  BY RSetIndexIs
<1>2. \A c \in mask : RSetIndex(c) \in Int
  BY <1>1
<1>3. IsFiniteSet(RSetBytes) /\ Cardinality(RSetBytes) \in Nat /\ Cardinality(RSetBytes) <= n
  BY RSetFinite
<1> HIDE DEF n
<1>4. ASSUME NEW c \in mask PROVE at[c] \in 1..n
  <2>1. upTo(c) \in SUBSET RSetBytes /\ c \in upTo(c)
    BY <1>2
  <2>2. /\ IsFiniteSet(upTo(c)) /\ Cardinality(upTo(c)) <= Cardinality(RSetBytes)
        /\ Cardinality(upTo(c)) \in Nat
    BY <1>3, <2>1, FS_Subset, FS_CardinalityType
  <2>3. Cardinality(upTo(c)) # 0
    BY <2>1, <2>2, FS_EmptySet
  <2> QED BY <1>1, <1>3, <2>2, <2>3
<1>5. ASSUME NEW c \in mask, NEW x \in mask, at[c] = at[x] PROVE c = x
  <2>1. \A a \in mask, b \in mask : RSetIndex(a) <= RSetIndex(b) => upTo(a) \subseteq upTo(b)
    BY <1>2
  <2>2. \A a \in mask, b \in mask :
          RSetIndex(a) <= RSetIndex(b) /\ at[a] = at[b] => upTo(a) = upTo(b)
    <3> SUFFICES ASSUME NEW a \in mask, NEW b \in mask, RSetIndex(a) <= RSetIndex(b),
                        at[a] = at[b]
                 PROVE  upTo(a) = upTo(b)
      OBVIOUS
    <3>1. upTo(b) \in SUBSET RSetBytes
      OBVIOUS
    <3>2. IsFiniteSet(upTo(b))
      BY <1>3, <3>1, FS_Subset
    <3>3. upTo(a) \subseteq upTo(b) /\ Cardinality(upTo(a)) = Cardinality(upTo(b))
      BY <2>1
    <3> HIDE DEF upTo
    <3> QED BY <3>2, <3>3, FS_Subset
  <2>3. upTo(c) = upTo(x)
    BY <1>2, <1>5, <2>2
  <2>4. RSetIndex(c) <= RSetIndex(x) /\ RSetIndex(x) <= RSetIndex(c)
    BY <1>2, <2>3
  <2> QED BY <1>1, <1>2, <2>4
<1>6. DOMAIN Donors(q, mask) = mask /\ \A c \in mask : Donors(q, mask)[c] = Profiles[q][at[c]]
  BY DEF Donors
<1> HIDE DEF at, upTo
<1>7. \A j \in 1..n : Profiles[q][j] \in AlphabetN
  BY ProfilesAssumption, ElementOfSeq DEF ProfileIds, n
<1>8. \A i \in 1..n, j \in 1..n : Profiles[q][i] = Profiles[q][j] => i = j
  BY ProfilesAssumption DEF n
<1> QED BY <1>4, <1>5, <1>6, <1>7, <1>8

\* A segment's characters are read back as what they were written for: an R-Set
\* character for its donor, and a character that is no donor for itself.
LEMMA TableRead ==
  ASSUME NEW q \in ProfileIds, NEW mask \in SUBSET RSetBytes, NEW donors,
         donors = Donors(q, mask)
  PROVE  /\ \A r \in mask : donors[r] \in AlphabetN /\ DpTable(q, mask)[donors[r]] = r
         /\ \A c \in AlphabetN \ {donors[r] : r \in mask} : DpTable(q, mask)[c] = c
<1>1. /\ \A c \in mask : donors[c] \in AlphabetN
      /\ \A c \in mask, x \in mask : donors[c] = donors[x] => c = x
  BY DonorsApart
<1>2. DpTable(q, mask) = [c \in AlphabetN |->
        IF \E r \in mask : donors[r] = c THEN CHOOSE r \in mask : donors[r] = c ELSE c]
  BY DEF DpTable
<1>3. ASSUME NEW r \in mask PROVE DpTable(q, mask)[donors[r]] = r
  <2> DEFINE x == CHOOSE x \in mask : donors[x] = donors[r]
  <2>1. x \in mask /\ donors[x] = donors[r]
    OBVIOUS
  <2>2. DpTable(q, mask)[donors[r]] = x
    BY <1>1, <1>2
  <2> HIDE DEF x
  <2> QED BY <1>1, <2>1, <2>2
<1> QED BY <1>1, <1>2, <1>3

-----------------------------------------------------------------------------
(* What the loops over a text compute.                                     *)

\* k[i] is what the loop that leaves white space out of s has of i characters.
Filters(k, C, s) ==
  /\ k \in [0..Len(s) -> Seq(C)]
  /\ k[0] = <<>> /\ k[Len(s)] = WithoutSpace(s)
  /\ \A i \in 1..Len(s) :
       k[i] = IF s[i] \in Whitespace THEN k[i - 1] ELSE Append(k[i - 1], s[i])

\* There is such a function.
LEMMA WithoutSpaceLoop ==
  ASSUME NEW C, NEW s \in Seq(C)
  PROVE  \E k : Filters(k, C, s)
<1> DEFINE n == Len(s)
           f == [x \in (1..n) \X Seq(C) |->
                   IF s[x[1]] \in Whitespace THEN x[2] ELSE Append(x[2], s[x[1]])]
           kept[i \in 0..n] ==
             IF i = 0 THEN <<>>
             ELSE IF s[i] \in Whitespace THEN kept[i - 1] ELSE Append(kept[i - 1], s[i])
<1>1. n \in Nat /\ \A i \in 1..n : s[i] \in C
  BY LenProperties, ElementOfSeq
<1>2. WithoutSpace(s) = kept[n]
  BY DEF WithoutSpace
<1> HIDE DEF n
<1>3. f \in [(1..n) \X Seq(C) -> Seq(C)] /\ <<>> \in Seq(C)
  <2>1. \A i \in 1..n, t \in Seq(C) : Append(t, s[i]) \in Seq(C)
    BY <1>1, AppendProperties
  <2> QED BY <2>1
<1>4. PICK k : Recurs(k, n, Seq(C), <<>>, f)
  <2> HIDE DEF f
  <2> QED BY <1>1, <1>3, Recursion
<1>5. k \in [0..n -> Seq(C)] /\ k[0] = <<>> /\ \A i \in 1..n : k[i] = f[<<i, k[i - 1]>>]
  <2> HIDE DEF f
  <2> QED BY <1>4 DEF Recurs
<1>6. \A i \in 1..n :
        k[i] = IF s[i] \in Whitespace THEN k[i - 1] ELSE Append(k[i - 1], s[i])
  <2> SUFFICES ASSUME NEW i \in 1..n
               PROVE  k[i] = IF s[i] \in Whitespace THEN k[i - 1] ELSE Append(k[i - 1], s[i])
    OBVIOUS
  <2> DEFINE t == k[i - 1]
  <2>1. i - 1 \in 0..n
    BY <1>1
  <2>2. t \in Seq(C) /\ k[i] = f[<<i, t>>]
    BY <1>5, <2>1
  <2> HIDE DEF t
  <2>3. f[<<i, t>>] = IF s[i] \in Whitespace THEN t ELSE Append(t, s[i])
    BY <2>2
  <2> QED BY <2>2, <2>3 DEF t
<1> HIDE DEF f
<1>7. k = [i \in 0..n |-> IF i = 0 THEN <<>>
                          ELSE IF s[i] \in Whitespace THEN k[i - 1] ELSE Append(k[i - 1], s[i])]
  <2> DEFINE g == [i \in 0..n |-> IF i = 0 THEN <<>>
                     ELSE IF s[i] \in Whitespace THEN k[i - 1] ELSE Append(k[i - 1], s[i])]
  <2>1. ASSUME NEW i \in 0..n PROVE k[i] = g[i]
    <3>1. CASE i = 0
      BY <1>1, <1>5, <3>1
    <3>2. CASE i # 0
      <4>1. i \in 1..n
        BY <1>1, <3>2
      <4> QED BY <1>6, <4>1
    <3> QED BY <3>1, <3>2
  <2>2. DOMAIN k = 0..n /\ DOMAIN g = 0..n
    BY <1>5
  <2>3. k = [i \in 0..n |-> k[i]] /\ g = [i \in 0..n |-> g[i]]
    BY <1>5
  <2> HIDE DEF g
  <2>4. k = g
    BY <2>1, <2>3
  <2> QED BY <2>4 DEF g
<1>8. kept = [i \in 0..n |-> IF i = 0 THEN <<>>
                             ELSE IF s[i] \in Whitespace THEN kept[i - 1]
                             ELSE Append(kept[i - 1], s[i])]
  BY <1>7
<1> HIDE DEF kept
<1> DEFINE T == {i \in 0..n : kept[i] = k[i]}
<1>9. 0 \in T
  BY <1>1, <1>5, <1>8
<1>10. \A i \in 1..n : i - 1 \in T => i \in T
  <2> SUFFICES ASSUME NEW i \in 1..n, i - 1 \in T PROVE i \in T
    OBVIOUS
  <2>1. i \in 0..n /\ i # 0 /\ i - 1 \in 0..n /\ kept[i - 1] = k[i - 1]
    BY <1>1
  <2>2. kept[i] = IF s[i] \in Whitespace THEN kept[i - 1] ELSE Append(kept[i - 1], s[i])
    BY <1>8, <2>1
  <2> QED BY <1>6, <2>1, <2>2
<1>11. kept[n] = k[n]
  <2>1. n \in T
    <3>1. n \in Nat
      BY <1>1
    <3> HIDE DEF T
    <3>2. \A i \in 0..n : i \in T
      BY <1>9, <1>10, <3>1, CountingUp
    <3> QED BY <3>1, <3>2
  <2> QED BY <2>1
<1> QED BY <1>2, <1>5, <1>6, <1>11 DEF n, Filters

\* How many characters are left of the first i.
KeptOf(s, i) == Len(WithoutSpace(SubSeq(s, 1, i)))

\* The loop over a part of s is the first part of the loop over s.
LEMMA WithoutSpaceParts ==
  ASSUME NEW C, NEW s \in Seq(C)
  PROVE  \E k : /\ Filters(k, C, s)
               /\ \A i \in 0..Len(s) : WithoutSpace(SubSeq(s, 1, i)) = k[i]
<1> DEFINE n == Len(s)
<1>1. n \in Nat /\ \A i \in 1..n : s[i] \in C
  BY LenProperties, ElementOfSeq
<1>2. PICK k : /\ Filters(k, C, s)
             /\ k \in [0..n -> Seq(C)] /\ k[0] = <<>> /\ k[n] = WithoutSpace(s)
             /\ \A i \in 1..n :
                  k[i] = IF s[i] \in Whitespace THEN k[i - 1] ELSE Append(k[i - 1], s[i])
  BY WithoutSpaceLoop DEF Filters
<1> HIDE DEF n
<1>3. ASSUME NEW m \in 0..n PROVE WithoutSpace(SubSeq(s, 1, m)) = k[m]
  <2> DEFINE p == SubSeq(s, 1, m)
  <2>1. p \in Seq(C) /\ Len(p) = m /\ \A i \in 1..m : p[i] = s[i]
    <3>1. \A i \in 1..m : s[i] \in C
      BY <1>1
    <3>2. m \in Nat /\ 1 <= m + 1 /\ m - 1 + 1 = m
      BY <1>1
    <3>3. p \in Seq(C) /\ Len(p) = m - 1 + 1 /\ \A i \in 1..(m - 1 + 1) : p[i] = s[1 + i - 1]
      BY <3>1, <3>2, SubSeqProperties
    <3>4. \A i \in 1..m : 1 + i - 1 = i
      BY <3>2
    <3> QED BY <3>2, <3>3, <3>4
  <2> HIDE DEF p
  <2>2. PICK h : Filters(h, C, p)
    BY <2>1, WithoutSpaceLoop
  <2> DEFINE T == {i \in 0..m : h[i] = k[i]}
  <2>3. 0 \in T /\ m \in Nat
    BY <1>1, <1>2, <2>2 DEF Filters
  <2>4. ASSUME NEW i \in 1..m, i - 1 \in T PROVE i \in T
    <3>1. i \in 1..n /\ i \in 0..m /\ h[i - 1] = k[i - 1] /\ p[i] = s[i]
      BY <1>1, <2>1, <2>4
    <3> QED BY <1>2, <2>1, <2>2, <3>1 DEF Filters
  <2> HIDE DEF T
  <2>5. \A i \in 0..m : i \in T
    BY <2>3, <2>4, CountingUp
  <2> QED BY <2>1, <2>2, <2>3, <2>5 DEF T, p, Filters
<1> QED BY <1>2, <1>3 DEF n

\* No white space is left, nothing else is lost, and a text without any is
\* left as it is.
LEMMA WithoutSpaceFacts ==
  ASSUME NEW C, NEW s \in Seq(C)
  PROVE  /\ WithoutSpace(s) \in Seq(C)
         /\ Len(WithoutSpace(s)) \in 0..Len(s)
         /\ \A j \in 1..Len(WithoutSpace(s)) : WithoutSpace(s)[j] \notin Whitespace
         /\ (\A i \in 1..Len(s) : s[i] \notin Whitespace) => WithoutSpace(s) = s
<1> DEFINE n == Len(s)
<1>1. n \in Nat /\ \A i \in 1..n : s[i] \in C
  BY LenProperties, ElementOfSeq
<1>2. PICK k : /\ k \in [0..n -> Seq(C)] /\ k[0] = <<>> /\ k[n] = WithoutSpace(s)
             /\ \A i \in 1..n :
                  k[i] = IF s[i] \in Whitespace THEN k[i - 1] ELSE Append(k[i - 1], s[i])
  BY WithoutSpaceLoop DEF Filters
<1> HIDE DEF n
<1> DEFINE clean(t) == \A j \in 1..Len(t) : t[j] \notin Whitespace
           none == \A i \in 1..n : s[i] \notin Whitespace
           T == {i \in 0..n : /\ Len(k[i]) <= i /\ clean(k[i])
                              /\ none => Len(k[i]) = i /\ \A j \in 1..i : k[i][j] = s[j]}
<1>3. 0 \in T
  BY <1>1, <1>2
<1>4. ASSUME NEW i \in 1..n, i - 1 \in T PROVE i \in T
  <2> DEFINE t == k[i - 1]
  <2>1. /\ i \in 0..n /\ i - 1 \in 0..n /\ t \in Seq(C) /\ Len(t) \in Nat /\ s[i] \in C
        /\ k[i] = IF s[i] \in Whitespace THEN t ELSE Append(t, s[i])
    BY <1>1, <1>2, LenProperties
  <2>2. /\ Len(t) <= i - 1 /\ clean(t)
        /\ none => Len(t) = i - 1 /\ \A j \in 1..(i - 1) : t[j] = s[j]
    BY <1>4
  <2> HIDE DEF t
  <2>3. CASE s[i] \in Whitespace
    BY <2>1, <2>2, <2>3
  <2>4. CASE s[i] \notin Whitespace
    <3>1. /\ k[i] = Append(t, s[i]) /\ Len(Append(t, s[i])) = Len(t) + 1
          /\ \A j \in 1..Len(t) : Append(t, s[i])[j] = t[j]
          /\ Append(t, s[i])[Len(t) + 1] = s[i]
      BY <2>1, <2>4, AppendProperties
    <3>2. \A j \in 1..(Len(t) + 1) : j \in 1..Len(t) \/ j = Len(t) + 1
      BY <2>1
    <3>3. clean(k[i]) /\ Len(k[i]) <= i
      BY <2>1, <2>2, <2>4, <3>1, <3>2
    <3>4. none => Len(k[i]) = i /\ \A j \in 1..i : k[i][j] = s[j]
      BY <2>1, <2>2, <3>1, <3>2
    <3> QED BY <2>1, <3>3, <3>4
  <2> QED BY <2>3, <2>4
<1> HIDE DEF T
<1>5. n \in T
  <2>1. \A i \in 0..n : i \in T
    BY <1>1, <1>3, <1>4, CountingUp
  <2> QED BY <1>1, <2>1
<1>6. k[n] \in Seq(C) /\ Len(k[n]) \in Nat
  BY <1>1, <1>2, LenProperties
<1>7. none => k[n] = s
  <2>1. ASSUME none PROVE Len(k[n]) = Len(s) /\ \A j \in 1..Len(s) : k[n][j] = s[j]
    BY <1>5, <2>1 DEF T, n
  <2> QED BY <1>6, <2>1, SeqEqual
<1> QED BY <1>1, <1>2, <1>5, <1>6, <1>7 DEF T, n

\* Counting the characters that are left numbers them, in order.
LEMMA KeptInOrder ==
  ASSUME NEW C, NEW s \in Seq(C)
  PROVE  /\ KeptOf(s, 0) = 0 /\ KeptOf(s, Len(s)) = Len(WithoutSpace(s))
         /\ \A i \in 0..Len(s) : KeptOf(s, i) \in Nat
         /\ \A i \in 1..Len(s) :
              IF s[i] \in Whitespace THEN KeptOf(s, i) = KeptOf(s, i - 1)
              ELSE /\ KeptOf(s, i) = KeptOf(s, i - 1) + 1
                   /\ KeptOf(s, i) <= Len(WithoutSpace(s))
                   /\ WithoutSpace(s)[KeptOf(s, i)] = s[i]
<1> DEFINE n == Len(s)
<1>1. n \in Nat /\ \A i \in 1..n : s[i] \in C
  BY LenProperties, ElementOfSeq
<1>2. PICK k : /\ Filters(k, C, s)
             /\ \A i \in 0..Len(s) : WithoutSpace(SubSeq(s, 1, i)) = k[i]
  BY WithoutSpaceParts
<1>3. Filters(k, C, s)
  BY <1>2
<1>4. /\ k \in [0..n -> Seq(C)] /\ k[0] = <<>> /\ k[n] = WithoutSpace(s)
      /\ \A i \in 1..n :
           k[i] = IF s[i] \in Whitespace THEN k[i - 1] ELSE Append(k[i - 1], s[i])
      /\ \A i \in 0..n : WithoutSpace(SubSeq(s, 1, i)) = k[i]
  BY <1>2, <1>3 DEF Filters
<1> HIDE DEF n
<1>5. \A i \in 0..n : KeptOf(s, i) = Len(k[i]) /\ k[i] \in Seq(C) /\ Len(k[i]) \in Nat
  BY <1>4, LenProperties DEF KeptOf
<1>6. ASSUME NEW i \in 1..n
      PROVE  /\ s[i] \in Whitespace => k[i] = k[i - 1]
             /\ s[i] \notin Whitespace => /\ Len(k[i]) = Len(k[i - 1]) + 1
                                          /\ k[i][Len(k[i])] = s[i]
             /\ Len(k[i - 1]) <= Len(k[i])
             /\ \A j \in 1..Len(k[i - 1]) : k[i][j] = k[i - 1][j]
  <2>1. i - 1 \in 0..n /\ k[i - 1] \in Seq(C) /\ Len(k[i - 1]) \in Nat /\ s[i] \in C
    BY <1>1, <1>5
  <2>2. CASE s[i] \in Whitespace
    BY <1>4, <2>1, <2>2
  <2>3. CASE s[i] \notin Whitespace
    <3>1. k[i] = Append(k[i - 1], s[i])
      BY <1>4, <2>3
    <3>2. /\ Len(Append(k[i - 1], s[i])) = Len(k[i - 1]) + 1
          /\ \A j \in 1..Len(k[i - 1]) : Append(k[i - 1], s[i])[j] = k[i - 1][j]
          /\ Append(k[i - 1], s[i])[Len(k[i - 1]) + 1] = s[i]
      BY <2>1, AppendProperties
    <3> QED BY <2>1, <2>3, <3>1, <3>2
  <2> QED BY <2>2, <2>3
<1>7. ASSUME NEW i \in 1..n, s[i] \notin Whitespace
      PROVE  Len(k[i]) <= Len(k[n]) /\ k[n][Len(k[i])] = s[i]
  <2> DEFINE at == Len(k[i])
             T == {j \in 0..n : j >= i => at <= Len(k[j]) /\ k[j][at] = s[i]}
  <2>1. at \in Nat /\ at >= 1 /\ k[i][at] = s[i]
    <3>1. i \in 0..n /\ i - 1 \in 0..n
      BY <1>1
    <3> QED BY <1>5, <1>6, <1>7, <3>1
  <2> HIDE DEF at
  <2>2. 0 \in T
    BY <1>1
  <2>3. ASSUME NEW j \in 1..n, j - 1 \in T PROVE j \in T
    <3>1. j \in 0..n /\ j - 1 \in 0..n /\ Len(k[j]) \in Nat /\ Len(k[j - 1]) \in Nat
      BY <1>1, <1>5
    <3>2. CASE j < i
      BY <1>1, <3>1, <3>2
    <3>3. CASE j = i
      BY <2>1, <3>1, <3>3 DEF at
    <3>4. CASE j > i
      <4>1. at <= Len(k[j - 1]) /\ k[j - 1][at] = s[i]
        BY <1>1, <2>3, <3>4
      <4>2. at \in 1..Len(k[j - 1])
        BY <2>1, <3>1, <4>1
      <4>3. at <= Len(k[j]) /\ k[j][at] = s[i]
        BY <1>6, <2>1, <3>1, <4>1, <4>2
      <4> QED BY <3>1, <4>3
    <3> QED BY <1>1, <3>2, <3>3, <3>4
  <2> HIDE DEF T
  <2>4. n \in T
    <3>1. \A j \in 0..n : j \in T
      BY <1>1, <2>2, <2>3, CountingUp
    <3> QED BY <1>1, <3>1
  <2> QED BY <1>1, <2>4 DEF T, at
<1>8. Len(k[0]) = 0
  BY <1>4
<1>9. ASSUME NEW i \in 1..n
      PROVE  IF s[i] \in Whitespace THEN KeptOf(s, i) = KeptOf(s, i - 1)
             ELSE /\ KeptOf(s, i) = KeptOf(s, i - 1) + 1
                  /\ KeptOf(s, i) <= Len(WithoutSpace(s))
                  /\ WithoutSpace(s)[KeptOf(s, i)] = s[i]
  <2>1. i \in 0..n /\ i - 1 \in 0..n
    BY <1>1
  <2>2. KeptOf(s, i) = Len(k[i]) /\ KeptOf(s, i - 1) = Len(k[i - 1])
    BY <1>5, <2>1
  <2> QED BY <1>4, <1>6, <1>7, <2>2
<1>10. 0 \in 0..n /\ n \in 0..n
  BY <1>1
<1> QED BY <1>4, <1>5, <1>8, <1>9, <1>10 DEF n

-----------------------------------------------------------------------------
(* Sequences joined.                                                       *)

\* h[i] is what FlattenSeq has joined of the first i sequences.
Joins(h, C, ss) ==
  /\ h \in [0..Len(ss) -> Seq(C)]
  /\ h[0] = <<>> /\ h[Len(ss)] = FlattenSeq(ss)
  /\ \A i \in 1..Len(ss) : h[i] = h[i - 1] \o ss[i]

\* There is such a function.
LEMMA FlattenLoop ==
  ASSUME NEW C, NEW ss \in Seq(Seq(C))
  PROVE  \E h : Joins(h, C, ss)
<1> DEFINE n == Len(ss)
           f == [x \in (1..n) \X Seq(C) |-> x[2] \o ss[x[1]]]
           flatten[i \in 1..n] == IF i = 1 THEN ss[i] ELSE flatten[i - 1] \o ss[i]
<1>1. n \in Nat /\ \A i \in 1..n : ss[i] \in Seq(C)
  BY LenProperties, ElementOfSeq
<1>2. IF n = 0 THEN FlattenSeq(ss) = ss ELSE FlattenSeq(ss) = flatten[n]
  BY DEF FlattenSeq
<1>3. n = 0 => ss = <<>>
  BY EmptySeq
<1> HIDE DEF n
<1>4. f \in [(1..n) \X Seq(C) -> Seq(C)] /\ <<>> \in Seq(C)
  <2>1. \A i \in 1..n, t \in Seq(C) : t \o ss[i] \in Seq(C)
    BY <1>1, ConcatProperties
  <2> QED BY <2>1
<1>5. PICK h : Recurs(h, n, Seq(C), <<>>, f)
  <2> HIDE DEF f
  <2> QED BY <1>1, <1>4, Recursion
<1>6. h \in [0..n -> Seq(C)] /\ h[0] = <<>> /\ \A i \in 1..n : h[i] = f[<<i, h[i - 1]>>]
  <2> HIDE DEF f
  <2> QED BY <1>5 DEF Recurs
<1>7. \A i \in 1..n : h[i] = h[i - 1] \o ss[i]
  <2> SUFFICES ASSUME NEW i \in 1..n PROVE h[i] = h[i - 1] \o ss[i]
    OBVIOUS
  <2> DEFINE t == h[i - 1]
  <2>1. i - 1 \in 0..n
    BY <1>1
  <2>2. t \in Seq(C) /\ h[i] = f[<<i, t>>]
    BY <1>6, <2>1
  <2> HIDE DEF t
  <2>3. f[<<i, t>>] = t \o ss[i]
    BY <2>2
  <2> QED BY <2>2, <2>3 DEF t
<1> HIDE DEF f
<1>8. ASSUME n # 0 PROVE h[n] = flatten[n]
  <2> DEFINE g == [i \in 1..n |-> h[i]]
  <2>1. h[1] = ss[1]
    <3>1. 1 \in 1..n
      BY <1>1, <1>8
    <3>2. h[1] = h[0] \o ss[1] /\ ss[1] \in Seq(C)
      <4> HIDE DEF flatten, g
      <4>1. ASSUME NEW i \in 1..n, i = 1
            PROVE  h[i] = h[0] \o ss[i]
        <5>1. h[i] = h[i - 1] \o ss[i]
          BY <1>7
        <5>2. i - 1 = 0
          BY <4>1
        <5> QED BY <5>1, <5>2
      <4> QED BY <1>1, <3>1, <4>1
    <3> QED BY <1>6, <3>2, ConcatEmptySeq
  <2>2. ASSUME NEW i \in 1..n
        PROVE  g[i] = IF i = 1 THEN ss[i] ELSE g[i - 1] \o ss[i]
    <3>1. CASE i = 1
      BY <2>1, <3>1
    <3>2. CASE i # 1
      <4>1. i - 1 \in 1..n
        BY <1>1, <3>2
      <4> QED BY <1>7, <3>2, <4>1
    <3> QED BY <3>1, <3>2
  <2>3. g = [i \in 1..n |-> g[i]] /\ n \in 1..n
    BY <1>1, <1>8
  <2>4. g[n] = h[n]
    BY <2>3
  <2> HIDE DEF g
  <2>5. g = [i \in 1..n |-> IF i = 1 THEN ss[i] ELSE g[i - 1] \o ss[i]]
    <3> DEFINE r == [i \in 1..n |-> IF i = 1 THEN ss[i] ELSE g[i - 1] \o ss[i]]
    <3>1. \A i \in 1..n : g[i] = r[i]
      BY <2>2
    <3>2. r = [i \in 1..n |-> r[i]]
      OBVIOUS
    <3> HIDE DEF r
    <3>3. g = r
      BY <2>3, <3>1, <3>2
    <3> QED BY <3>3 DEF r
  <2>6. flatten = [i \in 1..n |-> IF i = 1 THEN ss[i] ELSE flatten[i - 1] \o ss[i]]
    BY <2>5
  <2> HIDE DEF flatten
  <2> DEFINE T == {i \in 0..n : i = 0 \/ flatten[i] = h[i]}
  <2>7. 0 \in T
    BY <1>1
  <2>8. ASSUME NEW i \in 1..n, i - 1 \in T PROVE i \in T
    <3>1. flatten[i] = IF i = 1 THEN ss[i] ELSE flatten[i - 1] \o ss[i]
      BY <2>6
    <3>2. CASE i = 1
      BY <1>1, <2>1, <3>1, <3>2
    <3>3. CASE i # 1
      <4>1. flatten[i - 1] = h[i - 1]
        BY <1>1, <2>8, <3>3
      <4>2. flatten[i] = flatten[i - 1] \o ss[i] /\ h[i] = h[i - 1] \o ss[i]
        BY <1>7, <3>1, <3>3
      <4>3. i \in 0..n /\ flatten[i] = h[i]
        BY <1>1, <4>1, <4>2
      <4> QED BY <4>3
    <3> QED BY <3>2, <3>3
  <2> HIDE DEF T
  <2>9. \A i \in 0..n : i \in T
    BY <1>1, <2>7, <2>8, CountingUp
  <2> QED BY <1>1, <1>8, <2>3, <2>9 DEF T
<1>9. h[n] = FlattenSeq(ss)
  BY <1>2, <1>3, <1>6, <1>8
<1> QED BY <1>6, <1>7, <1>9 DEF n, Joins

\* What is joined of sequences over a set is one.
LEMMA FlattenType ==
  ASSUME NEW C, NEW ss \in Seq(Seq(C))
  PROVE  FlattenSeq(ss) \in Seq(C)
<1>1. PICK h : Joins(h, C, ss)
  BY FlattenLoop
<1>2. Len(ss) \in Nat
  BY LenProperties
<1> QED BY <1>1, <1>2 DEF Joins

\* Sequences of the same length are found at multiples of it.
LEMMA FlattenUniform ==
  ASSUME NEW C, NEW ss \in Seq(Seq(C)), NEW L \in Nat,
         \A k \in 1..Len(ss) : Len(ss[k]) = L
  PROVE  /\ Len(FlattenSeq(ss)) = L * Len(ss)
         /\ \A k \in 1..Len(ss), j \in 1..L : FlattenSeq(ss)[L * (k - 1) + j] = ss[k][j]
<1> DEFINE n == Len(ss)
<1>1. n \in Nat /\ \A k \in 1..n : ss[k] \in Seq(C) /\ Len(ss[k]) = L
  BY LenProperties, ElementOfSeq
<1>2. PICK h : Joins(h, C, ss)
  BY FlattenLoop
<1>3. /\ h \in [0..n -> Seq(C)] /\ h[0] = <<>> /\ h[n] = FlattenSeq(ss)
      /\ \A i \in 1..n : h[i] = h[i - 1] \o ss[i]
  BY <1>2 DEF Joins
<1> HIDE DEF n
<1> DEFINE T == {i \in 0..n : /\ Len(h[i]) = L * i
                              /\ \A k \in 1..i, j \in 1..L : h[i][L * (k - 1) + j] = ss[k][j]}
<1>4. 0 \in T
  <2>1. Len(h[0]) = L * 0
    BY <1>3
  <2> QED BY <1>1, <2>1
<1>5. ASSUME NEW i \in 1..n, i - 1 \in T PROVE i \in T
  <2> DEFINE t == h[i - 1]  l == L * (i - 1)
  <2>0. i \in 0..n /\ i - 1 \in 0..n
    BY <1>1
  <2>1. /\ i \in 0..n /\ i - 1 \in 0..n /\ t \in Seq(C) /\ ss[i] \in Seq(C) /\ Len(ss[i]) = L
        /\ h[i] = t \o ss[i]
    BY <1>1, <1>3, <2>0
  <2>2. /\ Len(t) = l
        /\ \A k \in 1..(i - 1), j \in 1..L : t[L * (k - 1) + j] = ss[k][j]
    BY <1>5
  <2>3. l \in Nat /\ l + L = L * i
    BY <2>1
  <2>4. ASSUME NEW k \in 1..(i - 1), NEW j \in 1..L
        PROVE  L * (k - 1) + j \in 1..l
    <3>1. k - 1 \in Nat /\ i - 1 - k \in Nat /\ L * (k - 1) \in Nat /\ L * (i - 1 - k) \in Nat
      BY <2>1
    <3>2. l = L * (k - 1) + L + L * (i - 1 - k)
      BY <2>1
    <3> DEFINE a == L * (k - 1)  b == L * (i - 1 - k)
    <3> HIDE DEF l, a, b
    <3>3. a \in Nat /\ b \in Nat /\ l = a + L + b
      BY <3>1, <3>2 DEF a, b
    <3>4. a + j \in 1..l
      BY <3>3
    <3> QED BY <3>4 DEF a
  <2> HIDE DEF t, l
  <2>5. /\ Len(h[i]) = l + L
        /\ \A x \in 1..(l + L) : h[i][x] = IF x <= l THEN t[x] ELSE ss[i][x - l]
    <3>1. /\ Len(t \o ss[i]) = Len(t) + Len(ss[i])
          /\ \A x \in 1..(Len(t) + Len(ss[i])) :
               (t \o ss[i])[x] = IF x <= Len(t) THEN t[x] ELSE ss[i][x - Len(t)]
      BY <2>1, ConcatProperties
    <3> QED BY <2>1, <2>2, <3>1
  <2>6. ASSUME NEW k \in 1..i, NEW j \in 1..L
        PROVE  h[i][L * (k - 1) + j] = ss[k][j]
    <3>1. CASE k = i
      <4>1. L * (k - 1) = l
        BY <3>1 DEF l
      <4> DEFINE x == l + j
      <4>2. x \in 1..(l + L) /\ ~(x <= l) /\ x - l = j
        BY <2>3
      <4> HIDE DEF x
      <4>3. h[i][x] = ss[i][x - l]
        BY <2>5, <4>2
      <4> QED BY <3>1, <4>1, <4>2, <4>3 DEF x
    <3>2. CASE k # i
      <4>1. k \in 1..(i - 1)
        BY <2>1, <3>2
      <4>2. L * (k - 1) + j \in 1..l
        BY <2>4, <4>1
      <4> DEFINE x == L * (k - 1) + j
      <4>3. x \in 1..(l + L) /\ x <= l
        BY <2>3, <4>2
      <4>4. t[x] = ss[k][j]
        BY <2>2, <4>1
      <4> QED BY <2>5, <4>3, <4>4
    <3> QED BY <3>1, <3>2
  <2> QED BY <2>1, <2>3, <2>5, <2>6
<1> HIDE DEF T
<1>6. n \in T
  <2>1. \A i \in 0..n : i \in T
    BY <1>1, <1>4, <1>5, CountingUp
  <2> QED BY <1>1, <2>1
<1> QED BY <1>3, <1>6 DEF T, n

\* Groups of four, as the bytes of blocks are.
LEMMA FlattenFours ==
  ASSUME NEW C, NEW ss \in Seq(Seq(C)), \A k \in 1..Len(ss) : Len(ss[k]) = 4
  PROVE  /\ Len(FlattenSeq(ss)) = 4 * Len(ss)
         /\ \A k \in 1..Len(ss), j \in 1..4 : FlattenSeq(ss)[4 * (k - 1) + j] = ss[k][j]
<1> DEFINE L == 4
<1>1. L \in Nat /\ \A k \in 1..Len(ss) : Len(ss[k]) = L
  OBVIOUS
<1> HIDE DEF L
<1>2. /\ Len(FlattenSeq(ss)) = L * Len(ss)
      /\ \A k \in 1..Len(ss), j \in 1..L : FlattenSeq(ss)[L * (k - 1) + j] = ss[k][j]
  BY <1>1, FlattenUniform, SMTT(60)
<1> QED BY <1>2 DEF L

\* e[k] is how much the first k sequences are together.
Ends(e, ss) ==
  /\ e \in [0..Len(ss) -> Nat] /\ e[0] = 0 /\ e[Len(ss)] = Len(FlattenSeq(ss))
  /\ \A k \in 1..Len(ss) :
       /\ e[k] = e[k - 1] + Len(ss[k]) /\ e[k] <= Len(FlattenSeq(ss))
       /\ \A j \in 1..Len(ss[k]) : FlattenSeq(ss)[e[k - 1] + j] = ss[k][j]

\* Each sequence is found behind the end of those before it.
LEMMA FlattenEnds ==
  ASSUME NEW C, NEW ss \in Seq(Seq(C))
  PROVE  \E e : Ends(e, ss)
<1> DEFINE n == Len(ss)
<1>1. n \in Nat /\ \A k \in 1..n : ss[k] \in Seq(C) /\ Len(ss[k]) \in Nat
  BY LenProperties, ElementOfSeq
<1>2. PICK h : Joins(h, C, ss)
  BY FlattenLoop
<1>3. /\ h \in [0..n -> Seq(C)] /\ h[0] = <<>> /\ h[n] = FlattenSeq(ss)
      /\ \A i \in 1..n : h[i] = h[i - 1] \o ss[i]
  BY <1>2 DEF Joins
<1> HIDE DEF n
<1> DEFINE e == [i \in 0..n |-> Len(h[i])]
<1>4. e \in [0..n -> Nat] /\ e[0] = 0 /\ e[n] = Len(FlattenSeq(ss))
      /\ \A i \in 0..n : e[i] = Len(h[i])
  <2>1. \A i \in 0..n : Len(h[i]) \in Nat
    BY <1>3, LenProperties
  <2> QED BY <1>1, <1>3, <2>1
<1> HIDE DEF e
<1>5. ASSUME NEW i \in 1..n
      PROVE  /\ i \in 0..n /\ i - 1 \in 0..n
             /\ e[i] = e[i - 1] + Len(ss[i])
             /\ \A x \in 1..e[i - 1] : h[i][x] = h[i - 1][x]
             /\ \A j \in 1..Len(ss[i]) : h[i][e[i - 1] + j] = ss[i][j]
  <2> DEFINE t == h[i - 1]  l == e[i - 1]  m == Len(ss[i])
  <2>1. i \in 0..n /\ i - 1 \in 0..n
    BY <1>1
  <2>2. t \in Seq(C) /\ ss[i] \in Seq(C) /\ h[i] = t \o ss[i] /\ Len(t) = l /\ l \in Nat
    BY <1>1, <1>3, <1>4, <2>1
  <2>3. m \in Nat
    BY <1>1
  <2> HIDE DEF t
  <2>4. /\ Len(h[i]) = l + m
        /\ \A x \in 1..(l + m) : h[i][x] = IF x <= l THEN t[x] ELSE ss[i][x - l]
    <3>1. /\ Len(t \o ss[i]) = Len(t) + Len(ss[i])
          /\ \A x \in 1..(Len(t) + Len(ss[i])) :
               (t \o ss[i])[x] = IF x <= Len(t) THEN t[x] ELSE ss[i][x - Len(t)]
      BY <2>2, ConcatProperties
    <3> QED BY <2>2, <3>1
  <2>5. e[i] = l + m
    BY <1>4, <2>1, <2>4
  <2> HIDE DEF l, m
  <2>6. \A x \in 1..l : h[i][x] = t[x]
    BY <2>2, <2>3, <2>4
  <2>7. \A j \in 1..m : h[i][l + j] = ss[i][j]
    <3> SUFFICES ASSUME NEW j \in 1..m PROVE h[i][l + j] = ss[i][j]
      OBVIOUS
    <3> DEFINE x == l + j
    <3>1. x \in 1..(l + m) /\ ~(x <= l) /\ x - l = j
      BY <2>2, <2>3
    <3> HIDE DEF x
    <3>2. h[i][x] = ss[i][j]
      BY <2>4, <3>1
    <3> QED BY <3>2 DEF x
  <2> QED BY <2>1, <2>5, <2>6, <2>7 DEF l, m, t
<1> DEFINE found(i, k) == /\ e[k] <= e[i]
                          /\ \A j \in 1..Len(ss[k]) : h[i][e[k - 1] + j] = ss[k][j]
           T == {i \in 0..n : \A k \in 1..i : found(i, k)}
<1>6. 0 \in T
  BY <1>1
<1>7. ASSUME NEW i \in 1..n, i - 1 \in T PROVE i \in T
  <2>0. /\ \A k \in 1..(i - 1) : found(i - 1, k)
        /\ e[i] = e[i - 1] + Len(ss[i]) /\ \A x \in 1..e[i - 1] : h[i][x] = h[i - 1][x]
    <3> HIDE DEF found
    <3> QED BY <1>5, <1>7
  <2>1. ASSUME NEW k \in 1..i PROVE found(i, k)
    <3>0. e[k] = e[k - 1] + Len(ss[k])
      BY <1>1, <1>5
    <3> HIDE DEF T
    <3>1. /\ k \in 1..n /\ Len(ss[k]) \in Nat /\ e[k] \in Nat /\ e[k - 1] \in Nat
          /\ e[i] \in Nat /\ e[i - 1] \in Nat /\ Len(ss[i]) \in Nat
      BY <1>1, <1>4
    <3>2. CASE k = i
      BY <1>5, <3>1, <3>2
    <3>3. CASE k # i
      <4>0. k \in 1..(i - 1)
        BY <1>1, <3>3
      <4>1. found(i - 1, k)
        <5> HIDE DEF found
        <5> QED BY <2>0, <4>0
      <4>3. e[k] <= e[i - 1]
        BY <4>1
      <4>2. e[k] <= e[i]
        BY <2>0, <3>1, <4>1
      <4>4. \A j \in 1..Len(ss[k]) : h[i][e[k - 1] + j] = ss[k][j]
        <5> SUFFICES ASSUME NEW j \in 1..Len(ss[k]) PROVE h[i][e[k - 1] + j] = ss[k][j]
          OBVIOUS
        <5> DEFINE x == e[k - 1] + j
        <5>1. x \in 1..e[i - 1]
          <6> DEFINE a == e[k - 1]  m == Len(ss[k])  z == e[i - 1]
          <6>1. a \in Nat /\ m \in Nat /\ z \in Nat /\ a + m <= z /\ j \in 1..m
            BY <3>0, <3>1, <4>3
          <6> HIDE DEF a, m, z, found
          <6>2. a + j \in 1..z
            BY <6>1
          <6> QED BY <6>2 DEF a, z
        <5>2. h[i - 1][x] = ss[k][j]
          BY <4>1
        <5> HIDE DEF x
        <5>3. h[i][x] = ss[k][j]
          BY <2>0, <5>1, <5>2
        <5> QED BY <5>3 DEF x
      <4> QED BY <4>2, <4>4
    <3> QED BY <3>2, <3>3
  <2> HIDE DEF found
  <2> QED BY <1>1, <2>1
<1>8. \A k \in 1..n : found(n, k)
  <2> HIDE DEF T
  <2>1. \A i \in 0..n : i \in T
    BY <1>1, <1>6, <1>7, CountingUp
  <2>2. n \in T
    BY <1>1, <2>1
  <2> QED BY <2>2 DEF T
<1>9. Ends(e, ss)
  BY <1>3, <1>4, <1>5, <1>8 DEF Ends, n
<1> QED BY <1>9

\* A text put together from its groups of five and what is left after them.
LEMMA GroupsJoined ==
  ASSUME NEW C, NEW s \in Seq(C), NEW n \in Nat, NEW ss \in Seq(Seq(C)), Len(ss) = n,
         Len(s) <= 5 * n, n # 0 => 5 * (n - 1) < Len(s),
         \A k \in 1..n : /\ Len(ss[k]) = Smaller(5, Len(s) - 5 * (k - 1))
                         /\ \A j \in 1..Len(ss[k]) : ss[k][j] = s[5 * (k - 1) + j]
  PROVE  FlattenSeq(ss) = s
<1> DEFINE len == Len(s)
           f == FlattenSeq(ss)
<1>1. PICK e : Ends(e, ss)
  BY FlattenEnds
<1>2. len \in Nat /\ f \in Seq(C)
  BY FlattenType, LenProperties
<1>3. /\ e[0] = 0 /\ e[n] = Len(f)
      /\ \A k \in 1..n : /\ e[k] = e[k - 1] + Len(ss[k])
                         /\ \A j \in 1..Len(ss[k]) : f[e[k - 1] + j] = ss[k][j]
  BY <1>1 DEF Ends
<1> HIDE DEF len, f
<1>4. \A k \in 1..n : Len(ss[k]) = IF 5 * k <= len THEN 5 ELSE len - 5 * (k - 1)
  BY <1>2 DEF Smaller, len
<1>5. len <= 5 * n /\ \A k \in 1..n : 5 * (k - 1) < len
  BY <1>2 DEF len
<1> DEFINE T == {k \in 0..n : e[k] = Smaller(5 * k, len)}
<1>6. 0 \in T
  BY <1>2, <1>3 DEF Smaller
<1>7. ASSUME NEW k \in 1..n, k - 1 \in T PROVE k \in T
  <2>1. e[k - 1] = 5 * (k - 1)
    BY <1>2, <1>5, <1>7 DEF Smaller
  <2>2. /\ e[k] = 5 * (k - 1) + Len(ss[k])
        /\ Len(ss[k]) = IF 5 * k <= len THEN 5 ELSE len - 5 * (k - 1)
    BY <1>3, <1>4, <2>1
  <2>3. e[k] = Smaller(5 * k, len)
    BY <1>2, <2>2 DEF Smaller
  <2> QED BY <2>3
<1> HIDE DEF T
<1>8. \A k \in 0..n : k \in T
  BY <1>6, <1>7, CountingUp
<1>9. Len(f) = len
  <2>1. n \in 0..n
    OBVIOUS
  <2>2. e[n] = Smaller(5 * n, len)
    BY <1>8, <2>1 DEF T
  <2> QED BY <1>2, <1>3, <1>5, <2>2 DEF Smaller
<1>10. ASSUME NEW i \in 1..len PROVE f[i] = s[i]
  <2> DEFINE q == (i - 1) \div 5  j == ((i - 1) % 5) + 1
             k == q + 1
  <2>1. q \in Int /\ j \in 1..5 /\ i = 5 * q + j /\ q >= 0
    OBVIOUS
  <2> HIDE DEF q, j
  <2>2. k \in 1..n /\ k - 1 = q /\ q \in 0..n
    BY <1>2, <1>5, <2>1
  <2>3. j \in 1..Len(ss[k])
    <3>1. Len(ss[k]) = IF 5 * k <= len THEN 5 ELSE len - 5 * (k - 1)
      BY <1>4, <2>2
    <3> HIDE DEF k
    <3> QED BY <1>2, <2>1, <2>2, <3>1
  <2>4. e[q] = 5 * q
    <3>1. e[q] = Smaller(5 * q, len) /\ 5 * q < len
      BY <1>5, <1>8, <2>2 DEF T
    <3> QED BY <1>2, <2>1, <3>1 DEF Smaller
  <2>5. ss[k][j] = s[5 * (k - 1) + j] /\ f[e[k - 1] + j] = ss[k][j]
    BY <1>3, <2>2, <2>3
  <2> HIDE DEF k
  <2> QED BY <2>1, <2>2, <2>4, <2>5
<1>11. f \in Seq(C) /\ Len(f) = Len(s) /\ \A i \in 1..Len(s) : f[i] = s[i]
  BY <1>2, <1>9, <1>10 DEF len
<1> QED BY <1>11, SeqEqual DEF f

\* The bytes of a text, and of one without wide characters.
LEMMA Utf8Facts ==
  ASSUME NEW s \in Seq(Char)
  PROVE  /\ Utf8(s) \in Seq(Char)
         /\ (\A i \in 1..Len(s) : s[i] # WideChar) => Utf8(s) = s
<1> DEFINE n == Len(s)
           ss == [i \in 1..n |-> IF s[i] = WideChar THEN <<WideChar, WideChar>> ELSE <<s[i]>>]
<1>1. n \in Nat /\ \A i \in 1..n : s[i] \in Char
  BY LenProperties, ElementOfSeq
<1>2. Utf8(s) = FlattenSeq(ss)
  BY DEF Utf8
<1>3. ss \in [1..n -> Seq(Char)] /\ \A i \in 1..n : s[i] # WideChar => ss[i] = <<s[i]>>
  <2>1. \A c \in Char : <<c>> \in Seq(Char) /\ <<c, c>> \in Seq(Char)
    OBVIOUS
  <2>2. WideChar \in Char
    BY DEF Char
  <2> HIDE DEF n
  <2> QED BY <1>1, <2>1, <2>2
<1> HIDE DEF ss
<1>4. ss \in Seq(Seq(Char)) /\ Len(ss) = n
  BY <1>1, <1>3, SeqDef, LenProperties
<1>5. FlattenSeq(ss) \in Seq(Char)
  BY <1>4, FlattenType
<1>6. ASSUME \A i \in 1..n : s[i] # WideChar PROVE FlattenSeq(ss) = s
  <2>0. \A x : Len(<<x>>) = 1
    OBVIOUS
  <2>1. \A i \in 1..Len(ss) : ss[i] = <<s[i]>> /\ Len(ss[i]) = 1
    BY <1>3, <1>4, <1>6, <2>0
  <2>2. /\ Len(FlattenSeq(ss)) = 1 * Len(ss)
        /\ \A k \in 1..Len(ss), j \in 1..1 : FlattenSeq(ss)[1 * (k - 1) + j] = ss[k][j]
    <3> DEFINE one == 1
    <3>1. one \in Nat /\ \A i \in 1..Len(ss) : Len(ss[i]) = one
      BY <2>1
    <3> HIDE DEF one, n
    <3>2. /\ Len(FlattenSeq(ss)) = one * Len(ss)
          /\ \A k \in 1..Len(ss), j \in 1..one :
               FlattenSeq(ss)[one * (k - 1) + j] = ss[k][j]
      BY <1>4, <3>1, FlattenUniform
    <3> QED BY <3>2 DEF one
  <2>3. Len(FlattenSeq(ss)) = n
    BY <1>1, <1>4, <2>2
  <2>4. ASSUME NEW k \in 1..n PROVE FlattenSeq(ss)[k] = s[k]
    <3>1. k \in 1..Len(ss) /\ 1 \in 1..1 /\ 1 * (k - 1) + 1 = k
      BY <1>4
    <3>2. FlattenSeq(ss)[1 * (k - 1) + 1] = ss[k][1]
      BY <2>2, <3>1
    <3> QED BY <2>1, <3>1, <3>2
  <2> QED BY <1>5, <2>3, <2>4, SeqEqual
<1> QED BY <1>2, <1>5, <1>6

-----------------------------------------------------------------------------
(* Constructs and their characters.                                        *)

\* A part of a sequence.
LEMMA PartIn ==
  ASSUME NEW C, NEW s \in Seq(C), NEW p \in Nat, NEW n \in Nat, p + n <= Len(s)
  PROVE  /\ SubSeq(s, p + 1, p + n) \in Seq(C)
         /\ Len(SubSeq(s, p + 1, p + n)) = n
         /\ \A i \in 1..n : SubSeq(s, p + 1, p + n)[i] = s[p + i]
<1>1. Len(s) \in Nat
  BY LenProperties
<1>2. \A i \in (p + 1)..(p + n) : s[i] \in C
  BY <1>1, ElementOfSeq
<1>3. /\ p + 1 \in Int /\ p + n \in Int /\ (p + n) - (p + 1) + 1 = n
      /\ (p + 1 <= p + n <=> n # 0)
      /\ \A i \in 1..n : (p + 1) + i - 1 = p + i
  OBVIOUS
<1> DEFINE a == p + 1  z == p + n
<1>4. a \in Int /\ z \in Int /\ \A i \in a..z : s[i] \in C
  BY <1>2, <1>3
<1> HIDE DEF a, z
<1>5. /\ SubSeq(s, a, z) \in Seq(C)
      /\ Len(SubSeq(s, a, z)) = IF a <= z THEN z - a + 1 ELSE 0
      /\ \A i \in 1..(z - a + 1) : SubSeq(s, a, z)[i] = s[a + i - 1]
  BY <1>4, SubSeqProperties, SMTT(60)
<1> QED BY <1>3, <1>5 DEF a, z

\* u lies in d and stands for the bytes b of it.
Spelled(d, u, b) ==
  /\ d \in Seq(Byte) /\ u.at \in 0..(Len(d) - 1) /\ u.len \in 1..(Len(d) - u.at)
  /\ StandsFor(d, u) /\ b = SubSeq(d, u.at + 1, u.at + u.len)

\* What a value that is no segment's signal is decoded to.
ValueBytes(v) ==
  IF v < DpSignalBase THEN ValueToBytes(v)
  ELSE IF v < TailSignalBase
  THEN [i \in 1..SplitFill(v - FillSignalBase).len |-> SplitFill(v - FillSignalBase).byte]
  ELSE LET tail  == SplitTail(v - TailSignalBase)
           zeros == [i \in 1..tail.zeros |-> 0]
       IN  IF tail.order = 0 THEN zeros \o tail.lit ELSE tail.lit \o zeros

\* b is what one is decoded to.
Plain(v, b) ==
  /\ v \in 0..(FutureSignalBase - 1) /\ v \in 0..(Base_5 - 1)
  /\ v \notin DpSignalBase..(FillSignalBase - 1) /\ ValueBytes(v) = b

\* A construct covers a part of its input.
LEMMA SpelledPart ==
  ASSUME NEW d, NEW u, NEW b, Spelled(d, u, b)
  PROVE  /\ b \in Seq(Byte) /\ Len(b) = u.len /\ u.len \in Nat \ {0} /\ Len(d) \in Nat
         /\ \A j \in 1..u.len : b[j] \in Byte /\ b[j] = d[u.at + j]
         /\ u.at + u.len <= Len(d) /\ u.at \in Nat
<1>1. Len(d) \in Nat
  BY LenProperties DEF Spelled
<1>2. u.at \in Nat /\ u.len \in Nat \ {0} /\ u.at + u.len <= Len(d)
  BY <1>1 DEF Spelled
<1>3. b \in Seq(Byte) /\ Len(b) = u.len /\ \A j \in 1..u.len : b[j] = d[u.at + j]
  <2> DEFINE at == u.at  n == u.len
  <2>1. n \in Nat /\ at \in Nat /\ at + n <= Len(d) /\ d \in Seq(Byte)
        /\ b = SubSeq(d, at + 1, at + n)
    BY <1>2 DEF Spelled
  <2> HIDE DEF at, n
  <2>2. b \in Seq(Byte) /\ Len(b) = n /\ \A j \in 1..n : b[j] = d[at + j]
    BY <2>1, PartIn
  <2> QED BY <2>2 DEF at, n
<1> QED BY <1>1, <1>2, <1>3, ElementOfSeq

\* The ranges are those of values that five digits can have.
LEMMA RangesFit ==
  /\ DpSignalBase \in Nat /\ FutureSignalBase \in Int /\ Base_5 \in Int
  /\ FutureSignalBase <= Base_5
<1>1. Radix_4 \in Nat
  BY RadixType DEF Radix_4
<1>2. Base_5 \in Int
  BY BaseType DEF Base_5, Base_4
<1> QED BY <1>1, <1>2, RangesAssumption, RangeTypes

\* A run of one byte.
LEMMA SolidUnit ==
  ASSUME NEW d, NEW u, NEW b, Spelled(d, u, b), u.kind = "solid"
  PROVE  \E v : Plain(v, b) /\ UnitChars(d, u) = Signal(v)
<1> DEFINE byte == u.sig[1]
           v == FillSignal(byte, u.len)
<1>1. u.len <= MaxFill /\ b = [i \in 1..u.len |-> byte]
  BY DEF Spelled, StandsFor
<1>2. byte \in Byte /\ u.len \in 1..MaxFill
  <2>1. 1 \in 1..u.len
    BY SpelledPart
  <2>2. b[1] = byte
    BY <1>1, <2>1
  <2> HIDE DEF byte
  <2> QED BY <1>1, <2>1, <2>2, SpelledPart, ThresholdsAssumption
<1>3. UnitChars(d, u) = Signal(v)
  BY DEF UnitChars
<1> HIDE DEF v, byte
<1>4. /\ v \in FillSignalBase..(TailSignalBase - 1)
      /\ SplitFill(v - FillSignalBase) = [len |-> u.len, byte |-> byte]
  BY <1>2, FillSignalRead DEF v
<1>5. ~(v < DpSignalBase) /\ v < TailSignalBase /\ v \in 0..(FutureSignalBase - 1)
      /\ v \in 0..(Base_5 - 1) /\ v \notin DpSignalBase..(FillSignalBase - 1)
  BY <1>4, RangeOrder, RangeTypes, RangesFit
<1>6. ValueBytes(v) = b
  BY <1>1, <1>4, <1>5 DEF ValueBytes
<1>7. Plain(v, b)
  BY <1>5, <1>6 DEF Plain
<1> QED BY <1>3, <1>7

\* Zeros and two other bytes, in either order.
LEMMA TailUnit ==
  ASSUME NEW d, NEW u, NEW b, Spelled(d, u, b), u.kind \in {"zerosFirst", "literalsFirst"}
  PROVE  \E v : Plain(v, b) /\ UnitChars(d, u) = Signal(v)
<1> DEFINE zeros == u.len - 2
           run == [i \in 1..zeros |-> 0]
           order == IF u.kind = "zerosFirst" THEN 0 ELSE 1
           lit == u.sig
           v == TailSignal(zeros, order, lit)
<1>1. zeros \in 1..MaxTailZeros /\ lit \in [1..2 -> Byte]
      /\ b = IF order = 0 THEN run \o lit ELSE lit \o run
  <2>0. Zero = 0
    BY WireAssumption
  <2>1. CASE u.kind = "zerosFirst"
    BY <2>0, <2>1 DEF Spelled, StandsFor
  <2>2. CASE u.kind = "literalsFirst"
    <3>1. order = 1 /\ order # 0
      BY <2>2
    <3>2. zeros \in 1..MaxTailZeros /\ lit \in [1..2 -> Byte] /\ b = lit \o run
      BY <2>0, <2>2 DEF Spelled, StandsFor
    <3> HIDE DEF zeros, run, lit, order
    <3> QED BY <3>1, <3>2
  <2> QED BY <2>1, <2>2
<1>2. order \in 0..1
  OBVIOUS
<1>3. UnitChars(d, u) = Signal(v)
  BY DEF UnitChars
<1>4. lit = <<lit[1], lit[2]>>
  <2>1. lit \in [1..2 -> Byte]
    BY <1>1
  <2> HIDE DEF lit
  <2> QED BY <2>1
<1> HIDE DEF v, lit, order, zeros
<1>5. /\ v \in TailSignalBase..(FutureSignalBase - 1)
      /\ SplitTail(v - TailSignalBase) = [zeros |-> zeros, order |-> order, lit |-> lit]
  <2>1. /\ v \in TailSignalBase..(FutureSignalBase - 1)
        /\ SplitTail(v - TailSignalBase)
             = [zeros |-> zeros, order |-> order, lit |-> <<lit[1], lit[2]>>]
    BY <1>1, <1>2, TailSignalRead DEF v
  <2> QED BY <1>4, <2>1
<1>6. ~(v < DpSignalBase) /\ ~(v < TailSignalBase) /\ v \in 0..(FutureSignalBase - 1)
      /\ v \in 0..(Base_5 - 1) /\ v \notin DpSignalBase..(FillSignalBase - 1)
  BY <1>5, RangeOrder, RangeTypes, RangesFit
<1>7. ValueBytes(v) = b
  <2>1. ValueBytes(v) = LET zs == [i \in 1..zeros |-> 0]
                        IN  IF order = 0 THEN zs \o lit ELSE lit \o zs
    <3> DEFINE tail == SplitTail(v - TailSignalBase)
    <3>1. tail.zeros = zeros /\ tail.order = order /\ tail.lit = lit
      BY <1>5
    <3>2. ValueBytes(v) = LET zs == [i \in 1..tail.zeros |-> 0]
                          IN  IF tail.order = 0 THEN zs \o tail.lit ELSE tail.lit \o zs
      BY <1>6 DEF ValueBytes
    <3> HIDE DEF tail
    <3> QED BY <3>1, <3>2
  <2> QED BY <1>1, <2>1
<1>8. Plain(v, b)
  BY <1>6, <1>7 DEF Plain
<1> QED BY <1>3, <1>8

\* A group of four bytes.
LEMMA GroupUnit ==
  ASSUME NEW d, NEW u, NEW b, Spelled(d, u, b), u.kind = "block", u.len = 4
  PROVE  \E v : Plain(v, b) /\ UnitChars(d, u) = Signal(v)
<1> DEFINE v == BytesToValue(b)
<1>1. u.sig = b
  BY DEF Spelled, StandsFor
<1>2. b \in Seq(Octet) /\ Len(b) = 4
  BY SpelledPart, OctetIsByte
<1>3. v \in 0..(Radix_4 - 1) /\ v \in 0..(Base_5 - 1) /\ ValueToBytes(v) = b
  BY <1>2, BlockValue
<1>4. UnitChars(d, u) = Characters(ValueToDigitPairs(v))
  BY <1>1 DEF UnitChars
<1> HIDE DEF v
<1>5. UnitChars(d, u) = Signal(v)
  BY <1>3, <1>4, PairsAgree DEF Signal
<1>6. v < DpSignalBase /\ v \in 0..(FutureSignalBase - 1) /\ v \notin DpSignalBase..(FillSignalBase - 1)
  BY <1>3, RangeOrder, RangeTypes
<1>7. ValueBytes(v) = b
  BY <1>3, <1>6 DEF ValueBytes
<1>8. Plain(v, b)
  BY <1>3, <1>6, <1>7 DEF Plain
<1> QED BY <1>5, <1>8

\* u is a segment of profile q with the characters t.
Segmented(d, u, b, q, mask, t) ==
  /\ q \in ProfileIds /\ mask \in SUBSET RSetBytes /\ u.len \in 1..MaxDpSegment
  /\ t \in [1..u.len -> AlphabetN]
  /\ UnitChars(d, u) = Signal(DpSignal(q, mask, u.len)) \o t
  /\ \A j \in 1..u.len : DpTable(q, mask)[t[j]] = b[j]

\* A segment: its signal, and a character for each byte.
LEMMA SegmentUnit ==
  ASSUME NEW d, NEW u, NEW b, Spelled(d, u, b), u.kind = "dp"
  PROVE  \E q, mask, t : Segmented(d, u, b, q, mask, t)
<1> DEFINE q == u.sig[1]  mask == u.sig[2]  donors == u.sig[3]
           t == [j \in 1..u.len |-> LET c == d[u.at + j] IN IF c \in mask THEN donors[c] ELSE c]
<1>1. /\ q \in ProfileIds /\ mask \in SUBSET RSetBytes /\ donors = Donors(q, mask)
      /\ u.len <= MaxDpSegment
      /\ \A j \in 1..u.len : b[j] \in mask \cup (AlphabetN \ {donors[r] : r \in mask})
  BY DEF Spelled, StandsFor
<1>2. UnitChars(d, u) = Signal(DpSignal(q, mask, u.len)) \o t
  BY DEF UnitChars
<1>3. /\ \A r \in mask : donors[r] \in AlphabetN /\ DpTable(q, mask)[donors[r]] = r
      /\ \A c \in AlphabetN \ {donors[r] : r \in mask} : DpTable(q, mask)[c] = c
  <2> HIDE DEF q, mask, donors
  <2> QED BY <1>1, TableRead
<1> HIDE DEF q, mask, donors
<1>4. \A j \in 1..u.len : t[j] \in AlphabetN /\ DpTable(q, mask)[t[j]] = b[j]
  <2> SUFFICES ASSUME NEW j \in 1..u.len
               PROVE  t[j] \in AlphabetN /\ DpTable(q, mask)[t[j]] = b[j]
    OBVIOUS
  <2>1. b[j] = d[u.at + j]
    BY SpelledPart
  <2>2. t[j] = IF b[j] \in mask THEN donors[b[j]] ELSE b[j]
    BY <2>1
  <2> HIDE DEF t
  <2> QED BY <1>1, <1>3, <2>2
<1>5. t \in [1..u.len -> AlphabetN]
  BY <1>4
<1>6. u.len \in 1..MaxDpSegment
  BY <1>1, SpelledPart, ThresholdsAssumption
<1> HIDE DEF t
<1>7. Segmented(d, u, b, q, mask, t)
  BY <1>1, <1>2, <1>4, <1>5, <1>6 DEF Segmented
<1> QED BY <1>7

\* The digits of a short group are one more than its bytes.
LEMMA TailDigitsAre ==
  ASSUME NEW b \in Seq(Octet), Len(b) \in 1..3
  PROVE  TailDigits(b) \in Seq(Digit) /\ Len(TailDigits(b)) = Len(b) + 1
<1> DEFINE n == Len(b) + 1
           z == ZeroPadded(b)
           v == BytesToValue(z)
           g == ValueToDigits(v)
<1>1. z \in Seq(Octet) /\ Len(z) = 4
  <2>1. \A i \in 1..Len(b) : b[i] \in Octet
    BY ElementOfSeq
  <2>2. 0 \in Octet
    BY RadixType DEF Octet
  <2>3. z \in [1..4 -> Octet]
    BY <2>1, <2>2 DEF ZeroPadded
  <2> HIDE DEF z
  <2>4. z \in Seq(Octet)
    BY <2>3, SeqDef, 4 \in Nat
  <2> QED BY <2>3, <2>4, LenProperties
<1>2. g \in Seq(Digit) /\ Len(g) = 5 /\ ValueToDigitPairs(v) = g
  <2>1. v \in 0..(Base_5 - 1)
    BY <1>1, BlockValue
  <2> QED BY <2>1, ValueRoundTrip, PairsAgree
<1> HIDE DEF g
<1>3. TailDigits(b) = SubSeq(g, 0 + 1, 0 + n) /\ n \in Nat /\ 0 + n <= Len(g)
  <2>1. TailDigits(b) = SubSeq(g, 1, n)
    BY <1>2 DEF TailDigits
  <2>2. 0 + n = n /\ 0 + 1 = 1 /\ n \in Nat /\ n <= 5
    <3>1. PICK l \in 1..3 : l = Len(b)
      OBVIOUS
    <3>2. n = l + 1
      BY <3>1
    <3> HIDE DEF n
    <3> QED BY <3>2
  <2> QED BY <1>2, <2>1, <2>2
<1> HIDE DEF n
<1>4. SubSeq(g, 0 + 1, 0 + n) \in Seq(Digit) /\ Len(SubSeq(g, 0 + 1, 0 + n)) = n
  BY <1>2, <1>3, PartIn, 0 \in Nat
<1> QED BY <1>3, <1>4 DEF n

\* What is left at the end of the input.
LEMMA ShortUnit ==
  ASSUME NEW d, NEW u, NEW b, Spelled(d, u, b), u.kind = "block", u.len # 4
  PROVE  /\ u.at + u.len = Len(d) /\ u.len \in 1..3
         /\ UnitChars(d, u) = Characters(TailDigits(b))
         /\ TailDigits(b) \in Seq(Digit) /\ Len(TailDigits(b)) = u.len + 1
         /\ TailAccepted(TailDigits(b)) /\ TailBytes(TailDigits(b)) = b
<1>1. u.sig = b /\ u.len = Smaller(Len(d) - u.at, 4)
  BY DEF Spelled, StandsFor
<1>2. b \in Seq(Octet) /\ Len(b) = u.len /\ u.len \in Nat \ {0} /\ u.at \in Nat /\ Len(d) \in Nat
  BY SpelledPart, OctetIsByte
<1>3. u.len \in 1..3 /\ u.len < 4 /\ u.at + u.len = Len(d)
  BY <1>1, <1>2 DEF Smaller
<1>4. UnitChars(d, u) = Characters(TailDigits(b))
  BY <1>1, <1>3 DEF UnitChars
<1>5. TailAccepted(TailDigits(b)) /\ TailBytes(TailDigits(b)) = b
  BY <1>2, <1>3, TailRoundTrip
<1>6. TailDigits(b) \in Seq(Digit) /\ Len(TailDigits(b)) = u.len + 1
  BY <1>2, <1>3, TailDigitsAre
<1> QED BY <1>3, <1>4, <1>5, <1>6

\* c is v's signal and a segment's characters t.
SegmentRead(c, v, len, q, mask, t) ==
  /\ v \in 0..(Base_5 - 1) /\ v \in DpSignalBase..(FillSignalBase - 1)
  /\ SplitDp(v - DpSignalBase) = [len |-> len, mask |-> mask, profile |-> q]
  /\ len \in Nat \ {0} /\ c \in Seq(AlphabetN) /\ Len(c) = 5 + len
  /\ \A j \in 1..5 : c[j] = Signal(v)[j]
  /\ \A j \in 1..len : c[5 + j] = t[j]

\* A segment's characters, and what its signal says.
LEMMA SegmentedChars ==
  ASSUME NEW d, NEW u, NEW b, NEW q, NEW mask, NEW t, Segmented(d, u, b, q, mask, t)
  PROVE  SegmentRead(UnitChars(d, u), DpSignal(q, mask, u.len), u.len, q, mask, t)
<1> DEFINE len == u.len  v == DpSignal(q, mask, u.len)  c == UnitChars(d, u)
<1>0. /\ q \in ProfileIds /\ mask \in SUBSET RSetBytes /\ len \in 1..MaxDpSegment
      /\ t \in [1..len -> AlphabetN] /\ v = DpSignal(q, mask, len) /\ c = Signal(v) \o t
  BY DEF Segmented
<1> HIDE DEF len, v, c
<1>1. v \in DpSignalBase..(FillSignalBase - 1)
      /\ SplitDp(v - DpSignalBase) = [len |-> len, mask |-> mask, profile |-> q]
  BY <1>0, DpSignalRead
<1>2. v \in 0..(Base_5 - 1) /\ len \in Nat \ {0}
  BY <1>0, <1>1, RangeOrder, RangeTypes, RangesFit, ThresholdsAssumption
<1>3. Signal(v) \in Seq(AlphabetN) /\ Len(Signal(v)) = 5
  BY <1>2, SignalRead
<1>4. t \in Seq(AlphabetN) /\ Len(t) = len
  BY <1>0, <1>2, SeqDef, LenProperties
<1>5. /\ c \in Seq(AlphabetN) /\ Len(c) = 5 + len
      /\ \A j \in 1..5 : c[j] = Signal(v)[j]
      /\ \A j \in 1..len : c[5 + j] = t[j]
  <2>1. /\ c \in Seq(AlphabetN) /\ Len(c) = Len(Signal(v)) + Len(t)
        /\ \A i \in 1..(Len(Signal(v)) + Len(t)) :
             c[i] = IF i <= Len(Signal(v)) THEN Signal(v)[i] ELSE t[i - Len(Signal(v))]
    <3> DEFINE g == Signal(v)
    <3>1. g \in Seq(AlphabetN) /\ t \in Seq(AlphabetN) /\ c = g \o t
      BY <1>0, <1>3, <1>4
    <3> HIDE DEF g
    <3> QED BY <3>1, ConcatProperties DEF g
  <2>2. \A i \in 1..(5 + len) : c[i] = IF i <= 5 THEN Signal(v)[i] ELSE t[i - 5]
    BY <1>3, <1>4, <2>1
  <2>3. \A j \in 1..5 : j \in 1..(5 + len) /\ j <= 5
    BY <1>2
  <2>4. \A j \in 1..len : 5 + j \in 1..(5 + len) /\ ~(5 + j <= 5) /\ 5 + j - 5 = j
    BY <1>2
  <2> QED BY <1>3, <1>4, <2>1, <2>2, <2>3, <2>4
<1>6. SegmentRead(c, v, len, q, mask, t)
  BY <1>1, <1>2, <1>5 DEF SegmentRead
<1> QED BY <1>6 DEF len, v, c

\* The characters of a construct are of the alphabet.
LEMMA UnitCharsAre ==
  ASSUME NEW d, NEW u, NEW b, Spelled(d, u, b)
  PROVE  UnitChars(d, u) \in Seq(AlphabetN) /\ Len(UnitChars(d, u)) \in Nat \ {0}
<1>1. ASSUME \E v : Plain(v, b) /\ UnitChars(d, u) = Signal(v)
      PROVE  UnitChars(d, u) \in Seq(AlphabetN) /\ Len(UnitChars(d, u)) \in Nat \ {0}
  <2>1. PICK v : v \in 0..(Base_5 - 1) /\ UnitChars(d, u) = Signal(v)
    BY <1>1 DEF Plain
  <2>2. Signal(v) \in Seq(AlphabetN) /\ Len(Signal(v)) = 5
    BY <2>1, SignalRead
  <2> QED BY <2>1, <2>2
<1>2. CASE u.kind = "solid"
  BY <1>1, <1>2, SolidUnit
<1>3. CASE u.kind \in {"zerosFirst", "literalsFirst"}
  BY <1>1, <1>3, TailUnit
<1>4. CASE u.kind = "block" /\ u.len = 4
  BY <1>1, <1>4, GroupUnit
<1>5. CASE u.kind = "dp"
  <2>1. PICK q, mask, t : Segmented(d, u, b, q, mask, t)
    BY <1>5, SegmentUnit
  <2>2. /\ UnitChars(d, u) \in Seq(AlphabetN) /\ Len(UnitChars(d, u)) = 5 + u.len
        /\ u.len \in Nat \ {0}
    <3>1. SegmentRead(UnitChars(d, u), DpSignal(q, mask, u.len), u.len, q, mask, t)
      BY <2>1, SegmentedChars
    <3> QED BY <3>1 DEF SegmentRead
  <2> QED BY <2>2
<1>6. CASE u.kind = "block" /\ u.len # 4
  <2>1. /\ u.len \in 1..3 /\ UnitChars(d, u) = Characters(TailDigits(b))
        /\ TailDigits(b) \in Seq(Digit) /\ Len(TailDigits(b)) = u.len + 1
    BY <1>6, ShortUnit
  <2> QED BY <2>1, CharactersRead
<1>7. u.kind \in {"solid", "zerosFirst", "literalsFirst", "dp", "block"}
  BY DEF Spelled, StandsFor
<1> QED BY <1>2, <1>3, <1>4, <1>5, <1>6, <1>7

-----------------------------------------------------------------------------
(* The constructs an encoder picks.                                        *)

\* The canonical construct at p is one of the format for the bytes it covers.
StandsAt(d, p) == StandsFor(d, UnitAt(d, p))

\* The bytes of d that begin at p, n of them.
LEMMA PartIs ==
  ASSUME NEW d \in Seq(Byte), NEW p \in 0..(Len(d) - 1), NEW n \in 1..(Len(d) - p),
         NEW b \in Seq(Byte), Len(b) = n, \A i \in 1..n : b[i] = d[p + i]
  PROVE  SubSeq(d, p + 1, p + n) = b
<1>1. p \in Nat /\ n \in Nat /\ p + n <= Len(d)
  BY LenProperties
<1>2. /\ SubSeq(d, p + 1, p + n) \in Seq(Byte) /\ Len(SubSeq(d, p + 1, p + n)) = n
      /\ \A i \in 1..n : SubSeq(d, p + 1, p + n)[i] = d[p + i]
  BY <1>1, PartIn
<1> QED BY <1>2, SeqEqual

\* A function on 1..n.
LEMMA FunctionSeq ==
  ASSUME NEW C, NEW n \in Nat, NEW f \in [1..n -> C]
  PROVE  f \in Seq(C) /\ Len(f) = n
BY SeqDef, LenProperties

\* A Fill signal stands for the bytes it covers.
LEMMA FillStands ==
  ASSUME NEW d \in Seq(Byte), NEW p \in 0..(Len(d) - 1), FillCovers(d, p) > 0
  PROVE  StandsAt(d, p)
<1> DEFINE u == ChooseFill(d, p)  n == FillCovers(d, p)
           part == SubSeq(d, p + 1, p + n)
           run == FillRun(d, p)
<1>1. /\ p \in Nat /\ n \in 1..(Len(d) - p) /\ n \in Nat /\ Len(d) \in Nat
      /\ \A i \in 1..n : p + i \in 1..Len(d) /\ d[p + i] \in Byte
  <2>1. n \in 1..(Len(d) - p) /\ Len(d) \in Nat
    BY FillRange, LenProperties
  <2> HIDE DEF n
  <2>2. \A i \in 1..n : p + i \in 1..Len(d)
    BY <2>1
  <2> QED BY <2>1, <2>2, ElementOfSeq
<1>2. UnitAt(d, p) = u /\ u.at = p /\ u.len = n
  BY DEF UnitAt, ChooseFill
<1>3. /\ run \in 1..(Len(d) - p) /\ run <= MaxFill
      /\ \A j \in 1..run : d[p + j] = d[p + 1]
  BY FillRunFacts
<1>4. /\ MaxTailZeros \in Nat /\ MinTailZeros = 3 /\ Zero \in Byte
  BY ThresholdsAssumption, BytesAssumption
<1> DEFINE zeros == [i \in 1..(n - 2) |-> Zero]
<1> HIDE DEF n, run, u
<1>5. ASSUME n - 2 \in 1..MaxTailZeros
      PROVE  zeros \in Seq(Byte) /\ Len(zeros) = n - 2 /\ \A i \in 1..(n - 2) : zeros[i] = Zero
  <2>1. n - 2 \in Nat /\ zeros \in [1..(n - 2) -> Byte]
    BY <1>4, <1>5
  <2>2. \A i \in 1..(n - 2) : zeros[i] = Zero
    OBVIOUS
  <2> HIDE DEF zeros
  <2> QED BY <2>1, <2>2, FunctionSeq
<1>6. CASE n = SolidCovers(d, p)
  <2> DEFINE b == [i \in 1..n |-> d[p + 1]]
  <2>1. u.kind = "solid" /\ u.sig = <<d[p + 1]>>
    BY <1>6 DEF u, n, ChooseFill
  <2>2. n = run
    BY <1>1, <1>6 DEF SolidCovers, run
  <2>3. 1 \in 1..n /\ d[p + 1] \in Byte
    BY <1>1
  <2>4. b \in Seq(Byte) /\ Len(b) = n
    <3>1. b \in [1..n -> Byte]
      BY <2>3
    <3> HIDE DEF b
    <3> QED BY <1>1, <3>1, FunctionSeq
  <2>5. \A i \in 1..n : b[i] = d[p + i]
    BY <1>3, <2>2
  <2> HIDE DEF b
  <2>6. part = b
    BY <1>1, <2>4, <2>5, PartIs
  <2>7. u.sig[1] = d[p + 1] /\ u.len <= MaxFill
    BY <1>2, <1>3, <2>1, <2>2
  <2> QED BY <1>2, <2>1, <2>6, <2>7 DEF StandsAt, StandsFor, b
<1>7. CASE n # SolidCovers(d, p) /\ n = ZerosFirstCovers(d, p)
  <2> DEFINE sig == <<d[p + n - 1], d[p + n]>>
             b == zeros \o sig
  <2>1. u.kind = "zerosFirst" /\ u.sig = sig
    BY <1>7 DEF u, n, ChooseFill
  <2>2. /\ n - 2 \in 1..MaxTailZeros /\ n - 2 <= run /\ d[p + 1] = Zero
    <3>1. /\ d[p + 1] = Zero /\ Smaller(run, MaxTailZeros) >= MinTailZeros
          /\ n = Smaller(run, MaxTailZeros) + 2
      BY <1>1, <1>7 DEF ZerosFirstCovers, run
    <3>2. run \in Int
      BY <1>3
    <3> QED BY <1>1, <1>4, <3>1, <3>2 DEF Smaller
  <2>3. sig \in Seq(Byte) /\ Len(sig) = 2 /\ sig[1] = d[p + n - 1] /\ sig[2] = d[p + n]
        /\ sig \in [1..2 -> Byte]
    <3>1. n - 1 \in 1..n /\ n \in 1..n /\ p + n - 1 = p + (n - 1)
      BY <1>1, <1>4, <2>2
    <3>2. d[p + n - 1] \in Byte /\ d[p + n] \in Byte
      BY <1>1, <3>1
    <3> QED BY <3>2
  <2>4. \A i \in 1..(n - 2) : d[p + i] = Zero
    <3> SUFFICES ASSUME NEW i \in 1..(n - 2) PROVE d[p + i] = Zero
      OBVIOUS
    <3>1. i \in 1..run
      BY <1>1, <1>3, <2>2
    <3> QED BY <1>3, <2>2, <3>1
  <2> HIDE DEF sig, zeros
  <2>5. /\ b \in Seq(Byte) /\ Len(b) = (n - 2) + 2
        /\ \A i \in 1..((n - 2) + 2) : b[i] = IF i <= n - 2 THEN zeros[i] ELSE sig[i - (n - 2)]
    <3>1. /\ zeros \o sig \in Seq(Byte) /\ Len(zeros \o sig) = Len(zeros) + Len(sig)
          /\ \A i \in 1..(Len(zeros) + Len(sig)) :
               (zeros \o sig)[i] = IF i <= Len(zeros) THEN zeros[i] ELSE sig[i - Len(zeros)]
      BY <1>5, <2>2, <2>3, ConcatProperties
    <3>2. Len(zeros) = n - 2 /\ Len(sig) = 2
      BY <1>5, <2>2, <2>3
    <3> QED BY <3>1, <3>2
  <2>6. ASSUME NEW i \in 1..n PROVE b[i] = d[p + i]
    <3>1. i \in 1..((n - 2) + 2)
      BY <1>1
    <3>2. CASE i <= n - 2
      <4>1. i \in 1..(n - 2)
        BY <3>2
      <4> QED BY <1>5, <2>2, <2>4, <2>5, <3>1, <3>2, <4>1
    <3>3. CASE i = n - 1
      <4>1. ~(i <= n - 2) /\ i - (n - 2) = 1 /\ p + i = p + n - 1
        BY <1>1, <3>3
      <4> QED BY <2>3, <2>5, <3>1, <4>1
    <3>4. CASE i = n
      <4>1. ~(i <= n - 2) /\ i - (n - 2) = 2 /\ p + i = p + n
        BY <1>1, <3>4
      <4> QED BY <2>3, <2>5, <3>1, <4>1
    <3>5. i <= n - 2 \/ i = n - 1 \/ i = n
      <4>1. n \in Nat /\ i \in 1..n
        BY <1>1
      <4> QED BY <4>1
    <3> QED BY <3>2, <3>3, <3>4, <3>5
  <2>7. Len(b) = n
    BY <1>1, <2>5
  <2> HIDE DEF b
  <2>8. part = b
    BY <1>1, <2>5, <2>6, <2>7, PartIs
  <2> QED BY <1>2, <2>1, <2>2, <2>3, <2>8 DEF StandsAt, StandsFor, b, zeros
<1>8. CASE n # SolidCovers(d, p) /\ n # ZerosFirstCovers(d, p)
  <2> DEFINE sig == <<d[p + 1], d[p + 2]>>
             b == sig \o zeros
  <2>1. u.kind = "literalsFirst" /\ u.sig = sig
    BY <1>8 DEF u, n, ChooseFill
  <2>2. n = LiteralsFirstCovers(d, p)
    BY <1>8 DEF n, FillCovers
  <2>3. /\ n - 2 \in 1..MaxTailZeros
        /\ \A i \in 1..(n - 2) : d[p + 2 + i] = Zero
    <3>1. /\ Len(d) - p >= 3 /\ ZeroRun(d, p + 2) >= MinTailZeros
          /\ n = ZeroRun(d, p + 2) + 2
      BY <1>1, <2>2 DEF LiteralsFirstCovers
    <3>2. p + 2 \in 0..Len(d)
      BY <1>1, <3>1
    <3>3. /\ ZeroRun(d, p + 2) \in 0..(Len(d) - (p + 2)) /\ ZeroRun(d, p + 2) <= MaxTailZeros
          /\ \A j \in 1..ZeroRun(d, p + 2) : d[p + 2 + j] = Zero
      BY <3>2, ZeroRunFacts
    <3>4. n - 2 = ZeroRun(d, p + 2)
      BY <1>1, <3>1, <3>3
    <3> QED BY <1>1, <1>4, <3>1, <3>3, <3>4
  <2>4. sig \in Seq(Byte) /\ Len(sig) = 2 /\ sig[1] = d[p + 1] /\ sig[2] = d[p + 2]
        /\ sig \in [1..2 -> Byte]
    <3>1. 1 \in 1..n /\ 2 \in 1..n
      BY <1>1, <1>4, <2>3
    <3>2. d[p + 1] \in Byte /\ d[p + 2] \in Byte
      BY <1>1, <3>1
    <3> QED BY <3>2
  <2> HIDE DEF sig, zeros
  <2>5. /\ b \in Seq(Byte) /\ Len(b) = 2 + (n - 2)
        /\ \A i \in 1..(2 + (n - 2)) : b[i] = IF i <= 2 THEN sig[i] ELSE zeros[i - 2]
    <3>1. /\ sig \o zeros \in Seq(Byte) /\ Len(sig \o zeros) = Len(sig) + Len(zeros)
          /\ \A i \in 1..(Len(sig) + Len(zeros)) :
               (sig \o zeros)[i] = IF i <= Len(sig) THEN sig[i] ELSE zeros[i - Len(sig)]
      BY <1>5, <2>3, <2>4, ConcatProperties
    <3>2. Len(zeros) = n - 2 /\ Len(sig) = 2
      BY <1>5, <2>3, <2>4
    <3> QED BY <3>1, <3>2
  <2>6. ASSUME NEW i \in 1..n PROVE b[i] = d[p + i]
    <3>1. i \in 1..(2 + (n - 2))
      BY <1>1
    <3>2. CASE i <= 2
      <4>1. i = 1 \/ i = 2
        BY <3>2
      <4> QED BY <2>4, <2>5, <3>1, <3>2, <4>1
    <3>3. CASE ~(i <= 2)
      <4>1. i - 2 \in 1..(n - 2) /\ p + 2 + (i - 2) = p + i
        BY <1>1, <3>3
      <4> QED BY <1>5, <2>3, <2>5, <3>1, <3>3, <4>1
    <3> QED BY <3>2, <3>3
  <2>7. Len(b) = n
    BY <1>1, <2>5
  <2> HIDE DEF b
  <2>8. part = b
    BY <1>1, <2>5, <2>6, <2>7, PartIs
  <2> QED BY <1>2, <2>1, <2>3, <2>4, <2>8 DEF StandsAt, StandsFor, b, zeros
<1> QED BY <1>6, <1>7, <1>8

\* A segment's donors are the first of its profile, one for each character of its
\* mask.
LEMMA DonorIsEarly ==
  ASSUME NEW q \in ProfileIds, NEW mask \in SUBSET RSetBytes, NEW r \in mask
  PROVE  \E k \in 1..Len(RSet) : k <= Cardinality(mask) /\ Donors(q, mask)[r] = Profiles[q][k]
<1> DEFINE upTo == {x \in mask : RSetIndex(x) <= RSetIndex(r)}
           k == Cardinality(upTo)
<1>1. IsFiniteSet(mask) /\ Cardinality(mask) \in Nat /\ Cardinality(mask) <= Len(RSet)
  <2>1. IsFiniteSet(RSetBytes) /\ Cardinality(RSetBytes) \in Nat
        /\ Cardinality(RSetBytes) <= Len(RSet) /\ Len(RSet) \in Nat
    BY RSetFinite, BytesAssumption, LenProperties
  <2>2. IsFiniteSet(mask) /\ Cardinality(mask) <= Cardinality(RSetBytes)
        /\ Cardinality(mask) \in Nat
    BY <2>1, FS_Subset, FS_CardinalityType
  <2> QED BY <2>1, <2>2
<1>2. r \in upTo /\ upTo \in SUBSET mask
  <2>1. RSetIndex(r) \in Nat
    BY RSetIndexIs
  <2> QED BY <2>1
<1>3. Donors(q, mask)[r] = Profiles[q][k]
  BY DEF Donors
<1> HIDE DEF upTo
<1>4. IsFiniteSet(upTo) /\ k \in Nat /\ k <= Cardinality(mask)
  BY <1>1, <1>2, FS_Subset, FS_CardinalityType
<1>5. k # 0
  BY <1>2, <1>4, FS_EmptySet
<1>6. k \in 1..Len(RSet)
  <2>1. Len(RSet) \in Nat
    BY BytesAssumption, LenProperties
  <2> HIDE DEF k
  <2> QED BY <1>1, <1>4, <1>5, <2>1
<1> QED BY <1>3, <1>4, <1>6

\* The rank of a profile's donor is its place.
LEMMA RankIs ==
  ASSUME NEW q \in ProfileIds, NEW k \in 1..Len(RSet)
  PROVE  Rank(q, Profiles[q][k]) = k - 1
<1> DEFINE b == Profiles[q][k]  at == {r \in 1..Len(RSet) : Profiles[q][r] = b}
<1>1. at = {k}
  BY ProfilesAssumption
<1>2. k \in Nat
  BY BytesAssumption, LenProperties
<1>3. Min({k}) = k
  BY <1>2 DEF Min
<1>4. Rank(q, b) = IF at = {} THEN Len(RSet) ELSE Min(at) - 1
  BY DEF Rank
<1> HIDE DEF at, b
<1> QED BY <1>1, <1>3, <1>4 DEF b

\* A segment stands for the bytes it translates.
LEMMA SegmentStands ==
  ASSUME NEW d \in Seq(Byte), NEW p \in 0..(Len(d) - 1), ~(FillCovers(d, p) > 0),
         DpLen(d, p) >= MinPassthrough
  PROVE  StandsAt(d, p)
<1> DEFINE n == DpLen(d, p)
           S == Seen(d, p, n)
           q == DpProfile(d, p, n)
           mask == DpMask(d, p, n)
           donors == Donors(q, mask)
           u == DpUnit(d, p, n, donors)
           part == SubSeq(d, p + 1, p + n)
<1>1. /\ n \in 1..(Len(d) - p) /\ n <= MaxDpSegment /\ n \in Nat
      /\ \A j \in 0..(n - 1) : ~DpEnds(d, p, j)
  <2>1. /\ n \in 0..(Len(d) - p) /\ n <= MaxDpSegment
        /\ \A j \in 0..(n - 1) : ~DpEnds(d, p, j)
    <3>1. p \in 0..Len(d)
      BY LenProperties
    <3> QED BY <3>1, DpLenFacts
  <2>2. n >= 12
    BY <2>1, ThresholdsAssumption
  <2> HIDE DEF n
  <2> QED BY <2>1, <2>2
<1>2. UnitAt(d, p) = u /\ u.at = p /\ u.len = n /\ u.kind = "dp" /\ u.sig = <<q, mask, donors>>
  BY DEF UnitAt, DpUnit
<1>3. q \in ProfileIds /\ q \in Viable(S)
  <2>1. n - 1 \in 0..(n - 1) /\ n - 1 + 1 = n
    BY <1>1
  <2>2. Viable(S) # {}
    BY <1>1, <2>1 DEF DpEnds
  <2> DEFINE V == Viable(S)
  <2>3. V \in SUBSET Nat /\ V # {} /\ V \subseteq ProfileIds
    <3>1. V \subseteq ProfileIds
      BY DEF Viable
    <3>2. ProfileIds \subseteq Nat
      BY DEF ProfileIds
    <3> HIDE DEF V
    <3> QED BY <2>2, <3>1, <3>2 DEF V
  <2>4. q = Min(V)
    BY DEF DpProfile
  <2> HIDE DEF V, S, q
  <2>5. PICK m \in V : \A x \in V : m <= x
    BY <2>3, LeastNat
  <2>6. Min(V) \in V
    BY <2>5 DEF Min
  <2> QED BY <2>3, <2>4, <2>6 DEF V
<1>4. mask = S \cap RSetBytes
  BY DEF DpMask
<1>5. \A i \in 1..n : d[p + i] \in S /\ d[p + i] \in Representable
  <2> SUFFICES ASSUME NEW i \in 1..n PROVE d[p + i] \in S /\ d[p + i] \in Representable
    OBVIOUS
  <2>1. i - 1 \in 0..(n - 1) /\ p + (i - 1) + 1 = p + i
    BY <1>1
  <2>2. ~DpEnds(d, p, i - 1)
    BY <1>1, <2>1
  <2>3. d[p + (i - 1) + 1] \in Representable
    BY <2>2 DEF DpEnds
  <2> QED BY <2>1, <2>3 DEF Seen
<1> HIDE DEF S, q, mask, n
<1>6. ASSUME NEW i \in 1..n
      PROVE  d[p + i] \in mask \cup (AlphabetN \ {donors[r] : r \in mask})
  <2> DEFINE b == d[p + i]
  <2>1. CASE b \in RSetBytes
    BY <1>4, <1>5, <2>1
  <2>2. CASE b \notin RSetBytes
    <3>1. b \in AlphabetN /\ b \in S \ RSetBytes
      BY <1>5, <2>2 DEF Representable
    <3>2. Rank(q, b) >= Cardinality(mask)
      BY <1>3, <1>4, <3>1 DEF Viable
    <3>3. ASSUME NEW r \in mask, donors[r] = b PROVE FALSE
      <4>1. PICK k \in 1..Len(RSet) : k <= Cardinality(mask) /\ donors[r] = Profiles[q][k]
        BY <1>3, <1>4, DonorIsEarly
      <4>2. Rank(q, b) = k - 1
        BY <1>3, <3>3, <4>1, RankIs
      <4>3. Cardinality(mask) \in Nat
        <5>1. mask \in SUBSET RSetBytes
          BY <1>4
        <5> QED BY <5>1, RSetFinite, FS_Subset, FS_CardinalityType
      <4>4. k \in Nat
        BY BytesAssumption, LenProperties
      <4> QED BY <3>2, <4>1, <4>2, <4>3, <4>4
    <3> QED BY <3>1, <3>3
  <2> QED BY <2>1, <2>2
<1>7. \A i \in 1..n : part[i] = d[p + i]
  <2>1. p \in Nat /\ p + n <= Len(d)
    BY <1>1, LenProperties
  <2> QED BY <1>1, <2>1, PartIn
<1>8. u.sig[1] = q /\ u.sig[2] = mask /\ u.sig[3] = donors
  BY <1>2
<1> HIDE DEF u, donors, part
<1>9. \A i \in 1..n : part[i] \in mask \cup (AlphabetN \ {donors[r] : r \in mask})
  BY <1>6, <1>7
<1>10. SubSeq(d, u.at + 1, u.at + u.len) = part
  BY <1>2 DEF part
<1>11. /\ u.kind = "dp" /\ u.len <= MaxDpSegment
       /\ u.sig[1] \in ProfileIds /\ u.sig[2] \subseteq RSetBytes
       /\ u.sig[3] = Donors(u.sig[1], u.sig[2])
       /\ \A i \in 1..u.len : SubSeq(d, u.at + 1, u.at + u.len)[i]
                                \in u.sig[2] \cup (AlphabetN \ {u.sig[3][r] : r \in u.sig[2]})
  <2>1. u.sig[3] = Donors(u.sig[1], u.sig[2])
    BY <1>8 DEF donors
  <2>2. \A i \in 1..u.len : SubSeq(d, u.at + 1, u.at + u.len)[i]
                            \in u.sig[2] \cup (AlphabetN \ {u.sig[3][r] : r \in u.sig[2]})
    <3>1. {u.sig[3][r] : r \in u.sig[2]} = {donors[r] : r \in mask} /\ u.sig[2] = mask
      BY <1>8
    <3>2. u.len = n
      BY <1>2
    <3> QED BY <1>9, <1>10, <3>1, <3>2, Zenon
  <2> QED BY <1>1, <1>2, <1>3, <1>4, <1>8, <2>1, <2>2
<1>12. StandsFor(d, u)
  BY <1>11, Zenon DEF StandsFor
<1> QED BY <1>2, <1>12 DEF StandsAt

\* A block stands for the bytes it holds.
LEMMA BlockStands ==
  ASSUME NEW d \in Seq(Byte), NEW p \in 0..(Len(d) - 1), ~(FillCovers(d, p) > 0),
         ~(DpLen(d, p) >= MinPassthrough)
  PROVE  StandsAt(d, p)
<1>1. UnitAt(d, p) = BlockUnit(d, p)
  BY DEF UnitAt
<1> DEFINE u == BlockUnit(d, p)
<1>2. /\ u.kind = "block" /\ u.at = p /\ u.len = Smaller(Len(d) - p, 4)
      /\ u.sig = SubSeq(d, p + 1, p + Smaller(Len(d) - p, 4))
  BY DEF BlockUnit
<1> HIDE DEF u
<1>3. u.len = Smaller(Len(d) - u.at, 4) /\ u.sig = SubSeq(d, u.at + 1, u.at + u.len)
  BY <1>2
<1>4. StandsFor(d, u)
  BY <1>2, <1>3, Zenon DEF StandsFor
<1> QED BY <1>1, <1>4 DEF StandsAt, u

\* The canonical encoding of an input from its start to its end is one of the
\* spellings a text for it may have; so what the decoder is proved to do with a
\* text of any spelling it does with what the encoder writes.
THEOREM CanonicalSpells ==
  ASSUME NEW d \in Seq(Byte), NEW us \in Seq(Units(d)), Canon(d, 0, us, Len(d))
  PROVE  Spells(d, us)
<1>1. ASSUME NEW p \in 0..(Len(d) - 1) PROVE StandsAt(d, p)
  BY FillStands, SegmentStands, BlockStands
<1>2. ASSUME NEW k \in 1..Len(us)
      PROVE  /\ us[k].at \in 0..(Len(d) - 1) /\ us[k].len \in 1..(Len(d) - us[k].at)
             /\ us[k].at + us[k].len = (IF k = Len(us) THEN Len(d) ELSE us[k + 1].at)
             /\ StandsFor(d, us[k])
  <2> DEFINE p == us[k].at
  <2>1. p \in 0..(Len(d) - 1) /\ us[k] = UnitAt(d, p)
        /\ us[k].at + us[k].len = (IF k = Len(us) THEN Len(d) ELSE us[k + 1].at)
    BY DEF Canon
  <2> HIDE DEF p
  <2>2. UnitAt(d, p).len \in 1..(Len(d) - p) /\ StandsFor(d, UnitAt(d, p))
    BY <1>1, <2>1, UnitFacts DEF StandsAt
  <2> QED BY <2>1, <2>2 DEF p
<1>3. Len(us) \in Nat /\ (us = <<>> <=> Len(us) = 0)
  BY LenProperties, EmptySeq
<1> QED BY <1>2, <1>3 DEF Canon, Spells
=============================================================================
