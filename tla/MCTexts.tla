------------------------------ MODULE MCTexts -------------------------------
(***************************************************************************)
(* Seven digits and eleven bytes: NUL, space and quote as the R-Set, space *)
(* also being what the decoder ignores, the seven characters of the        *)
(* alphabet and a byte no segment can carry.  As for 85 and 256, a group   *)
(* of five digits holds four bytes (11^4 = 14641 of 7^5 = 16807 values)    *)
(* and what is left is enough for the signals, with some to spare.         *)
(***************************************************************************)
EXTENDS Wire

MCByte == 0..10
MCAlphabet == <<3, 4, 5, 6, 7, 8, 9>>
MCAlphabetN == 3..9
MCRSet == <<1, 2>>
MCProfiles == <<<<9, 8>>, <<8, 9>>>>
MCWordRange == 1..9
MCWhitespace == {1}
MCWideChar == 200

Repeat(b, k) == [i \in 1..k |-> b]
Cycle(s, k) == [i \in 1..k |-> s[((i - 1) % Len(s)) + 1]]

-----------------------------------------------------------------------------
(* Encoded data.                                                           *)

Pieces ==
  {Repeat(0, n) : n \in {1, 3, 6}} \cup {Repeat(10, n) : n \in {5, 17}}
    \cup {Cycle(<<10, 0, 7>>, n) : n \in {1, 2, 3, 7}} \cup {Cycle(<<3, 1, 4>>, 13)}
    \cup {Cycle(<<9, 2, 5>>, 12), Cycle(<<8, 1>>, 18)}
Inputs == {<<>>} \cup {a \o b : a, b \in Pieces}

Texts == {[text |-> Written(d, Encoding(d)), sent |-> d, units |-> Encoding(d)] : d \in Inputs}

\* Segments no encoder would write side by side: the same characters, with
\* every pair of substitutions.
Segments ==
  LET d == <<1, 4, 5, 1, 4, 5>>
      segment(p, at, q) == DpUnit(d, p, 3, Donors(q, {1}))
      units(q, r) == <<[segment(0, 0, q) EXCEPT !.sig = <<q, {1}, Donors(q, {1})>>],
                       [segment(3, 3, r) EXCEPT !.sig = <<r, {1}, Donors(r, {1})>>]>>
  IN  {[text |-> Written(d, units(q, r)), sent |-> d, units |-> units(q, r)] : q, r \in 1..2}

\* A space before every character whose place is a multiple of n.
Spaced(t, n) ==
  FlattenSeq([i \in 1..Len(t) |-> IF i % n = 0 THEN <<1, t[i]>> ELSE <<t[i]>>])
Valid ==
  Texts \cup Segments
    \cup {[c EXCEPT !.text = Spaced(c.text, n)] : c \in Texts \cup Segments, n \in {1, 4, 9}}

-----------------------------------------------------------------------------
(* Everything else.                                                        *)

Replaced(t, i, c) == [t EXCEPT ![i] = c]

\* Texts cut short inside a segment, with a foreign character in what is left.
Segment12 == Written(Cycle(<<3, 1, 4>>, 12), Encoding(Cycle(<<3, 1, 4>>, 12)))
Cut ==
  UNION {{SubSeq(Segment12, 1, k), Spaced(SubSeq(Segment12, 1, k), 6)}
           \cup {Replaced(SubSeq(Segment12, 1, k), i, c) :
                   i \in 6..k, c \in {2, MCWideChar}} : k \in {5, 9, 16}}

\* Values at the edges of the ranges, alone and before other characters.
Edges ==
  {FillSignalBase, TailSignalBase, FutureSignalBase, DpSignalBase, Base_5} \ {0}
EdgeTexts ==
  {Signal(v) \o t : v \in UNION {{e - 1, e} : e \in Edges} \ {Base_5},
                    t \in {<<>>, <<3>>, <<1, 3>>, <<4, 5, 9>>, <<5, MCWideChar, 3, 3, 3, 3>>}}

\* Every short text, and the valid ones with one character replaced or lost.
ShortTexts ==
  BoundedSeq({3, 6, 9, 1, 2, MCWideChar}, 3) \cup [1..4 -> {3, 4, 8, 9}] \cup [1..2 -> 3..9]
Damaged ==
  UNION {{Replaced(t, i, c) : i \in {3, 7, Len(t)} \cap 1..Len(t), c \in {0, 4, 9, MCWideChar}}
           \cup {SubSeq(t, 1, Len(t) - 1), SubSeq(t, 2, Len(t)),
                 Spaced(Replaced(t, Len(t), MCWideChar), 4)} :
           t \in {c.text : c \in Texts} \ {<<>>}}
=============================================================================
