---------------------------- MODULE MCEncodeCall ----------------------------
EXTENDS RangeWriter, MCFormat

Pieces ==
  {Repeat("00", n) : n \in {3, 6, 9}} \cup {Repeat("ff", n) : n \in {4, 25}}
    \cup {Binary(n) : n \in {1, 5, 10, 27}} \cup {Control(14)}
    \cup {Text(n) : n \in {2, 19, 29}} \cup {Repeat("a", 17)}
    \cup {Cycle(<<"a", " ", "b">>, 21), Cycle(<<"a", "^", " ">>, 20), <<"~", "tab">>}

Whole(s) == [data |-> s, start |-> 0, stop |-> Len(s), meet |-> {}]

\* The whole of every input.
WholeCases == {Whole(s) : s \in {t \in Three(Pieces) : Len(t) <= 70}}

\* Calls bounded inside an input, and calls that may be met: at the positions
\* of one residue, as another encoder's splice points in a block run would be.
BoundedCases ==
  {c \in {[data |-> s, start |-> a, stop |-> b,
           meet |-> IF met THEN {i \in 5..Len(s) : i % 3 = 0} ELSE {}] :
            s \in {t \in Two(Pieces) : Len(t) <= 60},
            a \in {0, 3}, b \in {4, 9, 30}, met \in BOOLEAN} : c.stop <= Len(c.data)}

SafetyCases == WholeCases \cup BoundedCases
=============================================================================
