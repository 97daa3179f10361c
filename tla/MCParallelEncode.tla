-------------------------- MODULE MCParallelEncode --------------------------
EXTENDS ParallelEncode, MCFormat

Pieces ==
  {Repeat("00", n) : n \in {5, 11}} \cup {Binary(n) : n \in {2, 9}}
    \cup {Text(n) : n \in {7, 30}} \cup {Cycle(<<"a", " ", "^">>, 21)}

\* Every input of three pieces with seams every 11 and 17 bytes, every input
\* of two pieces with seams every 7 to 9.
SafetyCases ==
  {[data |-> s, chunk |-> c] : s \in {t \in Three(Pieces) : Len(t) <= 33}, c \in {11, 17}}
    \cup {[data |-> s, chunk |-> c] : s \in {t \in Two(Pieces) : Len(t) <= 36}, c \in {9}}

LiveCases ==
  {[data |-> s, chunk |-> 5] : s \in Two({Repeat("00", 5), Binary(5)})}
    \cup {[data |-> Text(20) \o Binary(3), chunk |-> 9], [data |-> Binary(11), chunk |-> 4]}
=============================================================================
