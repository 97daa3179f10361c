------------------------------ MODULE MCFormat ------------------------------
(***************************************************************************)
(* A small instance of the format for model checking.  Thresholds that     *)
(* decide between constructs keep their real values; the maxima (2048,     *)
(* 2048, 32) are scaled to 28, 24 and 8 so that inputs exceed them.  The   *)
(* alphabet keeps one byte of every class: NUL, a byte outside every word  *)
(* range, two inside the range but not representable, plain characters,    *)
(* donors and R-Set characters.                                            *)
(***************************************************************************)
EXTENDS Integers, Sequences

MCByte == {"00", "ff", "fe", "0b", "1f", "a", "b", "c", "~", "^", " ", "tab"}
MCZero == "00"
MCAlphabetN == {"a", "b", "c", "~", "^"}
MCRSet == <<" ", "tab">>
MCProfiles == <<<<"~", "^">>, <<"^", "~">>>>
MCWordRange == MCByte \ {"00", "ff", "fe"}

\* Pieces inputs are built from.
Repeat(b, n) == [i \in 1..n |-> b]
Cycle(s, n) == [i \in 1..n |-> s[((i - 1) % Len(s)) + 1]]
Binary(n) == Cycle(<<"ff", "fe", "0b">>, n)
Control(n) == Cycle(<<"0b", "1f">>, n)
Text(n) == Cycle(<<"a", "b", "c">>, n)

\* The inputs made of two or three pieces.
Two(Pieces) == {a \o b : a, b \in Pieces}
Three(Pieces) == {a \o b \o c : a, b, c \in Pieces}
=============================================================================
