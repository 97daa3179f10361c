--------------------------- MODULE CanonicalStream ---------------------------
(***************************************************************************)
(* What every encoder of the format promises: from where it begins, what   *)
(* it has emitted is the canonical encoding of the input up to its cursor, *)
(* and it only ever grows, by whole constructs.  How many constructs a     *)
(* step adds is left open: an encoder may flush a run of groups, splice a  *)
(* part another worker produced, or emit one signal.                       *)
(***************************************************************************)
EXTENDS Integers, SequencesExt

CONSTANTS
  Inputs,              \* the inputs considered
  Canon(_, _, _, _)    \* Canon(d, a, u, b): the constructs u are the canonical
                       \* encoding of d from position a to position b

VARIABLES
  data,      \* the input
  emitted,   \* the constructs emitted so far
  cursor     \* the position up to which they account for the input

vars == <<data, emitted, cursor>>

Init ==
  /\ data \in Inputs
  /\ cursor \in 0..Len(data)
  /\ emitted = <<>>

Extend ==
  /\ cursor' > cursor
  /\ IsStrictPrefix(emitted, emitted')
  /\ Canon(data, cursor, SubSeq(emitted', Len(emitted) + 1, Len(emitted')), cursor')
  /\ UNCHANGED data

Next == Extend

Spec == Init /\ [][Next]_vars
=============================================================================
