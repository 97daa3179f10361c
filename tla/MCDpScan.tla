------------------------------ MODULE MCDpScan ------------------------------
(***************************************************************************)
(* Every window of up to four bytes over bytes of each class, of five over *)
(* most of them, and longer ones around the limit.  A run of three ends a  *)
(* prefix here, so that short windows contain one.                         *)
(***************************************************************************)
EXTENDS DpLanes, PortScan, SequencesExt

MCByte == {"00", "a", "~", "^", "?", " ", "tab", ","}
MCZero == "00"
MCAlphabetN == {"a", "~", "^", "?"}
MCRSet == <<" ", "tab", ",">>
MCProfiles == <<<<"~", "^", "?">>, <<"~", "?", "^">>, <<"^", "~", "a">>>>
MCWordRange == MCByte \ {"00"}

Filler(n) == [j \in 1..n |-> IF j % 2 = 0 THEN "~" ELSE " "]
MCWindows ==
  BoundedSeq(MCByte, 4) \cup [1..5 -> {"a", "~", "^", " ", "tab"}]
    \cup {Filler(n) \o t : n \in 9..12, t \in [1..3 -> {"~", "tab", "^"}]}
=============================================================================
