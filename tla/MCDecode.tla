------------------------------ MODULE MCDecode ------------------------------
(***************************************************************************)
(* The Rust decoder on the texts of MCTexts.                               *)
(***************************************************************************)
EXTENDS Decode, MCTexts

Marked(texts, mark) == {[text |-> t, sent |-> mark, units |-> <<>>] : t \in texts}

SafetyCases ==
  Valid \cup Marked(Cut, CutShort)
    \cup Marked(EdgeTexts \cup ShortTexts \cup Damaged, Garbled)
=============================================================================
