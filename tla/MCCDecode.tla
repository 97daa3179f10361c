----------------------------- MODULE MCCDecode ------------------------------
(***************************************************************************)
(* The C decoder on the texts of MCTexts that are not too long.            *)
(***************************************************************************)
EXTENDS CDecode, MCTexts

MaxText == 24
SafetyTexts ==
  {t \in {c.text : c \in Valid} \cup Cut \cup EdgeTexts \cup ShortTexts \cup Damaged :
     Len(t) <= MaxText}
=============================================================================
