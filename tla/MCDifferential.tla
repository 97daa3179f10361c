--------------------------- MODULE MCDifferential ---------------------------
(***************************************************************************)
(* Both decoders on the texts of MCTexts.                                  *)
(***************************************************************************)
EXTENDS Differential, MCDecode
=============================================================================
