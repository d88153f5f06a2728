--------------------------- MODULE MCAnnotations ---------------------------
(***************************************************************************)
(* Instances of Annotations for TLC: the edits are model values.           *)
(***************************************************************************)
EXTENDS Annotations, TLC
=============================================================================
