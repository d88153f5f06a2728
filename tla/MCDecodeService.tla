-------------------------- MODULE MCDecodeService --------------------------
(***************************************************************************)
(* Instances of DecodeService for TLC.                                     *)
(***************************************************************************)
EXTENDS DecodeService, TLC

\* The code compares nodes for identity only: the runs that check safety
\* properties may exchange them.
Symmetry == Permutations(Node)
=============================================================================
