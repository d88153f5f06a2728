-------------------------- MODULE MCBitmapManager --------------------------
(***************************************************************************)
(* Instances of BitmapManager for TLC.                                     *)
(***************************************************************************)
EXTENDS BitmapManager, TLC

\* References are interchangeable: the pool orders its entries by
\* number, never by the reference.
Symmetry == Permutations(Ref)
=============================================================================
