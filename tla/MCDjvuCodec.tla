---------------------------- MODULE MCDjvuCodec ----------------------------
(***************************************************************************)
(* Instances of DjvuCodec for TLC: the executor with the search and a      *)
(* crash, the executor with the image loader under fairness.               *)
(***************************************************************************)
EXTENDS DjvuCodec
=============================================================================
