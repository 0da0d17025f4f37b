--------------------------- MODULE MCReconstructor ---------------------------
(***************************************************************************)
(* Three feeds that are interchangeable.  One clock unit is the staleness    *)
(* threshold, and the window is two of them.                                 *)
(***************************************************************************)
EXTENDS Reconstructor

Alike == Permutations(Exchanges)
=============================================================================
