---------------------------- MODULE MCIdentityCheck ----------------------------
(***************************************************************************)
(* Instances of IdentityCheck over a handful of points, which are alike.   *)
(***************************************************************************)
EXTENDS IdentityCheck, TLC

PointSymmetry == Permutations(Points)
=============================================================================
