---------------------------- MODULE MCFiniteCheck -----------------------------
(***************************************************************************)
(* Instances of FiniteCheck: one variable with bounds on both sides of     *)
(* zero, or two variables, one of which may be named twice.                *)
(***************************************************************************)
EXTENDS FiniteCheck

MCBounds == {-2, 0, 4}
MCUniverse == -6 .. 6

OneName == {<<"x">>}
SomeNames == {<<"x">>, <<"x", "x">>, <<"x", "y">>}
SmallBounds == {0, 4}
SmallUniverse == {-1, 0, 2, 4}
=============================================================================
