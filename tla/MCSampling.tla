------------------------------- MODULE MCSampling ------------------------------
(***************************************************************************)
(* Sampling as check_inequality_sampled and search_counterexample have it, *)
(* from the request on, for what is told of a witness. Every number of the *)
(* model is a float, so that no rounding plays a part.                     *)
(***************************************************************************)
EXTENDS Sampling

MCBounds == {0, 4}
MCUniverse == {-4, 0, 4}
MCFloat == [n \in MCUniverse |-> n]
OneName == {<<"x">>}
=============================================================================
