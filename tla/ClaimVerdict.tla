----------------------------- MODULE ClaimVerdict -----------------------------
(***************************************************************************)
(* What a verdict on a claim promises, whichever way it was found. A claim *)
(* is about a set of points and fails at some of them; it is called proved *)
(* only when it fails at none of the points it is about, and disproved     *)
(* only by showing one of them where it fails. Anything less certain says  *)
(* nothing. One verdict is given and never taken back.                     *)
(***************************************************************************)
CONSTANT Points

VARIABLES
  subject,   \* the points the claim is about
  failing,   \* the points where it does not hold
  verdict,   \* "none" until there is one
  shown      \* the point shown with a disproof

claimVars == <<subject, failing, verdict, shown>>

ClaimInit ==
  /\ subject \subseteq Points /\ failing \subseteq Points
  /\ verdict = "none" /\ shown = {}

ProveClaim ==
  /\ subject \cap failing = {}
  /\ verdict' = "proved" /\ UNCHANGED shown

DisproveClaim ==
  \E p \in subject \cap failing : verdict' = "disproved" /\ shown' = {p}

Abstain == verdict' \in {"evidence", "refused"} /\ UNCHANGED shown

Decide ==
  /\ verdict = "none"
  /\ ProveClaim \/ DisproveClaim \/ Abstain
  /\ UNCHANGED <<subject, failing>>

ClaimSpec == ClaimInit /\ [][Decide]_claimVars
=============================================================================
