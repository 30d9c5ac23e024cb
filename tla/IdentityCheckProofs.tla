-------------------------- MODULE IdentityCheckProofs --------------------------
(***************************************************************************)
(* What a verdict on an identity means, proved for any set of points, any  *)
(* substitution, grid and budget. The search's part of the argument is an  *)
(* invariant of its own: what is not left to visit was found infeasible,   *)
(* without a number, or agreeing (Searched).                               *)
(***************************************************************************)
EXTENDS IdentityCheck, FiniteSetTheorems, TLAPS

(* The grid's symbols stand for points, whatever maps them.                *)
LEMMA ImageIsPoints ==
  ASSUME IdentityTypeOK
  PROVE  Image \subseteq Points
BY DEF IdentityTypeOK, Image, Range

LEMMA InitInv == Init => IdentityInv
<1> SUFFICES ASSUME Init PROVE IdentityInv
  OBVIOUS
<1>1. pointOf \in [Points -> Points] /\ (mode # "mapped" => pointOf = Identity)
  BY DEF Init, Identity, Modes
<1>2. IdentityTypeOK
  BY <1>1, IdentityAssumption DEF Init, IdentityTypeOK
<1>3. Settled /\ ProofHoldsOnImage /\ EvidenceSurvivedTheSearch
  BY DEF Init, Settled, ProofHoldsOnImage, EvidenceSurvivedTheSearch
<1>4. Underway
  BY <1>1 DEF Init, Underway
<1> QED
  BY <1>2, <1>3, <1>4 DEF IdentityInv

(* A step that leaves the search alone and comes to a verdict, or to none. *)
LEMMA FinishInv ==
  ASSUME IdentityInv, UNCHANGED <<problem, search>>, pc # "done",
         NEW v \in {"proved", "evidence", "refused"}, Finish(v, {}),
         v = "proved" => Image \subseteq equalities \ differs,
         v = "evidence" => EvidenceSurvivedTheSearch'
  PROVE  IdentityInv'
<1> USE DEF problem, search, Finish
<1>1. IdentityTypeOK'
  BY DEF IdentityInv, IdentityTypeOK, Modes
<1>2. Settled'
  BY DEF Settled
<1>3. Underway'
  BY DEF IdentityInv, Underway
<1>4. ProofHoldsOnImage'
  BY DEF ProofHoldsOnImage, Image
<1>5. EvidenceSurvivedTheSearch'
  <2>1. CASE v = "evidence"
    BY <2>1
  <2>2. CASE v # "evidence"
    BY <2>2 DEF EvidenceSurvivedTheSearch
  <2> QED
    BY <2>1, <2>2
<1> QED
  BY <1>1, <1>2, <1>3, <1>4, <1>5 DEF IdentityInv

(* Nothing is decided yet and the search has not moved.                    *)
LEMMA StartInv ==
  ASSUME IdentityInv, UNCHANGED <<problem, search, verdict, shown>>,
         pc \in {"start", "simplify"}, pc' = "simplify",
         mode # "gridded", Image \subseteq equalities
  PROVE  IdentityInv'
<1> USE DEF problem, search
<1>1. IdentityTypeOK'
  BY DEF IdentityInv, IdentityTypeOK
<1>2. Settled'
  BY DEF IdentityInv, Settled
<1>3. Underway'
  BY DEF IdentityInv, Underway, Image
<1>4. ProofHoldsOnImage' /\ EvidenceSurvivedTheSearch'
  BY <1>2 DEF IdentityInv, Settled, ProofHoldsOnImage, EvidenceSurvivedTheSearch
<1> QED
  BY <1>1, <1>2, <1>3, <1>4 DEF IdentityInv

LEMMA BeginSearchInv == IdentityInv /\ BeginSearch => IdentityInv'
<1> SUFFICES ASSUME IdentityInv, BeginSearch PROVE IdentityInv'
  OBVIOUS
<1> USE DEF problem, search
<1>1. pc \in {"start", "simplify"} /\ verdict = "none"
  BY DEF BeginSearch, IdentityInv, Settled
<1>2. IdentityTypeOK'
  BY DEF BeginSearch, IdentityInv, IdentityTypeOK
<1>3. Settled' /\ ProofHoldsOnImage' /\ EvidenceSurvivedTheSearch'
  BY <1>1 DEF BeginSearch, Settled, ProofHoldsOnImage, EvidenceSurvivedTheSearch
<1>4. visited = 0 /\ Cardinality(grid) - Cardinality(grid) = 0
  <2>1. Cardinality(grid) \in Nat
    BY FS_CardinalityType DEF IdentityInv, Underway
  <2> QED
    BY <1>1, <2>1 DEF IdentityInv, Underway
<1>5. Underway'
  <2>1. Searched'
    BY DEF BeginSearch, Searched
  <2>2. feasible = 0
    BY <1>1 DEF IdentityInv, Underway
  <2> QED
    BY <1>1, <1>4, <2>1, <2>2 DEF BeginSearch, IdentityInv, Underway
<1> QED
  BY <1>2, <1>3, <1>5 DEF IdentityInv

LEMMA VisitInv ==
  ASSUME IdentityInv, NEW choice \in Points, Visit(choice)
  PROVE  IdentityInv'
<1> USE DEF problem
<1> DEFINE p == pointOf[choice]
           satisfied == Feasible(p) /\ ~misread
<1>0. /\ pc = "search" /\ choice \in todo /\ WithinBudget
      /\ todo' = todo \ {choice} /\ visited' = visited + 1
      /\ feasible' = IF satisfied THEN feasible + 1 ELSE feasible
      /\ compared' = IF satisfied /\ p \notin undefined THEN compared \cup {p} ELSE compared
      /\ UNCHANGED problem
  BY DEF Visit
<1>1. verdict = "none" /\ shown = {} /\ p \in Points
  BY <1>0 DEF IdentityInv, Settled, Underway, IdentityTypeOK
<1>2. \/ satisfied /\ p \in differs /\ pc' = "done" /\ verdict' = "disproved" /\ shown' = {p}
      \/ ~(satisfied /\ p \in differs) /\ UNCHANGED <<pc, verdict, shown>>
  BY DEF Visit, Finish
<1>3. IdentityTypeOK'
  <2>1. visited' \in Nat /\ feasible' \in 0 .. visited'
    BY <1>0 DEF IdentityInv, IdentityTypeOK
  <2>2. mode = "mapped" => visited' <= MaxSamples
    BY <1>0, IdentityAssumption DEF IdentityInv, IdentityTypeOK, WithinBudget
  <2>3. compared' \subseteq Points /\ todo' \subseteq Points
    BY <1>0, <1>1 DEF IdentityInv, IdentityTypeOK
  <2>4. pc' \in {"search", "done"} /\ verdict' \in {"none", "disproved"} /\ shown' \subseteq Points
    BY <1>0, <1>1, <1>2
  <2>5. UNCHANGED <<mode, differs, undefined, equalities, inequalities, misread, pointOf, grid>>
    BY <1>0
  <2> QED
    BY <2>1, <2>2, <2>3, <2>4, <2>5 DEF IdentityInv, IdentityTypeOK
<1>4. Settled'
  BY <1>0, <1>1, <1>2 DEF Settled
<1>5. ProofHoldsOnImage' /\ EvidenceSurvivedTheSearch'
  BY <1>1, <1>2 DEF ProofHoldsOnImage, EvidenceSurvivedTheSearch
<1>6. Underway'
  <2>1. IsFiniteSet(todo) /\ choice \in grid
    BY <1>0, FS_Subset DEF IdentityInv, Underway
  <2>2. Cardinality(todo') = Cardinality(todo) - 1
    BY <1>0, <2>1, FS_RemoveElement
  <2>3. visited' = Cardinality(grid) - Cardinality(todo')
    <3>1. Cardinality(todo) \in Nat /\ Cardinality(grid) \in Nat
      BY <2>1, FS_CardinalityType DEF IdentityInv, Underway
    <3> QED
      BY <1>0, <2>2, <3>1 DEF IdentityInv, Underway
  <2>4. pc' = "search" /\ ~misread' => Searched'
    <3> SUFFICES ASSUME pc' = "search", ~misread, NEW c \in grid \ todo', Feasible(pointOf[c])
                 PROVE  pointOf[c] \in (compared' \cup undefined) \ differs
      BY <1>0 DEF Searched, Feasible
    <3>1. CASE c = choice
      <4>1. satisfied /\ p \notin differs
        BY <1>0, <1>2, <3>1
      <4> QED
        BY <1>0, <3>1, <4>1
    <3>2. CASE c # choice
      <4>1. c \in grid \ todo
        BY <1>0, <3>2
      <4>2. pointOf[c] \in (compared \cup undefined) \ differs
        BY <1>0, <4>1 DEF IdentityInv, Underway, Searched
      <4> QED
        BY <1>0, <4>2
    <3> QED
      BY <3>1, <3>2
  <2>5. pc' = "search" /\ feasible' # 0 => \E c \in grid : Feasible(pointOf[c])
    BY <1>0, <2>1 DEF IdentityInv, Underway
  <2>6. UNCHANGED <<mode, differs, undefined, equalities, inequalities, misread, pointOf, grid>>
    BY <1>0
  <2>7. pc' \in {"search", "done"} /\ (verdict' # "disproved" => shown' = {})
    BY <1>0, <1>1, <1>2
  <2>8. todo' \subseteq grid
    BY <1>0 DEF IdentityInv, Underway
  <2> QED
    BY <2>3, <2>4, <2>5, <2>6, <2>7, <2>8 DEF IdentityInv, Underway, Feasible
<1> QED
  BY <1>3, <1>4, <1>5, <1>6 DEF IdentityInv

(* When the search ends within its budget nothing is left of the grid.     *)
LEMMA EndSearchInv == IdentityInv /\ EndSearch => IdentityInv'
<1> SUFFICES ASSUME IdentityInv, EndSearch PROVE IdentityInv'
  OBVIOUS
<1> DEFINE v == IF NothingFeasible THEN "refused" ELSE "evidence"
<1>1. pc = "search" /\ UNCHANGED <<problem, search>> /\ Finish(v, {})
  BY DEF EndSearch
<1>2. ASSUME v = "evidence" PROVE EvidenceSurvivedTheSearch'
  <2>0. UNCHANGED <<mode, equalities, inequalities, misread, pointOf, grid, compared,
                    undefined, differs>>
    BY <1>1 DEF problem, search
  <2>1. mode = "gridded" => \E choice \in grid : Feasible(choice)
    <3> SUFFICES ASSUME mode = "gridded" PROVE \E choice \in grid : Feasible(choice)
      OBVIOUS
    <3>1. feasible # 0
      BY <1>2 DEF NothingFeasible
    <3>2. PICK choice \in grid : Feasible(pointOf[choice])
      BY <1>1, <3>1 DEF IdentityInv, Underway
    <3>3. pointOf[choice] = choice
      BY DEF IdentityInv, Underway, Identity, IdentityTypeOK
    <3> QED
      BY <3>2, <3>3
  <2>2. ASSUME mode # "mapped" \/ Cardinality(grid) <= MaxSamples PROVE todo = {}
    <3>1. IsFiniteSet(todo) /\ Cardinality(todo) \in Nat /\ Cardinality(grid) \in Nat
      BY FS_Subset, FS_CardinalityType DEF IdentityInv, Underway
    <3>2. CASE WithinBudget
      BY <3>2 DEF EndSearch
    <3>3. CASE ~WithinBudget
      <4>1. Cardinality(todo) = 0
        BY <1>1, <2>2, <3>1, <3>3, IdentityAssumption
           DEF WithinBudget, IdentityInv, Underway, IdentityTypeOK
      <4> QED
        BY <3>1, <4>1, FS_EmptySet
    <3> QED
      BY <3>2, <3>3
  <2>3. ~misread => Searched
    BY <1>1 DEF IdentityInv, Underway
  <2> QED
    BY <2>0, <2>1, <2>2, <2>3 DEF EvidenceSurvivedTheSearch, Searched, Feasible
<1> QED
  <2>1. v \in {"proved", "evidence", "refused"} /\ v # "proved"
    OBVIOUS
  <2> HIDE DEF v
  <2> QED
    BY <1>1, <1>2, <2>1, FinishInv

LEMMA StepInv == IdentityInv /\ [Next]_vars => IdentityInv'
<1> SUFFICES ASSUME IdentityInv, [Next]_vars PROVE IdentityInv'
  OBVIOUS
<1>1. CASE Refused
  <2>1. UNCHANGED <<problem, search>> /\ pc # "done" /\ Finish("refused", {})
    BY <1>1 DEF Refused
  <2> QED
    BY <2>1, FinishInv
<1>2. CASE CheckSubstitution
  <2>1. UNCHANGED <<problem, search>> /\ pc = "start" /\ mode = "mapped"
    BY <1>2 DEF CheckSubstitution
  <2>2. CASE OnSurface /\ pc' = "simplify" /\ UNCHANGED <<verdict, shown>>
    <3>1. mode # "gridded" /\ Image \subseteq equalities
      BY <2>1, <2>2 DEF OnSurface
    <3>2. UNCHANGED <<problem, search, verdict, shown>>
      BY <2>1, <2>2
    <3> QED
      BY <2>1, <2>2, <3>1, <3>2, StartInv
  <2>3. CASE Finish("refused", {})
    BY <2>1, <2>3, FinishInv
  <2> QED
    BY <1>2, <2>2, <2>3 DEF CheckSubstitution
<1>3. CASE NothingToSubstitute
  <2>1. /\ pc = "start" /\ mode = "free" /\ pc' = "simplify"
        /\ UNCHANGED <<problem, search, verdict, shown>>
    BY <1>3 DEF NothingToSubstitute
  <2>2. Image \subseteq equalities
    BY <2>1, ImageIsPoints DEF IdentityInv, Underway
  <2> QED
    BY <2>1, <2>2, StartInv
<1>4. CASE Simplified
  <2>1. /\ pc = "simplify" /\ Image \cap differs = {} /\ Finish("proved", {})
        /\ UNCHANGED <<problem, search>>
    BY <1>4 DEF Simplified
  <2>2. Image \subseteq equalities \ differs
    BY <2>1 DEF IdentityInv, Underway
  <2> QED
    BY <2>1, <2>2, FinishInv
<1>5. CASE BeginSearch
  BY <1>5, BeginSearchInv
<1>6. CASE TooLarge
  <2>1. UNCHANGED <<problem, search>> /\ pc # "done" /\ Finish("refused", {})
    BY <1>6 DEF TooLarge
  <2> QED
    BY <2>1, FinishInv
<1>7. CASE \E choice \in Points : Visit(choice)
  BY <1>7, VisitInv
<1>8. CASE UnknownRelation
  <2>1. UNCHANGED <<problem, search>> /\ pc # "done" /\ Finish("refused", {})
    BY <1>8 DEF UnknownRelation
  <2> QED
    BY <2>1, FinishInv
<1>9. CASE EndSearch
  BY <1>9, EndSearchInv
<1>10. CASE UNCHANGED vars
  BY <1>10 DEF vars, problem, search, IdentityInv, IdentityTypeOK, Settled, Underway, Searched,
               ProofHoldsOnImage, EvidenceSurvivedTheSearch, Image, Feasible
<1> QED
  BY <1>1, <1>2, <1>3, <1>4, <1>5, <1>6, <1>7, <1>8, <1>9, <1>10 DEF Next, Over

(* The invariant holds of every check of an identity.                      *)
THEOREM InductiveInvariant == Spec => []IdentityInv
BY InitInv, StepInv, PTL DEF Spec

(* Every variable keeps its type, and a search under a mapping never       *)
(* visits more than max_samples choices.                                   *)
THEOREM TypeCorrect == Spec => []IdentityTypeOK
<1>1. IdentityInv => IdentityTypeOK
  BY DEF IdentityInv
<1> QED
  BY <1>1, InductiveInvariant, PTL

(* A proof is never told of a substitution that leaves the == constraints, *)
(* nor where the sides differ somewhere on its image.                      *)
THEOREM ProofsHold == Spec => []ProofHoldsOnImage
<1>1. IdentityInv => ProofHoldsOnImage
  BY DEF IdentityInv
<1> QED
  BY <1>1, InductiveInvariant, PTL

(* Evidence is what a complete search over the grid has left.              *)
THEOREM EvidenceIsEarned == Spec => []EvidenceSurvivedTheSearch
<1>1. IdentityInv => EvidenceSurvivedTheSearch
  BY DEF IdentityInv
<1> QED
  BY <1>1, InductiveInvariant, PTL

LEMMA ClaimInit == Init => Claim!ClaimInit
<1> SUFFICES ASSUME Init PROVE Claim!ClaimInit
  OBVIOUS
<1>1. differs \subseteq Points /\ verdict = "none" /\ shown = {}
  BY DEF Init
<1>2. Subject \subseteq Points
  BY DEF Init, Subject
<1> QED
  BY <1>1, <1>2 DEF Claim!ClaimInit

(* Every step gives no verdict, or one that the claim allows. The hard     *)
(* case is the witness: it is a feasible point of the image.               *)
LEMMA ClaimStep == IdentityInv /\ [Next]_vars => [Claim!Decide]_(Claim!claimVars)
<1> SUFFICES ASSUME IdentityInv, [Next]_vars PROVE [Claim!Decide]_(Claim!claimVars)
  OBVIOUS
<1> USE DEF problem, search, Finish
<1>0. UNCHANGED <<Subject, differs>>
  BY DEF Next, vars, Refused, CheckSubstitution, NothingToSubstitute, Simplified, BeginSearch,
         TooLarge, Visit, UnknownRelation, EndSearch, Over, Subject, Image
<1>1. ASSUME UNCHANGED <<verdict, shown>> PROVE UNCHANGED Claim!claimVars
  BY <1>0, <1>1 DEF Claim!claimVars
<1>2. ASSUME pc # "done", verdict' \in {"evidence", "refused"}, shown' = {}
      PROVE  Claim!Decide
  <2>1. verdict = "none" /\ shown = {}
    BY <1>2 DEF IdentityInv, Settled, Underway
  <2> QED
    BY <1>0, <1>2, <2>1 DEF Claim!Decide, Claim!Abstain
<1>3. CASE Refused \/ TooLarge \/ UnknownRelation \/ EndSearch
  <2>1. pc # "done" /\ verdict' \in {"evidence", "refused"} /\ shown' = {}
    BY <1>3 DEF Refused, TooLarge, UnknownRelation, EndSearch
  <2> QED
    BY <1>2, <2>1
<1>4. CASE CheckSubstitution
  BY <1>1, <1>2, <1>4 DEF CheckSubstitution
<1>5. CASE NothingToSubstitute \/ BeginSearch \/ UNCHANGED vars
  BY <1>1, <1>5 DEF NothingToSubstitute, BeginSearch, vars
<1>6. CASE Simplified
  <2>1. Subject \cap differs = {}
    BY <1>6 DEF Simplified, Subject
  <2>2. verdict = "none" /\ shown = {} /\ verdict' = "proved" /\ shown' = {}
    BY <1>6 DEF Simplified, IdentityInv, Settled, Underway
  <2> QED
    BY <1>0, <2>1, <2>2 DEF Claim!Decide, Claim!ProveClaim
<1>7. ASSUME NEW choice \in Points, Visit(choice)
      PROVE  [Claim!Decide]_(Claim!claimVars)
  <2>1. verdict = "none"
    BY <1>7 DEF Visit, IdentityInv, Settled
  <2>2. CASE Feasible(pointOf[choice]) /\ ~misread /\ pointOf[choice] \in differs
    <3>1. pointOf[choice] \in Image
      BY DEF Image, Range, IdentityInv, IdentityTypeOK
    <3>2. pointOf[choice] \in Subject \cap differs
      BY <2>2, <3>1 DEF Subject, Feasible
    <3>3. verdict' = "disproved" /\ shown' = {pointOf[choice]}
      BY <1>7, <2>2 DEF Visit
    <3> QED
      BY <1>0, <2>1, <3>2, <3>3 DEF Claim!Decide, Claim!DisproveClaim
  <2>3. CASE ~(Feasible(pointOf[choice]) /\ ~misread /\ pointOf[choice] \in differs)
    BY <1>1, <1>7, <2>3 DEF Visit
  <2> QED
    BY <2>2, <2>3
<1> QED
  BY <1>3, <1>4, <1>5, <1>6, <1>7 DEF Next, Over

(* The three ways of check_identity and check_identity_constrained promise *)
(* no more than a claim's verdict does.                                    *)
THEOREM IdentityImplementsClaim == Spec => ImplementsClaim
BY InductiveInvariant, ClaimInit, ClaimStep, PTL DEF Spec, ImplementsClaim, Claim!ClaimSpec
=============================================================================
