----------------------------- MODULE IdentityCheck -----------------------------
(***************************************************************************)
(* check_identity and check_identity_constrained of verification.py, and   *)
(* trig_identity_check of trigonometry.py: left = right is decided by      *)
(* simplification where it can be, and searched for a counterexample on a  *)
(* grid where it cannot.                                                   *)
(*                                                                         *)
(* A point is an assignment of the variables of the request. The terms are *)
(* abstracted to the points where the two sides differ, where their        *)
(* difference has no number, and where each kind of constraint holds; a    *)
(* number within the tolerance 1e-9 of zero counts as zero.                *)
(***************************************************************************)
EXTENDS Naturals, FiniteSets, Functions

CONSTANTS
  Points,       \* assignments
  MaxSamples    \* limits.max_samples

ASSUME IdentityAssumption == MaxSamples \in Nat

(* "free": without constraints. "mapped": with a parameterization or a     *)
(* substitution. "gridded": constrained, without either.                   *)
Modes == {"free", "mapped", "gridded"}

VARIABLES
  mode,
  differs,       \* where left - right is a number other than zero
  undefined,     \* where left - right is no number
  equalities,    \* where the constraints with relation == hold
  inequalities,  \* where the other constraints hold
  misread,       \* a constraint has a relation the code does not know
  pointOf,       \* the point that a choice of the grid's symbols maps to
  grid,          \* the choices the search runs through
  pc,            \* "start", "simplify", "search", "done"
  todo,          \* the choices not yet visited
  visited,       \* how many were
  feasible,      \* feasible_samples
  compared,      \* the points where the difference was evaluated
  verdict,       \* "none", a certainty, or "refused" with an error
  shown          \* the point of the witness, if there is one

problem == <<mode, differs, undefined, equalities, inequalities, misread, pointOf, grid>>
search == <<todo, visited, feasible, compared>>
vars == <<problem, pc, search, verdict, shown>>

Identity == [p \in Points |-> p]

(* check_identity evaluates on a grid of seven values for each of at most  *)
(* four symbols: with none of them, or with more, nothing is evaluated.    *)
Init ==
  /\ mode \in Modes
  /\ differs \in SUBSET Points /\ undefined \in SUBSET (Points \ differs)
  /\ equalities \in SUBSET Points /\ inequalities \in SUBSET Points
  /\ misread \in BOOLEAN
  /\ mode = "free" => equalities = Points /\ inequalities = Points /\ ~misread
  /\ pointOf \in IF mode = "mapped" THEN [Points -> Points] ELSE {Identity}
  /\ grid \in SUBSET Points /\ IsFiniteSet(grid)
  /\ pc = "start" /\ todo = {} /\ visited = 0 /\ feasible = 0 /\ compared = {}
  /\ verdict = "none" /\ shown = {}

-----------------------------------------------------------------------------
Image == Range(pointOf)

Finish(v, witness) == pc' = "done" /\ verdict' = v /\ shown' = witness

(* A side, a constraint or a substitution does not parse or names an       *)
(* undeclared symbol; a payload has another shape; SymPy raises.           *)
Refused ==
  /\ pc # "done"
  /\ Finish("refused", {})
  /\ UNCHANGED <<problem, search>>

(* Mutation of OnSurface: a constraint that SymPy leaves standing passes.  *)
OnSurface_Trusting == TRUE

(* Every equality constraint reduces to 0 under the substitution.          *)
OnSurface == Image \subseteq equalities

(* _unsatisfied_equality_constraints looks at no other relation than ==,   *)
(* and SymPy may leave a residual that is zero.                            *)
CheckSubstitution ==
  /\ pc = "start" /\ mode = "mapped"
  /\ UNCHANGED <<problem, search>>
  /\ \/ OnSurface /\ pc' = "simplify" /\ UNCHANGED <<verdict, shown>>
     \/ Finish("refused", {})

NothingToSubstitute ==
  /\ pc = "start" /\ mode = "free"
  /\ pc' = "simplify"
  /\ UNCHANGED <<problem, search, verdict, shown>>

(* simplify may find 0 where the difference is nowhere another number.     *)
Simplified ==
  /\ pc = "simplify" /\ Image \cap differs = {}
  /\ Finish("proved", {})
  /\ UNCHANGED <<problem, search>>

(* The difference is left standing: with symbols to try values for, the    *)
(* grid is searched; without, there is no witness.                         *)
BeginSearch ==
  /\ \/ pc = "simplify"
     \/ pc = "start" /\ mode = "gridded" /\ Cardinality(grid) <= MaxSamples
  /\ pc' = "search" /\ todo' = grid
  /\ UNCHANGED <<problem, visited, feasible, compared, verdict, shown>>

(* The product of the grids has more points than are searched.             *)
TooLarge ==
  /\ pc = "start" /\ mode = "gridded" /\ Cardinality(grid) > MaxSamples
  /\ Finish("refused", {})
  /\ UNCHANGED <<problem, search>>

-----------------------------------------------------------------------------
(* The search                                                              *)

(* Mutation of Feasible: a witness need not satisfy the inequalities.      *)
Feasible_EqualitiesOnly(p) == p \in equalities

Feasible(p) == p \in equalities \cap inequalities

(* Mutation of WithinBudget: the count is compared before it is increased. *)
WithinBudget_OneMore == mode = "mapped" => visited <= MaxSamples

(* Only the search of the mapped grid counts what it visits.               *)
WithinBudget == mode = "mapped" => visited < MaxSamples

(* The next choice of the product. A point is passed over when a           *)
(* constraint fails there or has no number, as the one with an unknown     *)
(* relation may, and when the difference has none, which is a feasible     *)
(* sample all the same; a difference ends the search.                      *)
Visit(choice) ==
  LET p == pointOf[choice]
      satisfied == Feasible(p) /\ ~misread
  IN  /\ pc = "search" /\ choice \in todo /\ WithinBudget
      /\ todo' = todo \ {choice}
      /\ visited' = visited + 1
      /\ feasible' = IF satisfied THEN feasible + 1 ELSE feasible
      /\ compared' = IF satisfied /\ p \notin undefined THEN compared \cup {p} ELSE compared
      /\ IF satisfied /\ p \in differs
         THEN Finish("disproved", {p})
         ELSE UNCHANGED <<pc, verdict, shown>>
      /\ UNCHANGED problem

(* _relation_holds raises on a relation it does not know, once the         *)
(* constraints before it hold.                                             *)
UnknownRelation ==
  /\ pc = "search" /\ todo # {} /\ WithinBudget /\ misread
  /\ Finish("refused", {})
  /\ UNCHANGED <<problem, search>>

(* Mutation of NothingFeasible: an empty search passes for evidence.       *)
NothingFeasible_Ignored == FALSE

NothingFeasible == mode = "gridded" /\ feasible = 0

EndSearch ==
  /\ pc = "search"
  /\ todo = {} \/ ~WithinBudget
  /\ Finish(IF NothingFeasible THEN "refused" ELSE "evidence", {})
  /\ UNCHANGED <<problem, search>>

(* The request is over: nothing more happens.                              *)
Over == pc = "done" /\ UNCHANGED vars

Next ==
  \/ Refused \/ CheckSubstitution \/ NothingToSubstitute \/ Simplified
  \/ BeginSearch \/ TooLarge
  \/ \E choice \in Points : Visit(choice)
  \/ UnknownRelation \/ EndSearch \/ Over

Spec == Init /\ [][Next]_vars

-----------------------------------------------------------------------------
(* Properties                                                              *)

(* Types; no more than max_samples choices are visited under a mapping.    *)
IdentityTypeOK ==
  /\ mode \in Modes /\ misread \in BOOLEAN
  /\ differs \subseteq Points /\ undefined \subseteq Points
  /\ equalities \subseteq Points /\ inequalities \subseteq Points
  /\ pointOf \in [Points -> Points] /\ grid \subseteq Points
  /\ pc \in {"start", "simplify", "search", "done"}
  /\ todo \subseteq Points /\ compared \subseteq Points
  /\ visited \in Nat /\ feasible \in 0 .. visited
  /\ mode = "mapped" => visited <= MaxSamples
  /\ verdict \in {"none", "proved", "disproved", "evidence", "refused"}
  /\ shown \subseteq Points

(* What a verdict is about: the points the grid's symbols can stand for    *)
(* that satisfy the constraints.                                           *)
Subject == Image \cap equalities \cap inequalities

Claim == INSTANCE ClaimVerdict WITH subject <- Subject, failing <- differs

(* Whichever of the three ways a request takes, its verdict is one on the  *)
(* claim that the sides agree on Subject: a proof leaves no point of it    *)
(* out, and a witness is a point of it, inside the inequalities too, where *)
(* the sides differ (docstring of _constrained_symbolic).                  *)
ImplementsClaim == Claim!ClaimSpec

(* "The substitution must first satisfy every equality constraint" and is  *)
(* not silently trusted: a proof holds on an image that lies on the        *)
(* surface of the == constraints, and nowhere on it do the sides differ.   *)
ProofHoldsOnImage == verdict = "proved" => Image \subseteq equalities \ differs

(* Evidence is not the silence of a search that looked at nothing: when no *)
(* constraint was misread and the budget was not exceeded, every choice of *)
(* the grid was seen to be infeasible, without a number, or agreeing, and  *)
(* a search without a substitution met a feasible point.                   *)
EvidenceSurvivedTheSearch ==
  verdict = "evidence" /\ ~misread =>
    /\ mode = "gridded" => \E choice \in grid : Feasible(choice)
    /\ mode # "mapped" \/ Cardinality(grid) <= MaxSamples =>
         \A choice \in grid :
           Feasible(pointOf[choice]) => pointOf[choice] \in (compared \cup undefined) \ differs

(* The certificate of verification.py:313, "left - right reduces to 0 on   *)
(* the constraint surface after substitution": the sides agree wherever    *)
(* the constraints hold.                                                   *)
ProvedHoldsOnSurface ==
  verdict = "proved" => equalities \cap inequalities \cap differs = {}

-----------------------------------------------------------------------------
(* The inductive invariant, in parts                                       *)

Settled == pc = "done" <=> verdict # "none"

(* A search has seen all of the grid but todo, and met no difference.      *)
Searched ==
  \A choice \in grid \ todo :
    Feasible(pointOf[choice]) => pointOf[choice] \in (compared \cup undefined) \ differs

(* What each way of deciding may rely on at each step.                     *)
Underway ==
  /\ IsFiniteSet(grid) /\ todo \subseteq grid
  /\ undefined \cap differs = {}
  /\ mode # "mapped" => pointOf = Identity
  /\ mode = "free" => equalities = Points /\ ~misread
  /\ pc = "start" => todo = {} /\ visited = 0 /\ feasible = 0
  /\ pc = "simplify" => todo = {} /\ visited = 0 /\ feasible = 0
  /\ pc = "simplify" => mode # "gridded" /\ Image \subseteq equalities
  /\ verdict # "disproved" => shown = {}
  /\ pc = "search" => visited = Cardinality(grid) - Cardinality(todo)
  /\ pc = "search" /\ ~misread => Searched
  /\ pc = "search" /\ feasible # 0 => \E choice \in grid : Feasible(pointOf[choice])

(* The invariant the proofs use: a verdict of a search is about the grid   *)
(* as a whole, which is known only from what was seen on the way.          *)
IdentityInv ==
  IdentityTypeOK /\ Settled /\ Underway /\ ProofHoldsOnImage /\ EvidenceSurvivedTheSearch
=============================================================================
