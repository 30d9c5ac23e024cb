--------------------------------- MODULE Smt ----------------------------------
(***************************************************************************)
(* z3_satisfiability and z3_find_counterexample: Z3 looks for values of    *)
(* the declared sorts that satisfy the constraints, or the assumptions and *)
(* the negation of the claim. The constraints that normalize accepted are  *)
(* compared with the sorts, and are not given to Z3.                       *)
(***************************************************************************)
EXTENDS DomainParser

VARIABLES
  sorts,      \* the sort the payload declares for a variable, or "none"
  query,      \* "satisfiability" or "counterexample"
  answer,     \* "none", a certainty, or the code of an error
  model       \* the assignment that is shown, if there is one

smtVars == <<sorts, query, answer, model>>
smt == <<parserVars, smtVars>>

Sorts == {"Int", "Real", "Bool", "Array"}
Answers == {"none", "proved", "disproved", "exact", "unknown",
            "CONSTRAINT_CONFLICT", "INVALID_AST", "BACKEND_INTERNAL_ERROR"}

(* _SORT_COMPATIBLE_KINDS.                                                 *)
Compatible == [Int |-> "integer", Real |-> "real", Bool |-> "boolean"]

(* The numbers a constant of a sort can be.                                *)
Values(sort) ==
  CASE sort = "Int" -> {n \in Universe : Whole(n)}
    [] sort = "Bool" -> {0, 4}
    [] OTHER -> Universe

Declaring == {v \in Vars : sorts[v] # "none"}
Assignments == {at \in [Declaring -> Universe] : \A v \in Declaring : at[v] \in Values(sorts[v])}

SmtInit ==
  /\ sorts \in [Vars -> Sorts \cup {"none"}]
  /\ query \in {"satisfiability", "counterexample"}
  /\ answer = "none" /\ model = {}

(* Mutation of Disagrees: only a Boolean sort is compared.                 *)
Disagrees_BoolOnly(v) ==
  /\ sorts[v] = "Bool"
  /\ constraint[v].kind \notin {"none", "finite", "boolean"}

(* _check_sort_domain_conflict: an unknown sort is left to Z3, a finite    *)
(* domain is exempt.                                                       *)
Disagrees(v) ==
  /\ sorts[v] \in DOMAIN Compatible
  /\ constraint[v].kind \notin {"none", "finite", Compatible[sorts[v]]}

Answer(a, shownModel) ==
  /\ answer' = a /\ model' = shownModel
  /\ UNCHANGED <<parserVars, sorts, query>>

(* The kind real stands for complex as well, which no sort agrees with.    *)
SortConflict ==
  /\ answer = "none" /\ stage = "accepted"
  /\ \E v \in Declaring :
       Disagrees(v) \/ (sorts[v] = "Real" /\ constraint[v].kind = "real")
  /\ Answer("CONSTRAINT_CONFLICT", {})

Asked == answer = "none" /\ stage = "accepted" /\ \A v \in Declaring : ~Disagrees(v)

(* A sort, a name, a node, the depth or the number of nodes; a list that   *)
(* is none, terms of sorts that do not fit.                                *)
Malformed ==
  /\ Asked
  /\ \E code_ \in {"INVALID_AST", "BACKEND_INTERNAL_ERROR"} : Answer(code_, {})

Solvable == Asked /\ \A v \in Declaring : sorts[v] # "Array"

Sat ==
  /\ Solvable
  /\ \E at \in Assignments :
       Answer(IF query = "satisfiability" THEN "exact" ELSE "disproved", {at})

(* No assignment of the sorts will do.                                     *)
Unsat == Solvable /\ Answer("proved", {})

(* Undecidable, or timeout_ms of Z3's own.                                 *)
Unknown == Solvable /\ Answer("unknown", {})

SmtStep == SortConflict \/ Malformed \/ Sat \/ Unsat \/ Unknown

SmtOver ==
  /\ answer # "none" \/ stage \in {"rejected", "malformed"}
  /\ UNCHANGED smt

SmtNext == (ParserNext /\ UNCHANGED smtVars) \/ SmtStep \/ SmtOver

SmtSpec == ParserInit /\ SmtInit /\ [][SmtNext]_smt

-----------------------------------------------------------------------------
(* Properties                                                              *)

(* A proof by SMT leaves no point of the declared domain out: whatever     *)
(* values the client allowed for its variables, with interval kinds or the *)
(* Boolean kind, were values of the sorts, over which Z3 found nothing.    *)
ProofsCoverTheDomain ==
  answer = "proved" =>
    \A v \in Declaring, n \in Universe :
      Declared(v, n) /\ constraint[v].kind \notin {"none", "finite"} => n \in Values(sorts[v])
=============================================================================
