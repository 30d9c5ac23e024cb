------------------------------ MODULE Certainty ------------------------------
(***************************************************************************)
(* The certainty of a result and what the caveats of a backend do to it:   *)
(* status.py and backend_caveats.py, the last word on whether a client is  *)
(* told "proved" or "evidence".                                            *)
(***************************************************************************)
EXTENDS Integers

Certainties == {"proved", "disproved", "exact", "evidence", "unknown", "error"}

Methods == {"symbolic", "smt", "finite_exhaustive", "interval", "counterexample",
            "numeric_sampling", "numeric_optimization", "simulation", "backend", "none"}

Backends == {"sympy", "z3", "scipy", "networkx", "mpmath", "numpy", "python"}

(* certainty_rank: lower is stronger; the two strict verdicts share a rank.*)
Rank == [c \in Certainties |->
  CASE c \in {"proved", "disproved"} -> 0
    [] c = "exact"    -> 1
    [] c = "evidence" -> 2
    [] c = "unknown"  -> 3
    [] c = "error"    -> 4]

(* A caveat: "*" stands for every operation of the backend, and a caveat   *)
(* that does not affect certainty recommends "none".                       *)
Caveat(b, op, rec) == [backend |-> b, operation |-> op, recommended |-> rec]

CAVEATS ==
  {Caveat(b, "*", "none") : b \in {"sympy", "z3", "networkx", "mpmath"}}
  \cup {Caveat("scipy", op, "evidence") :
          op \in {"numeric_optimize", "ode_solve_numeric", "constrained_optimize"}}
  \cup {Caveat("mpmath", op, "evidence") :
          op \in {"search_counterexample", "check_inequality_sampled",
                  "inequality_sample", "inequality_counterexample_search"}}
  \cup {Caveat("numpy", "probability_simulation", "evidence")}

(* Methods a caveat does not speak against.                                *)
ProofMethods == {"symbolic", "smt", "finite_exhaustive", "interval", "counterexample"}

CaveatsFor(backend, op) ==
  {c \in CAVEATS : c.backend = backend /\ c.operation \in {"*", op}}

(* The recommendations of a set of caveats that are weaker than current.   *)
Downgrades(caveats, current) ==
  {r \in Certainties :
     /\ \E c \in caveats : c.recommended = r
     /\ Rank[r] > Rank[current]}

(* Mutation of StrongestDowngrade: whatever is recommended replaces current*)
StrongestDowngrade_AnyRank(caveats, current) ==
  LET recs == {r \in Certainties : \E c \in caveats : c.recommended = r}
  IN  IF recs = {} THEN current ELSE CHOOSE r \in recs : TRUE

(* strongest_downgrade: the weakest of them, or current when there is none.*)
StrongestDowngrade(caveats, current) ==
  LET down == Downgrades(caveats, current)
  IN  IF down = {} THEN current
      ELSE CHOOSE r \in down : \A s \in down : Rank[s] <= Rank[r]

(* A caveat is active unless the result was reached by a method of proof.  *)
Enforce(backend, op, method, certainty, override) ==
  IF method \in ProofMethods \/ override
  THEN certainty
  ELSE StrongestDowngrade(CaveatsFor(backend, op), certainty)
=============================================================================
