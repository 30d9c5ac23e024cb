------------------------------ MODULE MCDispatch ------------------------------
(***************************************************************************)
(* An excerpt of the registry for TLC: one operation per route, backend    *)
(* and caveat that the dispatcher tells apart, and one disabled operation, *)
(* a state of the registry that no operation is in today.                  *)
(***************************************************************************)
EXTENDS Dispatch

Op(backend, sub, state) == [backend |-> backend, sub |-> sub, state |-> state]

MCRegistry == [op \in {"solve_equation", "search_counterexample", "check_identity",
                       "retired"} |->
  CASE op = "solve_equation"        -> Op("sympy", TRUE, "implemented")
    [] op = "search_counterexample" -> Op("mpmath", TRUE, "implemented")
    [] op = "check_identity"        -> Op("sympy", FALSE, "implemented")
    [] op = "retired"               -> Op("python", TRUE, "disabled")]

MCAliases == [a \in {"solve"} |-> "solve_equation"]

MCNames == DOMAIN MCRegistry \cup DOMAIN MCAliases \cup {"slove"}

(* Outcomes that differ in all that the dispatcher looks at.               *)
Found(backend, method, certainty, override, size) ==
  [backend |-> backend, method |-> method, kind |-> "verification",
   certainty |-> certainty, override |-> override, size |-> size]

MCOutcomes == [op \in DOMAIN MCRegistry |->
  {Found("none", "numeric_sampling", "disproved", FALSE, "fits"),
   Found("none", "counterexample", "disproved", FALSE, "long_text"),
   Found("none", "none", "unknown", FALSE, "fits"),
   Found("none", "none", "unknown", TRUE, "long_structure")}]
=============================================================================
