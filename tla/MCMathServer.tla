----------------------------- MODULE MCMathServer -----------------------------
(***************************************************************************)
(* The server with two operations, one for each route, and two outcomes.   *)
(***************************************************************************)
EXTENDS MathServer

MCRegistry == [op \in {"solve_equation", "check_identity"} |->
  [backend |-> "sympy", sub |-> op = "solve_equation", state |-> "implemented"]]

MCAliases == [a \in {"solve"} |-> "solve_equation"]

MCNames == DOMAIN MCRegistry

MCOutcomes == [op \in DOMAIN MCRegistry |->
  {[backend |-> "none", method |-> "symbolic", kind |-> "value", certainty |-> "exact",
    override |-> FALSE, size |-> "fits"]}]

(* The errors that only handlers raise are alike to the server: one will   *)
(* do, beside the one that the runner raises, too.                         *)
OneHandlerError ==
  \A r \in Request : result[r].code \in HandlerErrors =>
    result[r].code \in {"PARSE_REJECTED", "RESOURCE_LIMIT_EXCEEDED", "BACKEND_INTERNAL_ERROR"}
=============================================================================
