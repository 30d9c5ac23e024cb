------------------------------- MODULE Handlers -------------------------------
(***************************************************************************)
(* The handlers of the tool modules as what they can come to: a handler    *)
(* returns one of a few outcomes, which of them depending on its payload   *)
(* and on the library it calls, or raises an error.                        *)
(***************************************************************************)
EXTENDS TLC

(* Outcomes of the given method and kinds; the backend of value_result and *)
(* verification_result is sympy unless one is named.                       *)
Comes(certainty, method, kinds) ==
  {[certainty |-> certainty, method |-> method, kind |-> k, backend |-> "sympy"] : k \in kinds}

Exactly(method, kinds) == Comes("exact", method, kinds)

From(backend, outcomes) == {[o EXCEPT !.backend = backend] : o \in outcomes}

Undecided == Comes("unknown", "none", {"none"})
Exhausted(certainty, kinds) == From("python", Comes(certainty, "finite_exhaustive", kinds))
Sampled(backend) == From(backend, Comes("evidence", "numeric_sampling", {"verification"}))
Counterexample(backend) == From(backend, Comes("disproved", "counterexample", {"witness"}))
Shown == Comes("proved", "symbolic", {"verification"})
Refuted == Comes("disproved", "symbolic", {"verification"})

All(ops, outcomes) == [op \in ops |-> outcomes]

AlgebraHandlers ==
  All({"simplify_expression", "expand_expression", "factor_expression",
       "cancel_expression", "together_expression"}, Exactly("backend", {"value"}))
  @@ All({"solve_equation", "solve_system", "polynomial_roots"}, Exactly("symbolic", {"solution_set"}))
  @@ All({"groebner_basis"}, Exactly("symbolic", {"object"}))

CalculusHandlers ==
  All({"differentiate", "integrate", "limit_expression", "series_expand"}, Exactly("symbolic", {"value"}))
  @@ All({"numeric_evaluate"}, From("mpmath", Exactly("backend", {"value"})))

Optimum(kind) == From("scipy", Comes("evidence", "numeric_optimization", {kind}))

(* Mutation of OptimizeHandlers: what Lagrange's conditions give is exact. *)
OptimizeHandlers_LagrangeIsExact ==
  All({"numeric_optimize"}, Optimum("witness"))
  @@ All({"constrained_optimize"},
         Optimum("object") \cup Comes("exact", "symbolic", {"object"}) \cup Undecided)

(* A local optimum, or none that converged; Lagrange's points are not      *)
(* shown to be global, and there may be none.                              *)
OptimizeHandlers ==
  All({"numeric_optimize"}, Optimum("witness"))
  @@ All({"constrained_optimize"},
         Optimum("object") \cup Comes("evidence", "symbolic", {"object"}) \cup Undecided)

Identity == Shown \cup Counterexample("sympy") \cup Sampled("sympy")

VerificationHandlers ==
  All({"check_identity", "check_identity_constrained", "trig_identity_check"}, Identity)

(* _sampling_outcome: a point that violates the statement, or how many     *)
(* points did not.                                                         *)
SearchHandlers ==
  All({"check_inequality_sampled", "search_counterexample",
       "inequality_counterexample_search", "inequality_sample"},
      Counterexample("mpmath") \cup Sampled("mpmath"))

(* Mutation of SmtHandlers: unknown is taken for unsat.                    *)
SmtHandlers_UnknownProves ==
  All({"z3_satisfiability"}, From("z3", Comes("proved", "none", {"none"})))
  @@ All({"z3_find_counterexample"}, From("z3", Comes("proved", "none", {"none"})))

Unsat == Comes("proved", "smt", {"verification"})

SmtHandlers ==
  All({"z3_satisfiability"},
      From("z3", Exactly("backend", {"witness"}) \cup Unsat \cup Undecided))
  @@ All({"z3_find_counterexample"},
         Counterexample("z3") \cup From("z3", Unsat \cup Undecided))

MatrixHandlers ==
  All({"det", "rank", "trace", "charpoly"}, Exactly("backend", {"value"}))
  @@ All({"transpose", "inverse", "rref", "eigenvals"}, Exactly("backend", {"object"}))
  @@ All({"solve_linear_system"}, Exactly("symbolic", {"solution_set"}))
  @@ All({"matrix_decomposition_numeric"}, From("numpy", Exactly("backend", {"object"})))

DiscreteHandlers ==
  All({"combinatorics_count"}, From("python", Exactly("backend", {"value"})))
  @@ All({"finite_enumeration"}, Exhausted("proved", {"verification"}))
  @@ All({"solve_recurrence"}, Exactly("symbolic", {"value"}) \cup Undecided)

GraphHandlers ==
  All({"is_connected", "has_cycle"}, From("networkx", Exactly("backend", {"verification"})))
  @@ All({"connected_components", "shortest_path", "topological_sort",
          "maximum_matching", "minimum_spanning_tree"},
         From("networkx", Exactly("backend", {"object"})))

ProbabilityHandlers ==
  All({"event_probability"}, Exactly("backend", {"value", "verification"}))
  @@ All({"bayes_update"}, Exactly("backend", {"value"}))
  @@ All({"distribution_moments", "probability_distribution", "random_variable_transform"},
         Exactly("symbolic", {"value"}))
  @@ All({"markov_chain_analyze"}, From("numpy", Exactly("backend", {"object"})))
  @@ All({"probability_simulation"}, From("numpy", Comes("evidence", "simulation", {"value"})))

SetHandlers ==
  All({"set_operations", "cartesian_product", "power_set"}, From("python", Exactly("backend", {"object"})))
  @@ All({"set_membership"}, From("python", Exactly("backend", {"verification"})))
  @@ All({"set_relation_check"}, Exhausted("proved", {"verification"}))
  @@ All({"set_identity_check"},
         Shown \cup Comes("disproved", "finite_exhaustive", {"verification"}))
  @@ All({"interval_compute"}, Exactly("backend", {"object"}))

GeometryHandlers ==
  All({"geometry_distance"}, Exactly("symbolic", {"value"}))
  @@ All({"geometry_intersection"}, Exactly("symbolic", {"solution_set"}))
  @@ All({"line_analyze", "circle_analyze", "polygon_analyze", "conic_analyze",
          "coordinate_transform"}, Exactly("symbolic", {"object"}))

TrigonometryHandlers ==
  All({"trig_simplify", "trig_expand", "trig_reduce", "trig_rewrite"}, Exactly("symbolic", {"value"}))
  @@ All({"solve_trig_equation"}, Exactly("symbolic", {"solution_set"}))

NumberTheoryHandlers ==
  All({"gcd_lcm_bezout"}, Exactly("backend", {"object"}))
  @@ All({"prime_analyze"}, Exactly("backend", {"verification", "value", "object"}))
  @@ All({"modular_arithmetic"}, Exactly("backend", {"value", "solution_set"}))
  @@ All({"congruence_solve"}, Exactly("backend", {"solution_set"}))
  @@ All({"chinese_remainder"}, Exactly("backend", {"value", "none"}))
  @@ All({"totient_compute"}, Exactly("backend", {"value"}))
  @@ All({"multiplicative_order", "quadratic_residue_check"},
         Exactly("backend", {"value", "verification"}))

LogicHandlers ==
  All({"boolean_simplify", "normal_form_convert"}, Exactly("symbolic", {"value"}))
  @@ All({"truth_table"}, Exactly("finite_exhaustive", {"object"}))
  @@ All({"logic_equivalence_check"},
         Shown \cup Comes("disproved", "finite_exhaustive", {"verification"}))
  @@ All({"logic_satisfiability"},
         Comes("proved", "finite_exhaustive", {"verification"})
           \cup Exactly("finite_exhaustive", {"witness"}))
  @@ All({"finite_quantifier_check"},
         UNION {Comes(c, "finite_exhaustive", {"witness", "verification"}) :
                  c \in {"proved", "disproved"}})

OdeHandlers ==
  All({"ode_verify_solution"}, Shown \cup Refuted)
  @@ All({"ode_solve_symbolic"}, Exactly("symbolic", {"solution_set"}))
  @@ All({"ode_classify"}, Exactly("symbolic", {"object"}))
  @@ All({"ode_initial_value_solve"}, Exactly("symbolic", {"value"}))
  @@ All({"ode_solve_numeric"}, From("scipy", Comes("evidence", "numeric_sampling", {"object"})))

ComplexHandlers ==
  All({"complex_simplify", "complex_from_polar"}, Exactly("symbolic", {"value"}))
  @@ All({"complex_mod_arg", "complex_to_polar", "complex_roots_of_unity"},
         Exactly("symbolic", {"object"}))
  @@ All({"complex_equation_solve"}, Exactly("symbolic", {"solution_set"}))

InequalityHandlers ==
  All({"inequality_domain_solve", "inequality_reduce"}, Exactly("symbolic", {"solution_set"}))
  @@ All({"inequality_check_symbolic"}, Shown \cup Refuted \cup Undecided)

(* HANDLERS: what the import of the tool modules leaves there.             *)
HANDLERS ==
  AlgebraHandlers @@ CalculusHandlers @@ OptimizeHandlers @@ VerificationHandlers
  @@ SearchHandlers @@ SmtHandlers @@ MatrixHandlers @@ DiscreteHandlers @@ GraphHandlers
  @@ ProbabilityHandlers @@ SetHandlers @@ GeometryHandlers @@ TrigonometryHandlers
  @@ NumberTheoryHandlers @@ LogicHandlers @@ OdeHandlers @@ ComplexHandlers @@ InequalityHandlers
=============================================================================
