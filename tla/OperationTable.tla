---------------------------- MODULE OperationTable ----------------------------
(***************************************************************************)
(* The specifications that _build_specs of operation_registry.py registers:*)
(* for each operation its public tool, its backend, whether it runs in a   *)
(* worker, the methods its verdicts may rest on, the strongest certainty   *)
(* it may report, the kinds of its results and whether it draws at random. *)
(***************************************************************************)
EXTENDS TLC

(* _op: an operation of a tool with the defaults, and what may override    *)
(* them.                                                                   *)
Computing(tool, ops, kinds) ==
  [op \in ops |-> [tool |-> tool, backend |-> "sympy", sub |-> FALSE, modes |-> {},
                   max |-> "exact", kinds |-> kinds, random |-> FALSE]]

On(backend, specs) == [op \in DOMAIN specs |-> [specs[op] EXCEPT !.backend = backend]]
Sandboxed(specs) == [op \in DOMAIN specs |-> [specs[op] EXCEPT !.sub = TRUE]]
AtMost(certainty, specs) == [op \in DOMAIN specs |-> [specs[op] EXCEPT !.max = certainty]]
By(modes, specs) == [op \in DOMAIN specs |-> [specs[op] EXCEPT !.modes = modes]]
Drawing(specs) == [op \in DOMAIN specs |-> [specs[op] EXCEPT !.random = TRUE]]

Deciding(modes, specs) == By(modes, AtMost("proved", specs))

AlgebraSpecs ==
  Computing("algebra", {"simplify_expression", "expand_expression", "factor_expression",
                        "cancel_expression", "together_expression"}, {"value"})
  @@ Sandboxed(Computing("algebra", {"solve_equation", "solve_system", "polynomial_roots"},
                         {"solution_set"}))
  @@ Sandboxed(Computing("algebra", {"groebner_basis"}, {"object"}))

CalculusSpecs ==
  Computing("calculus", {"differentiate"}, {"value"})
  @@ Computing("calculus", {"series_expand"}, {"value", "object"})
  @@ Sandboxed(Computing("calculus", {"integrate"}, {"value", "solution_set"}))
  @@ Sandboxed(Computing("calculus", {"limit_expression"}, {"value"}))
  @@ On("mpmath", Computing("calculus", {"numeric_evaluate"}, {"value"}))
  @@ AtMost("evidence", On("scipy", Sandboxed(
       Computing("calculus", {"numeric_optimize"}, {"value", "witness"})
       @@ Computing("calculus", {"constrained_optimize"}, {"object", "witness"}))))

(* The sampled operations of a tool.                                       *)
Searching(tool, ops) ==
  On("mpmath", Drawing(Sandboxed(By({"counterexample"}, AtMost("disproved",
    Computing(tool, ops, {"verification", "witness"}))))))

VerificationSpecs ==
  Deciding({"symbolic", "counterexample"},
    Computing("verification", {"check_identity"}, {"verification"})
    @@ Computing("verification", {"check_identity_constrained"}, {"verification", "witness"}))
  @@ Searching("verification", {"check_inequality_sampled", "search_counterexample"})

Z3Specs ==
  On("z3", Sandboxed(
    Deciding({"smt"}, Computing("z3", {"z3_satisfiability"}, {"witness", "verification"}))
    @@ Deciding({"smt", "counterexample"},
         Computing("z3", {"z3_find_counterexample"}, {"witness", "verification"}))))

MatrixSpecs ==
  Computing("matrix", {"det", "rank", "trace", "charpoly"}, {"value"})
  @@ Computing("matrix", {"transpose", "inverse", "rref", "eigenvals"}, {"object"})
  @@ Sandboxed(Computing("matrix", {"solve_linear_system"}, {"solution_set"}))
  @@ On("numpy", Sandboxed(Computing("matrix", {"matrix_decomposition_numeric"}, {"object"})))

DiscreteSpecs ==
  On("python", Computing("discrete", {"combinatorics_count"}, {"value"}))
  @@ On("python", Sandboxed(Deciding({"finite_exhaustive"},
       Computing("discrete", {"finite_enumeration"}, {"verification", "witness"}))))
  @@ Sandboxed(Computing("discrete", {"solve_recurrence"}, {"value"}))

GraphSpecs ==
  On("networkx",
    Computing("graph", {"is_connected", "has_cycle"}, {"verification"})
    @@ Computing("graph", {"connected_components", "maximum_matching",
                           "minimum_spanning_tree", "topological_sort"}, {"object"})
    @@ Computing("graph", {"shortest_path"}, {"object", "solution_set"}))

ProbabilitySpecs ==
  Computing("probability", {"event_probability"}, {"value", "verification"})
  @@ Computing("probability", {"bayes_update", "distribution_moments",
                               "probability_distribution", "random_variable_transform"}, {"value"})
  @@ On("numpy", Computing("probability", {"markov_chain_analyze"}, {"object"}))
  @@ On("numpy", Sandboxed(Drawing(AtMost("evidence",
       Computing("probability", {"probability_simulation"}, {"value", "verification"})))))

SetSpecs ==
  On("python",
    Computing("set", {"set_operations", "cartesian_product"}, {"object"})
    @@ Computing("set", {"set_membership"}, {"verification"})
    @@ Sandboxed(Computing("set", {"power_set"}, {"object"}))
    @@ Deciding({"finite_exhaustive"}, Computing("set", {"set_relation_check"}, {"verification"})))
  @@ Deciding({"symbolic", "finite_exhaustive"},
       Computing("set", {"set_identity_check"}, {"verification"}))
  @@ Computing("set", {"interval_compute"}, {"object", "solution_set"})

GeometrySpecs ==
  Computing("geometry", {"geometry_distance"}, {"value"})
  @@ Computing("geometry", {"geometry_intersection"}, {"solution_set", "object"})
  @@ Computing("geometry", {"line_analyze", "circle_analyze", "polygon_analyze",
                            "conic_analyze"}, {"object"})
  @@ Computing("geometry", {"coordinate_transform"}, {"value", "object"})

TrigonometrySpecs ==
  Computing("trigonometry", {"trig_simplify", "trig_expand", "trig_reduce",
                             "trig_rewrite"}, {"value"})
  @@ Sandboxed(Computing("trigonometry", {"solve_trig_equation"}, {"solution_set"}))
  @@ Deciding({"symbolic", "counterexample"},
       Computing("trigonometry", {"trig_identity_check"}, {"verification"}))

NumberTheorySpecs ==
  Computing("number_theory", {"gcd_lcm_bezout"}, {"object"})
  @@ Computing("number_theory", {"prime_analyze"}, {"value", "object"})
  @@ Computing("number_theory", {"modular_arithmetic", "chinese_remainder",
                                 "totient_compute"}, {"value"})
  @@ Computing("number_theory", {"congruence_solve"}, {"solution_set"})
  @@ Computing("number_theory", {"multiplicative_order", "quadratic_residue_check"},
               {"value", "verification"})

LogicSpecs ==
  Computing("logic", {"boolean_simplify", "normal_form_convert"}, {"value"})
  @@ Deciding({"symbolic", "finite_exhaustive"},
       Computing("logic", {"logic_equivalence_check"}, {"verification"}))
  @@ Sandboxed(Deciding({"finite_exhaustive"},
       Computing("logic", {"truth_table"}, {"object"})
       @@ Computing("logic", {"logic_satisfiability"}, {"witness", "verification"})
       @@ On("python", Computing("logic", {"finite_quantifier_check"},
                                 {"verification", "witness"}))))

OdeSpecs ==
  Deciding({"symbolic"}, Computing("ode", {"ode_verify_solution"}, {"verification"}))
  @@ Sandboxed(
       Computing("ode", {"ode_solve_symbolic"}, {"solution_set"})
       @@ Computing("ode", {"ode_classify"}, {"object"})
       @@ Computing("ode", {"ode_initial_value_solve"}, {"value", "solution_set"})
       @@ AtMost("evidence", On("scipy", Computing("ode", {"ode_solve_numeric"}, {"object"}))))

ComplexSpecs ==
  Computing("complex", {"complex_simplify", "complex_from_polar"}, {"value"})
  @@ Computing("complex", {"complex_mod_arg", "complex_to_polar",
                           "complex_roots_of_unity"}, {"object"})
  @@ Sandboxed(Computing("complex", {"complex_equation_solve"}, {"solution_set"}))

InequalitySpecs ==
  Sandboxed(By({"symbolic"}, Computing("inequality", {"inequality_domain_solve"}, {"solution_set"})))
  @@ Sandboxed(Computing("inequality", {"inequality_reduce"}, {"solution_set"}))
  @@ Deciding({"symbolic"},
       Computing("inequality", {"inequality_check_symbolic"}, {"verification"}))
  @@ Searching("inequality", {"inequality_counterexample_search", "inequality_sample"})

REGISTRY ==
  AlgebraSpecs @@ CalculusSpecs @@ VerificationSpecs @@ Z3Specs @@ MatrixSpecs
  @@ DiscreteSpecs @@ GraphSpecs @@ ProbabilitySpecs @@ SetSpecs @@ GeometrySpecs
  @@ TrigonometrySpecs @@ NumberTheorySpecs @@ LogicSpecs @@ OdeSpecs @@ ComplexSpecs
  @@ InequalitySpecs

(* _ALIASES. No two tools share an operation, so the model names one       *)
(* without its tool; an alias is written with the tool it belongs to.      *)
ALIASES ==
  "algebra.simplify" :> "simplify_expression"
  @@ "algebra.expand" :> "expand_expression"
  @@ "algebra.factor" :> "factor_expression"
  @@ "algebra.cancel" :> "cancel_expression"
  @@ "algebra.together" :> "together_expression"
  @@ "algebra.solve" :> "solve_equation"
  @@ "algebra.roots" :> "polynomial_roots"
  @@ "algebra.groebner" :> "groebner_basis"
  @@ "trigonometry.simplify" :> "trig_simplify"
  @@ "trigonometry.expand" :> "trig_expand"
  @@ "trigonometry.reduce" :> "trig_reduce"
  @@ "trigonometry.rewrite" :> "trig_rewrite"
  @@ "trigonometry.solve" :> "solve_trig_equation"
  @@ "trigonometry.identity_check" :> "trig_identity_check"
  @@ "trigonometry.check_identity" :> "trig_identity_check"
=============================================================================
