------------------------------- MODULE MCCatalog -------------------------------
(***************************************************************************)
(* The catalog of the real registry, aliases and handlers. Every operation *)
(* of it is implemented today; four are put in the other states here.      *)
(***************************************************************************)
EXTENDS Catalog, OperationTable, Handlers

StateOf(op) ==
  CASE op = "groebner_basis" -> "disabled"
    [] op = "trig_rewrite"   -> "disabled"
    [] op = "charpoly"       -> "experimental"
    [] op = "rref"           -> "deprecated"
    [] OTHER                 -> "implemented"

MCRegistry == [op \in DOMAIN REGISTRY |->
  [backend |-> REGISTRY[op].backend, sub |-> REGISTRY[op].sub, state |-> StateOf(op)]]

MCTool == [op \in DOMAIN REGISTRY |-> REGISTRY[op].tool]
MCPromise == [op \in DOMAIN REGISTRY |->
  [max |-> REGISTRY[op].max, modes |-> REGISTRY[op].modes]]

(* A mistyped alias, a name of another tool, and a mistyped operation.     *)
MCMistaken ==
  [m \in {"algebra.slove", "trigonometry.cosine", "z3.check", "matrix.determinant"} |->
     CASE m = "algebra.slove"       -> "algebra"
       [] m = "trigonometry.cosine" -> "trigonometry"
       [] m = "z3.check"            -> "z3"
       [] m = "matrix.determinant"  -> "matrix"]

MCNames == DOMAIN REGISTRY \cup DOMAIN ALIASES \cup DOMAIN MCMistaken

MCOutcomes == [op \in DOMAIN HANDLERS |->
  {[backend |-> o.backend, method |-> o.method, kind |-> o.kind, certainty |-> o.certainty,
    override |-> FALSE, size |-> size] : o \in HANDLERS[op], size \in {"fits", "long_text"}}]
=============================================================================
