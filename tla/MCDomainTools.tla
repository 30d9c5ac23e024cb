---------------------------- MODULE MCDomainTools -----------------------------
(***************************************************************************)
(* What reads a request for the handlers, each with its own instance: the  *)
(* tools that work on the constraints of normalize, which are finite       *)
(* exhaustion, sampling and SMT, and the making of terms. A request is     *)
(* followed through one of them; the variables of the others rest.         *)
(***************************************************************************)
EXTENDS FiniteCheck, Sampling, Smt, Terms

VARIABLE tool

MCBounds == {-6, 0, 8}
MCUniverse == {-8, -6, -4, 0, 2, 4, 8, 10}
(* A bound that is no float, and a whole number that is none either.       *)
MCFloat == [n \in MCUniverse |-> IF n \in {-6, -4} THEN -8 ELSE IF n = 10 THEN 8 ELSE n]
OneOrTwo == {<<"x">>, <<"x", "y">>}
Listed == {<<"x">>, <<"x", "x">>, <<"x", "y">>}
Counts == {1, 3}

toolVars == <<vars, sampleVars, smtVars, termVars, tool>>

NoCheck == op = "enumerate" /\ names = <<"x">>
NoSampling == sampled = <<"x">> /\ samples = 1
NoSmt == query = "satisfiability" /\ \A v \in Vars : sorts[v] = "none"
NoTerms == given = {}

ToolInit ==
  /\ Init /\ SampleInit /\ SmtInit /\ TermsInit
  /\ tool \in {"finite", "sampling", "smt", "terms"}
  /\ tool # "finite" => NoCheck
  /\ tool # "sampling" => NoSampling
  /\ tool # "smt" => NoSmt
  /\ tool # "terms" => NoTerms

Reading ==
  tool # "terms" /\ ParserNext /\ UNCHANGED <<checkVars, sampleVars, smtVars, termVars>>

ToolNext ==
  /\ \/ Reading
     \/ tool = "finite" /\ (CheckStep \/ Over) /\ UNCHANGED <<sampleVars, smtVars, termVars>>
     \/ tool = "sampling" /\ (SampleStep \/ SampleOver) /\ UNCHANGED <<checkVars, smtVars, termVars>>
     \/ tool = "smt" /\ (SmtStep \/ SmtOver) /\ UNCHANGED <<checkVars, sampleVars, termVars>>
     \/ tool = "terms" /\ TermsNext /\ UNCHANGED <<vars, sampleVars, smtVars>>
  /\ UNCHANGED tool

ToolSpec == ToolInit /\ [][ToolNext]_toolVars

(* The requests that are explored: a second variable is declared when it   *)
(* is used, with domains that are plain; the tools that pay no heed to     *)
(* assumptions are sent none.                                              *)
Plain(spec) ==
  /\ ~spec.interval.lowerOpen /\ ~spec.interval.upperOpen
  /\ {-6} \notin {spec.interval.lower, spec.interval.upper}
  /\ \A i \in DOMAIN spec.values : spec.values[i] >= 0

Explored ==
  /\ declared["y"] # {} \/ Len(names) = 2 =>
       /\ tool = "finite" /\ Len(names) = 2
       /\ \A v \in Vars : Cardinality(declared[v]) <= 1 /\ assumed[v] = {}
       /\ \A v \in Vars : \A spec \in declared[v] : Plain(spec)
  /\ assumed["y"] = {}
  /\ Cardinality(declared["x"]) = 2 => assumed["x"] = {} /\ op # "exists"
  /\ tool # "finite" => assumed["x"] = {} /\ count <= 1
  /\ tool = "sampling" => constraint["x"].kind # "finite"
  /\ Cardinality(Range(sampled)) = 2 => samples = 1
  /\ sorts["y"] \in {"none", "Bool"}
=============================================================================
