----------------------------- MODULE FiniteCheck ------------------------------
(***************************************************************************)
(* The verdicts by finite exhaustion: finite_enumeration of discrete.py    *)
(* and finite_quantifier_check of logic.py, on top of the constraints that *)
(* normalize accepted. The predicate is any truth value for any assignment *)
(* and is asked once per combination, in no particular order.              *)
(***************************************************************************)
EXTENDS DomainParser

CONSTANTS
  NameLists,   \* the lists of variables a client sends, which may repeat one
  MaxSpace     \* max_samples * 100: what finite_enumeration is ready to do

ASSUME CheckAssumption ==
  /\ NameLists \subseteq Seq(Vars) \ {<<>>}
  /\ MaxSpace \in Nat

VARIABLES
  step,      \* "parse", "loop" or "done"
  op,        \* "enumerate", or the quantifier "forall" or "exists"
  names,     \* the list of variables
  todo,      \* the combinations not yet tried
  yes, no,   \* the assignments found to satisfy the predicate, and not to
  total,     \* finite_enumeration's product of the domain sizes
  tried,     \* how many combinations were tried
  hits,      \* finite_enumeration's count of satisfying combinations
  verdict,   \* "none", "proved", "disproved", or the code of an error
  shown      \* the witness or counterexample reported, if there is one

checkVars == <<step, op, names, todo, yes, no, total, tried, hits, verdict, shown>>
vars == <<parserVars, checkVars>>

(* Mutation of Truncate: the floor, as of a division by //.                *)
Truncate_Floor(n) == n \div 4

(* int() of a rational cuts towards zero.                                  *)
Truncate(n) == IF n >= 0 THEN n \div 4 ELSE -((-n) \div 4)

HasFiniteDomain(v) ==
  LET c == constraint[v]
  IN  \/ c.kind = "finite"
      \/ (c.kind = "integer" /\ c.interval.lower # {} /\ c.interval.upper # {})
      \/ (op # "enumerate" /\ c.kind = "boolean")

(* Mutation of WholeNumbers: range without the + 1.                        *)
WholeNumbers_HalfOpen(l, u) ==
  [i \in 1 .. (Truncate(u) - Truncate(l)) |-> 4 * (Truncate(l) + i - 1)]

(* range(int(lower), int(upper) + 1), the integers as numbers of the model.*)
WholeNumbers(l, u) ==
  [i \in 1 .. (Truncate(u) - Truncate(l) + 1) |-> 4 * (Truncate(l) + i - 1)]

(* _finite_domains, for a variable that has one. The open ends of an       *)
(* interval and the predicates play no part.                               *)
FiniteDomain(v) ==
  LET c == constraint[v]
  IN  CASE c.kind = "finite"  -> c.values
        [] c.kind = "boolean" -> <<0, 4>>
        [] OTHER -> WholeNumbers(CHOOSE l \in c.interval.lower : TRUE,
                                 CHOOSE u \in c.interval.upper : TRUE)

Positions == UNION {DOMAIN FiniteDomain(v) : v \in Range(names)}

(* itertools.product: a choice for each position of the list of names.     *)
Combinations ==
  {f \in [DOMAIN names -> Positions] :
     \A i \in DOMAIN names : f[i] \in DOMAIN FiniteDomain(names[i])}

(* The dict subs keeps the last value given for a name.                    *)
LastOf(v) == CHOOSE i \in DOMAIN names : names[i] = v /\ \A j \in DOMAIN names : names[j] = v => j <= i
Assignment(combination) == [v \in Range(names) |-> FiniteDomain(v)[combination[LastOf(v)]]]

(* The product over the dict of domains, which has one entry for a name.   *)
Space ==
  Cardinality({f \in [Range(names) -> Positions] :
                 \A v \in Range(names) : f[v] \in DOMAIN FiniteDomain(v)})

(* The quantifiers make a set of the names first (_vars of logic.py).      *)
Init ==
  /\ ParserInit
  /\ step = "parse" /\ op \in {"enumerate", "forall", "exists"}
  /\ names \in NameLists
  /\ op = "enumerate" \/ IsInjective(names)
  /\ todo = {} /\ yes = {} /\ no = {} /\ total = 0 /\ tried = 0 /\ hits = 0
  /\ verdict = "none" /\ shown = {}

Parse ==
  /\ ParserNext
  /\ UNCHANGED checkVars

Finish(v, witness) == step' = "done" /\ verdict' = v /\ shown' = witness

BeginLoop ==
  /\ step = "parse" /\ stage = "accepted"
  /\ \A v \in Range(names) : HasFiniteDomain(v)
  /\ op = "enumerate" => Space <= MaxSpace
  /\ step' = "loop"
  /\ todo' = Combinations
  /\ total' = Space
  /\ UNCHANGED <<parserVars, op, names, yes, no, tried, hits, verdict, shown>>

(* The predicate does not parse, a variable has no finite domain, the      *)
(* space is too large.                                                     *)
CannotLoop ==
  /\ step = "parse" /\ stage = "accepted"
  /\ \/ Finish("PARSE_REJECTED", {})
     \/ /\ \E v \in Range(names) : ~HasFiniteDomain(v)
        /\ Finish("DOMAIN_UNSUPPORTED", {})
     \/ /\ \A v \in Range(names) : HasFiniteDomain(v)
        /\ op = "enumerate" /\ Space > MaxSpace
        /\ Finish("BACKEND_INTERNAL_ERROR", {})
  /\ UNCHANGED <<parserVars, op, names, todo, yes, no, total, tried, hits>>

(* Mutation of Decides: the loop of a forall waits for a success, too.     *)
Decides_OnAnyHit(truth) == op # "enumerate" /\ truth

(* A quantifier is decided by its first counterexample or witness.         *)
Decides(truth) == (op = "forall" /\ ~truth) \/ (op = "exists" /\ truth)

Try(combination, truth) ==
  LET at == Assignment(combination)
  IN  /\ step = "loop" /\ combination \in todo
      /\ IF truth THEN at \notin no ELSE at \notin yes
      /\ todo' = todo \ {combination}
      /\ tried' = tried + 1
      /\ hits' = IF truth THEN hits + 1 ELSE hits
      /\ yes' = IF truth THEN yes \cup {at} ELSE yes
      /\ no' = IF truth THEN no ELSE no \cup {at}
      /\ IF Decides(truth)
         THEN Finish(IF op = "forall" THEN "disproved" ELSE "proved", {at})
         ELSE UNCHANGED <<step, verdict, shown>>
      /\ UNCHANGED <<parserVars, op, names, total>>

(* The predicate has no truth value at a point: bool() raises.             *)
PredicateFails ==
  /\ step = "loop" /\ todo # {}
  /\ Finish("BACKEND_INTERNAL_ERROR", {})
  /\ UNCHANGED <<parserVars, op, names, todo, yes, no, total, tried, hits>>

(* An enumeration is always "proved": its result is the counts.            *)
EndLoop ==
  /\ step = "loop" /\ todo = {}
  /\ Finish(IF op = "exists" THEN "disproved" ELSE "proved", {})
  /\ UNCHANGED <<parserVars, op, names, todo, yes, no, total, tried, hits>>

(* The request is over: nothing more happens.                              *)
Over ==
  /\ step = "done" \/ stage \in {"rejected", "malformed"}
  /\ UNCHANGED vars

CheckStep ==
  \/ BeginLoop \/ CannotLoop
  \/ \E combination \in todo, truth \in BOOLEAN : Try(combination, truth)
  \/ PredicateFails \/ EndLoop

Next == Parse \/ CheckStep \/ Over

Spec == Init /\ [][Next]_vars

-----------------------------------------------------------------------------
(* Properties                                                              *)

CheckTypeOK ==
  /\ ParserTypeOK
  /\ step \in {"parse", "loop", "done"} /\ op \in {"enumerate", "forall", "exists"}
  /\ names \in NameLists
  /\ total \in Nat /\ tried \in Nat /\ hits \in 0 .. tried
  /\ verdict \in {"none", "proved", "disproved", "PARSE_REJECTED",
                 "DOMAIN_UNSUPPORTED", "BACKEND_INTERNAL_ERROR"}

(* all_satisfy of an enumeration's result.                                 *)
AllSatisfy == hits = total

(* at is an assignment of whole numbers, or of listed values, that agrees  *)
(* with all the client said of each variable.                              *)
IsDeclared(at) == \A v \in Range(names) : Declared(v, at[v])

(* An exhaustive verdict leaves no point of the declared domain out: a     *)
(* forall is proved, or an exists refuted, only when the predicate was     *)
(* evaluated with that result at every declared assignment, even though    *)
(* the bounds are rational, may be open, and may be declared repeatedly.   *)
ExhaustionIsSound ==
  \A at \in [Range(names) -> Universe] :
    IsDeclared(at) =>
      /\ (op = "forall" /\ verdict = "proved"    => at \in yes)
      /\ (op = "exists" /\ verdict = "disproved" => at \in no)

(* The counts of an enumeration are those of the declared domain and more, *)
(* when no name is repeated: none of it is left out, total is the number   *)
(* of evaluations, and all_satisfy is told exactly when no point failed.   *)
CountsAreExact ==
  (op = "enumerate" /\ verdict = "proved" /\ IsInjective(names)) =>
    /\ \A at \in [Range(names) -> Universe] : IsDeclared(at) => at \in yes \cup no
    /\ total = tried
    /\ AllSatisfy <=> no = {}

(* The certificate of discrete.py:110, "enumerated {total} assignments     *)
(* exhaustively", and the flag all_satisfy in a result that is certain:    *)
(* all_satisfy means that no assignment failed.                            *)
AllSatisfyMeansAll ==
  op = "enumerate" /\ verdict = "proved" /\ AllSatisfy => no = {}

(* README.md:358 on "disproved": a strict counterexample or witness was    *)
(* found. Here: the assignment shown is one of the declared domain.        *)
ShownIsDeclared == \A at \in shown : IsDeclared(at)

(* The bounds that int() does not move outwards, and that range, which     *)
(* includes both ends, may include.                                        *)
Inward(i) ==
  /\ \A l \in i.lower : IF Whole(l) THEN ~i.lowerOpen ELSE l < 0
  /\ \A u \in i.upper : IF Whole(u) THEN ~i.upperOpen ELSE u > 0

(* Where that line does hold: no predicate was assumed, no variable was    *)
(* declared twice, and the bounds are whole and closed, or are fractions   *)
(* with zero between them. Then every witness and counterexample is one of *)
(* the declared domain.                                                    *)
InwardShownIsDeclared ==
  (\A v \in Range(names) :
     /\ assumed[v] = {} /\ Cardinality(declared[v]) <= 1
     /\ \A spec \in declared[v] : Inward(spec.interval))
  => ShownIsDeclared
=============================================================================
