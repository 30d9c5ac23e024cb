----------------------------- MODULE DomainParser -----------------------------
(***************************************************************************)
(* normalize of domain_parser.py: the domains and then the assumptions of  *)
(* a request are merged, one after the other, into one constraint for each *)
(* variable, and a conflict ends the request before any handler runs.      *)
(*                                                                         *)
(* A number n of the model stands for the rational n / 4. A bound that may *)
(* be missing is a set of at most one number.                              *)
(***************************************************************************)
EXTENDS Integers, FiniteSets, Sequences, Functions

CONSTANTS
  Vars,          \* variable names
  Bounds,        \* numbers used as bounds and as members of finite domains
  Predicates,    \* the assumptions clients use
  Universe,      \* the numbers variables are given where a property judges
  MaxDomains,    \* bound on the DomainSpecs of a request
  MaxAssumptions,\* bound on its AssumptionSpecs
  MaxValues      \* bound on the values of a finite domain

Supported == {"positive", "negative", "nonnegative", "nonzero", "integer",
              "real", "rational", "complex", "prime", "finite"}

ASSUME ParserAssumption ==
  /\ Bounds \subseteq Universe /\ Universe \subseteq Int
  /\ Predicates \subseteq Supported
  /\ MaxDomains \in Nat /\ MaxAssumptions \in Nat /\ MaxValues \in Nat

VARIABLES
  stage,       \* "domains", "assumptions", "accepted", "rejected", "malformed"
  constraint,  \* constraint[v]: the VarConstraint built so far
  declared,    \* declared[v]: the DomainSpecs the client sent for v
  assumed,     \* assumed[v]: the predicates the client sent for v
  count,       \* how many DomainSpecs and AssumptionSpecs were read
  code         \* the error code of a rejected request

parserVars == <<stage, constraint, declared, assumed, count, code>>

(* rational and complex are treated as real is.                            *)
IntervalKinds == {"real", "integer"}
Kinds == IntervalKinds \cup {"finite", "boolean"}

Optional(S) == {{}} \cup {{s} : s \in S}

(* lowerOpen is the negation of lower_closed, so a fresh VarConstraint,    *)
(* which is closed, has FALSE there.                                       *)
Interval == [lower : Optional(Bounds), upper : Optional(Bounds),
             lowerOpen : BOOLEAN, upperOpen : BOOLEAN]
Everything == [lower |-> {}, upper |-> {}, lowerOpen |-> FALSE, upperOpen |-> FALSE]

(* The values of a finite domain are a list: one may be given twice.       *)
ValueLists == UNION {[1 .. n -> Bounds] : n \in 0 .. MaxValues}

DomainSpecs ==
  [kind : IntervalKinds, interval : Interval, values : {<<>>}]
    \cup [kind : {"finite"}, interval : {Everything}, values : ValueLists]
    \cup [kind : {"boolean"}, interval : {Everything}, values : {<<>>}]

NoConstraint == [kind |-> "none", interval |-> Everything, values |-> <<>>, predicates |-> {}]

Constraints == [kind : Kinds \cup {"none"}, interval : Interval,
                values : ValueLists, predicates : SUBSET Predicates]

ParserTypeOK ==
  /\ stage \in {"domains", "assumptions", "accepted", "rejected", "malformed"}
  /\ constraint \in [Vars -> Constraints]
  /\ declared \in [Vars -> SUBSET DomainSpecs]
  /\ assumed \in [Vars -> SUBSET Predicates]
  /\ count \in Nat
  /\ code \in {"none", "CONSTRAINT_CONFLICT", "ASSUMPTION_UNSUPPORTED", "PARSE_REJECTED"}

ParserInit ==
  /\ stage = "domains"
  /\ constraint = [v \in Vars |-> NoConstraint]
  /\ declared = [v \in Vars |-> {}]
  /\ assumed = [v \in Vars |-> {}]
  /\ count = 0
  /\ code = "none"

-----------------------------------------------------------------------------
(* What a specification means                                              *)

Within(n, i) ==
  /\ \A l \in i.lower : n > l \/ (n = l /\ ~i.lowerOpen)
  /\ \A u \in i.upper : n < u \/ (n = u /\ ~i.upperOpen)

Whole(n) == n % 4 = 0

Means(spec, n) ==
  CASE spec.kind = "real"    -> Within(n, spec.interval)
    [] spec.kind = "integer" -> Within(n, spec.interval) /\ Whole(n)
    [] spec.kind = "finite"  -> n \in Range(spec.values)
    [] OTHER                 -> n \in {0, 4}

SmallPrimes == {8, 12, 20, 28}

Satisfies(n, predicate) ==
  CASE predicate = "positive"    -> n > 0
    [] predicate = "negative"    -> n < 0
    [] predicate = "nonnegative" -> n >= 0
    [] predicate = "nonzero"     -> n # 0
    [] predicate = "integer"     -> Whole(n)
    [] predicate = "prime"       -> n \in SmallPrimes
    [] OTHER                     -> TRUE

(* The number n is what the client said of v.                              *)
Declared(v, n) ==
  /\ \A spec \in declared[v] : Means(spec, n)
  /\ \A p \in assumed[v] : Satisfies(n, p)

-----------------------------------------------------------------------------
(* normalize                                                               *)

Reject(c) == stage' = "rejected" /\ code' = c

(* Mutation of IntervalConflict: open endpoints are forgotten.             *)
IntervalConflict_ClosedOnly(i) == \E l \in i.lower, u \in i.upper : l > u

(* _check_interval. Bounds are rationals here, of which nsimplify and the  *)
(* comparisons are sure.                                                   *)
IntervalConflict(i) ==
  \E l \in i.lower, u \in i.upper :
    l > u \/ (l = u /\ (i.lowerOpen \/ i.upperOpen))

(* Mutation of Merge: the lower bound is read from the wrong field.        *)
Merge_WrongField(i, new) ==
  [lower     |-> IF new.lower = {} THEN i.lower ELSE new.upper,
   upper     |-> IF new.upper = {} THEN i.upper ELSE new.upper,
   lowerOpen |-> new.lowerOpen, upperOpen |-> new.upperOpen]

(* A bound that is given replaces the one there was; the closedness is     *)
(* always replaced.                                                        *)
Merge(i, new) ==
  [lower     |-> IF new.lower = {} THEN i.lower ELSE new.lower,
   upper     |-> IF new.upper = {} THEN i.upper ELSE new.upper,
   lowerOpen |-> new.lowerOpen, upperOpen |-> new.upperOpen]

(* Each spec overrides the kind-specific part of what was there.           *)
Merged(c, spec) ==
  CASE spec.kind = "finite" -> [c EXCEPT !.kind = "finite", !.values = spec.values]
    [] spec.kind = "boolean" -> [c EXCEPT !.kind = "boolean"]
    [] OTHER -> [c EXCEPT !.kind = spec.kind, !.interval = Merge(@, spec.interval)]

(* The kinds clash, a finite domain lists nothing, an interval is empty.   *)
DomainConflict(c, spec) ==
  \/ c.kind \notin {"none", spec.kind}
  \/ /\ spec.kind = "finite"
     /\ spec.values = <<>>
  \/ /\ spec.kind \in IntervalKinds
     /\ IntervalConflict(Merge(c.interval, spec.interval))

AddDomain(v, spec) ==
  /\ stage = "domains" /\ count < MaxDomains
  /\ count' = count + 1
  /\ declared' = [declared EXCEPT ![v] = @ \cup {spec}]
  /\ IF DomainConflict(constraint[v], spec)
     THEN Reject("CONSTRAINT_CONFLICT") /\ UNCHANGED constraint
     ELSE /\ constraint' = [constraint EXCEPT ![v] = Merged(@, spec)]
          /\ UNCHANGED <<stage, code>>
  /\ UNCHANGED assumed

(* A bound or a value that does not parse, is no constant number, or is no *)
(* Boolean where one is asked for.                                         *)
MalformedDomain ==
  /\ stage = "domains" /\ count < MaxDomains
  /\ stage' = "malformed"
  /\ code' \in {"PARSE_REJECTED", "CONSTRAINT_CONFLICT"}
  /\ count' = count + 1
  /\ UNCHANGED <<constraint, declared, assumed>>

DomainsEnd ==
  /\ stage = "domains"
  /\ stage' = "assumptions" /\ count' = 0
  /\ UNCHANGED <<constraint, declared, assumed, code>>

(* The other pairs of _CONTRADICTIONS name predicates that are unsupported.*)
Contradictory(preds) ==
  {"positive", "negative"} \subseteq preds \/ {"negative", "nonnegative"} \subseteq preds

(* Mutation of PredicateVsDomain: an upper bound of zero is also taken to  *)
(* contradict nonnegative.                                                 *)
PredicateVsDomain_OffByOne(c) ==
  \/ ({"positive", "nonnegative"} \cap c.predicates # {} /\ \E u \in c.interval.upper : u <= 0)
  \/ ("negative" \in c.predicates /\ \E l \in c.interval.lower : l >= 0)

PredicateVsDomain(c) ==
  \/ ("positive" \in c.predicates /\ \E u \in c.interval.upper : u <= 0)
  \/ ("negative" \in c.predicates /\ \E l \in c.interval.lower : l >= 0)
  \/ ("nonnegative" \in c.predicates /\ \E u \in c.interval.upper : u < 0)

AddAssumption(v, preds) ==
  LET c == [constraint[v] EXCEPT !.predicates = @ \cup preds]
  IN  /\ stage = "assumptions" /\ count < MaxAssumptions
      /\ count' = count + 1
      /\ assumed' = [assumed EXCEPT ![v] = @ \cup preds]
      /\ IF Contradictory(c.predicates) \/ PredicateVsDomain(c)
         THEN Reject("CONSTRAINT_CONFLICT") /\ UNCHANGED constraint
         ELSE constraint' = [constraint EXCEPT ![v] = c] /\ UNCHANGED <<stage, code>>
      /\ UNCHANGED declared

UnsupportedAssumption ==
  /\ stage = "assumptions" /\ count < MaxAssumptions
  /\ Reject("ASSUMPTION_UNSUPPORTED")
  /\ count' = count + 1
  /\ UNCHANGED <<constraint, declared, assumed>>

AssumptionsEnd ==
  /\ stage = "assumptions"
  /\ stage' = "accepted"
  /\ UNCHANGED <<constraint, declared, assumed, count, code>>

ParserNext ==
  \/ \E v \in Vars, spec \in DomainSpecs : AddDomain(v, spec)
  \/ MalformedDomain \/ DomainsEnd
  \/ \E v \in Vars, preds \in SUBSET Predicates : AddAssumption(v, preds)
  \/ UnsupportedAssumption \/ AssumptionsEnd

ParserSpec == ParserInit /\ [][ParserNext]_parserVars

-----------------------------------------------------------------------------
(* Properties                                                              *)

(* The accepted constraint leaves nothing out of what was declared: a      *)
(* value that every DomainSpec and every predicate of a variable allows    *)
(* lies within the bounds that were kept, and among the values that were   *)
(* kept, however the specs of the variable overrode one another.           *)
DeclaredIsKept ==
  \A v \in Vars, n \in Universe :
    Declared(v, n) =>
      /\ \A l \in constraint[v].interval.lower : l <= n
      /\ \A u \in constraint[v].interval.upper : n <= u
      /\ constraint[v].kind = "finite" => n \in Range(constraint[v].values)
      /\ constraint[v].kind = "integer" => Whole(n)

(* Two specs of v differ in kind.                                          *)
DifferInKind(v) == \E s, t \in declared[v] : s.kind # t.kind

(* A spec of v opens an end that it has no bound for and that another spec *)
(* bounds: it opens the bound of the other.                                *)
OpensAnothersEnd(v) ==
  \E s, t \in declared[v] :
    \/ s.interval.lowerOpen /\ s.interval.lower = {} /\ t.interval.lower # {}
    \/ s.interval.upperOpen /\ s.interval.upper = {} /\ t.interval.upper # {}

(* A conflict has a cause, however many specs were sent: some variable is  *)
(* left with no value at all, or two of its specs differ in kind, or one   *)
(* of them opens an end that only another bounds. The last is the one way  *)
(* in which specs of one kind that share a value are refused: a lower      *)
(* bound of 3, then an upper bound of 3 with an open lower end, which      *)
(* closedness replaces whether or not the bound is given (line 139).       *)
ConflictsAreReal ==
  stage = "rejected" /\ code = "CONSTRAINT_CONFLICT" =>
    \E v \in Vars :
      \/ \A n \in Universe : ~Declared(v, n)
      \/ DifferInKind(v)
      \/ OpensAnothersEnd(v)

(* The numbers between those of the model: h stands for the rational h / 8.*)
Finer == {a + b + d : a \in Bounds \cup {0}, b \in Bounds \cup {0}, d \in -1 .. 1}
Inside(h, i) ==
  /\ \A l \in i.lower : h > 2 * l \/ (h = 2 * l /\ ~i.lowerOpen)
  /\ \A u \in i.upper : h < 2 * u \/ (h = 2 * u /\ ~i.upperOpen)

(* Bounds and signs that contradict one another never pass, as the         *)
(* docstring of _check_predicate_vs_domain (line 186) has it. A variable   *)
(* over the reals that was accepted, with assumptions about its sign only, *)
(* can take a value that lies between all its bounds, open or closed, and  *)
(* has every sign assumed, in whatever order the bounds and the signs were *)
(* given. The one exception is a nonnegative variable below an open bound  *)
(* of zero, which passes the comparison of line 206.                       *)
SignsLeaveAValue ==
  stage = "accepted" =>
    \A v \in Vars :
      LET c == constraint[v]
          i == c.interval
      IN  (/\ c.kind \in {"none", "real"}
           /\ c.predicates \subseteq {"positive", "negative", "nonnegative"}
           /\ ~("nonnegative" \in c.predicates /\ i.upper = {0} /\ i.upperOpen))
          => \E h \in Finer : Inside(h, i) /\ \A p \in c.predicates : Satisfies(h, p)
=============================================================================
