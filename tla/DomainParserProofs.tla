-------------------------- MODULE DomainParserProofs --------------------------
(***************************************************************************)
(* Proofs about DomainParser. What is kept of a variable always comes from *)
(* one of its DomainSpecs (Kept), although specs override one another; so  *)
(* no value that all of them allow is left out (DeclaredIsKept), and the   *)
(* two bounds of an empty interval were both declared, so that a conflict  *)
(* has a cause in what was sent (ConflictsAreReal).                        *)
(***************************************************************************)
EXTENDS DomainParser, FiniteSetTheorems, TLAPS

(* Each part of a variable's constraint is that of a spec declared for it. *)
KeptOf(c, specs) ==
  /\ \A l \in c.interval.lower : \E spec \in specs :
       spec.kind \in IntervalKinds /\ spec.interval.lower = {l}
  /\ \A u \in c.interval.upper : \E spec \in specs :
       spec.kind \in IntervalKinds /\ spec.interval.upper = {u}
  /\ c.kind \in Kinds => \E spec \in specs :
       spec.kind = c.kind /\ (c.kind = "finite" => spec.values = c.values)

Kept == \A v \in Vars : KeptOf(constraint[v], declared[v])

KeptTypeOK ==
  /\ constraint \in [Vars -> Constraints]
  /\ declared \in [Vars -> SUBSET DomainSpecs]
  /\ assumed \in [Vars -> SUBSET Predicates]

(* What an optional bound can be.                                          *)
LEMMA OptionalParts == ASSUME NEW S, NEW o \in Optional(S) PROVE o = {} \/ \E s \in S : o = {s}
  BY DEF Optional

(* A merged constraint is one, and its parts are those of the constraint   *)
(* there was or of the new spec.                                           *)
LEMMA MergedType ==
  ASSUME NEW c \in Constraints, NEW spec \in DomainSpecs
  PROVE  Merged(c, spec) \in Constraints
<1>1. CASE spec.kind = "finite"
  BY <1>1 DEF Merged, Constraints, DomainSpecs, Kinds, IntervalKinds
<1>2. CASE spec.kind = "boolean"
  BY <1>2 DEF Merged, Constraints, DomainSpecs, Kinds, IntervalKinds
<1>3. CASE spec.kind \in IntervalKinds
  <2>1. c.interval \in Interval /\ spec.interval \in Interval
    BY <1>3 DEF Constraints, DomainSpecs, IntervalKinds
  <2>2. Merge(c.interval, spec.interval) \in Interval
    BY <2>1 DEF Merge, Interval
  <2> QED
    BY <1>3, <2>2 DEF Merged, Constraints, Kinds, IntervalKinds
<1> QED
  BY <1>1, <1>2, <1>3 DEF DomainSpecs

(* Overriding keeps every part traceable to a spec.                        *)
LEMMA MergedKept ==
  ASSUME NEW c \in Constraints, NEW specs \in SUBSET DomainSpecs, NEW spec \in DomainSpecs,
         KeptOf(c, specs)
  PROVE  KeptOf(Merged(c, spec), specs \cup {spec})
<1> DEFINE m == Merged(c, spec)
<1>1. CASE spec.kind \notin IntervalKinds
  <2>1. m.interval = c.interval /\ m.kind = spec.kind
        /\ (m.kind = "finite" => m.values = spec.values)
    BY <1>1 DEF Merged, Constraints, DomainSpecs, IntervalKinds
  <2> QED
    BY <2>1 DEF KeptOf
<1>2. CASE spec.kind \in IntervalKinds
  <2>1. m.interval = Merge(c.interval, spec.interval) /\ m.kind = spec.kind /\ m.kind # "finite"
    BY <1>2 DEF Merged, Constraints, DomainSpecs, IntervalKinds
  <2>2. spec.interval \in Interval
    BY <1>2 DEF DomainSpecs, IntervalKinds
  <2>3. m.interval.lower = IF spec.interval.lower = {} THEN c.interval.lower
                                                     ELSE spec.interval.lower
    BY <2>1 DEF Merge
  <2>4. m.interval.upper = IF spec.interval.upper = {} THEN c.interval.upper
                                                     ELSE spec.interval.upper
    BY <2>1 DEF Merge
  <2>5. ASSUME NEW l \in m.interval.lower
        PROVE  \E s \in specs \cup {spec} : s.kind \in IntervalKinds /\ s.interval.lower = {l}
    <3>1. CASE spec.interval.lower = {}
      BY <2>3, <2>5, <3>1 DEF KeptOf
    <3>2. CASE spec.interval.lower # {}
      BY <1>2, <2>2, <2>3, <2>5, <3>2, OptionalParts DEF Interval
    <3> QED
      BY <3>1, <3>2
  <2>6. ASSUME NEW u \in m.interval.upper
        PROVE  \E s \in specs \cup {spec} : s.kind \in IntervalKinds /\ s.interval.upper = {u}
    <3>1. CASE spec.interval.upper = {}
      BY <2>4, <2>6, <3>1 DEF KeptOf
    <3>2. CASE spec.interval.upper # {}
      BY <1>2, <2>2, <2>4, <2>6, <3>2, OptionalParts DEF Interval
    <3> QED
      BY <3>1, <3>2
  <2>7. \E s \in specs \cup {spec} : s.kind = m.kind /\ (m.kind = "finite" => s.values = m.values)
    BY <2>1
  <2>8. KeptOf(m, specs \cup {spec})
    <3> HIDE DEF m
    <3> QED
      BY <2>5, <2>6, <2>7, Zenon DEF KeptOf
  <2> QED
    BY <2>8
<1> QED
  BY <1>1, <1>2

(* The specs declared for a variable only grow; what was kept still is.    *)
LEMMA KeptGrows ==
  ASSUME NEW c, NEW specs, NEW more, specs \subseteq more, KeptOf(c, specs)
  PROVE  KeptOf(c, more)
  BY DEF KeptOf

(* At the start nothing is kept and nothing was declared.                  *)
LEMMA KeptInit == ParserInit => KeptTypeOK /\ Kept
<1> SUFFICES ASSUME ParserInit PROVE KeptTypeOK /\ Kept
  OBVIOUS
<1>1. <<>> \in ValueLists
  <2>1. 0 \in 0 .. MaxValues /\ <<>> \in [1 .. 0 -> Bounds]
    BY ParserAssumption
  <2> QED
    BY <2>1 DEF ValueLists
<1>2. NoConstraint \in Constraints
  BY <1>1 DEF NoConstraint, Constraints, Interval, Everything, Optional
<1>3. KeptOf(NoConstraint, {})
  BY DEF KeptOf, NoConstraint, Everything, Kinds, IntervalKinds
<1> QED
  BY <1>2, <1>3 DEF ParserInit, KeptTypeOK, Kept

(* Every step of normalize keeps both.                                     *)
LEMMA KeptStep == KeptTypeOK /\ Kept /\ [ParserNext]_parserVars => KeptTypeOK' /\ Kept'
<1> SUFFICES ASSUME KeptTypeOK, Kept, [ParserNext]_parserVars PROVE KeptTypeOK' /\ Kept'
  OBVIOUS
<1> USE DEF KeptTypeOK
<1>1. ASSUME NEW v \in Vars, NEW spec \in DomainSpecs, AddDomain(v, spec)
      PROVE  KeptTypeOK' /\ Kept'
  <2>1. declared' = [declared EXCEPT ![v] = @ \cup {spec}] /\ assumed' = assumed
    BY <1>1 DEF AddDomain
  <2>2. declared' \in [Vars -> SUBSET DomainSpecs]
    BY <2>1
  <2>3. CASE constraint' = constraint
    <3>1. ASSUME NEW w \in Vars PROVE KeptOf(constraint'[w], declared'[w])
      BY <2>1, <2>3, KeptGrows DEF Kept
    <3> QED
      BY <2>1, <2>2, <2>3, <3>1 DEF Kept
  <2>4. CASE constraint' = [constraint EXCEPT ![v] = Merged(@, spec)]
    <3>1. constraint' \in [Vars -> Constraints]
      BY <2>4, MergedType
    <3>2. ASSUME NEW w \in Vars PROVE KeptOf(constraint'[w], declared'[w])
      <4>1. CASE w = v
        BY <2>1, <2>4, <4>1, MergedKept DEF Kept
      <4>2. CASE w # v
        BY <2>1, <2>4, <4>2 DEF Kept
      <4> QED
        BY <4>1, <4>2
    <3> QED
      BY <2>1, <2>2, <3>1, <3>2 DEF Kept
  <2> QED
    BY <1>1, <2>3, <2>4 DEF AddDomain
<1>2. ASSUME NEW v \in Vars, NEW preds \in SUBSET Predicates, AddAssumption(v, preds)
      PROVE  KeptTypeOK' /\ Kept'
  <2> DEFINE c == [constraint[v] EXCEPT !.predicates = @ \cup preds]
  <2>1. c \in Constraints
    BY DEF Constraints
  <2>2. KeptOf(c, declared[v])
    <3>1. c.interval = constraint[v].interval /\ c.kind = constraint[v].kind
          /\ c.values = constraint[v].values
      BY DEF Constraints
    <3>2. KeptOf(constraint[v], declared[v])
      BY DEF Kept
    <3> QED
      BY <3>1, <3>2 DEF KeptOf
  <2>3. constraint' = constraint \/ constraint' = [constraint EXCEPT ![v] = c]
    BY <1>2 DEF AddAssumption
  <2>4. declared' = declared /\ assumed' \in [Vars -> SUBSET Predicates]
    BY <1>2 DEF AddAssumption
  <2> HIDE DEF c
  <2> QED
    BY <2>1, <2>2, <2>3, <2>4 DEF Kept
<1>3. CASE MalformedDomain \/ DomainsEnd \/ UnsupportedAssumption \/ AssumptionsEnd
           \/ UNCHANGED parserVars
  BY <1>3 DEF MalformedDomain, DomainsEnd, UnsupportedAssumption, AssumptionsEnd, parserVars, Kept
<1> QED
  BY <1>1, <1>2, <1>3 DEF ParserNext

(* The other variables of normalize keep to their values, too.             *)
LEMMA ParserTypeInit == ParserInit => ParserTypeOK
  BY KeptInit DEF ParserInit, ParserTypeOK, KeptTypeOK

(* Every step of normalize keeps them there.                               *)
LEMMA ParserTypeStep ==
  KeptTypeOK /\ Kept /\ ParserTypeOK /\ [ParserNext]_parserVars => ParserTypeOK'
<1> SUFFICES ASSUME KeptTypeOK, Kept, ParserTypeOK, [ParserNext]_parserVars PROVE ParserTypeOK'
  OBVIOUS
<1>1. KeptTypeOK'
  BY KeptStep
<1> DEFINE Rest ==
      /\ stage \in {"domains", "assumptions", "accepted", "rejected", "malformed"}
      /\ count \in Nat
      /\ code \in {"none", "CONSTRAINT_CONFLICT", "ASSUMPTION_UNSUPPORTED", "PARSE_REJECTED"}
<1>2. Rest'
  <2>1. ASSUME NEW v \in Vars, NEW spec \in DomainSpecs, AddDomain(v, spec) PROVE Rest'
    BY <2>1 DEF AddDomain, Reject, ParserTypeOK
  <2>2. ASSUME NEW v \in Vars, NEW preds \in SUBSET Predicates, AddAssumption(v, preds)
        PROVE  Rest'
    BY <2>2 DEF AddAssumption, Reject, ParserTypeOK
  <2>3. CASE MalformedDomain \/ DomainsEnd \/ UnsupportedAssumption \/ AssumptionsEnd
             \/ UNCHANGED parserVars
    BY <2>3 DEF MalformedDomain, DomainsEnd, UnsupportedAssumption, AssumptionsEnd, Reject,
                parserVars, ParserTypeOK
  <2> QED
    BY <2>1, <2>2, <2>3 DEF ParserNext
<1> QED
  BY <1>1, <1>2 DEF KeptTypeOK, ParserTypeOK

(* What is traceable to the specs admits whatever all of them allow.       *)
LEMMA KeptAdmitsDeclared == KeptTypeOK /\ Kept => DeclaredIsKept
<1> SUFFICES ASSUME KeptTypeOK, Kept, NEW v \in Vars, NEW n \in Universe, Declared(v, n)
             PROVE  /\ \A l \in constraint[v].interval.lower : l <= n
                    /\ \A u \in constraint[v].interval.upper : n <= u
                    /\ constraint[v].kind = "finite" => n \in Range(constraint[v].values)
                    /\ constraint[v].kind = "integer" => Whole(n)
  BY DEF DeclaredIsKept
<1> DEFINE c == constraint[v]
<1>1. c \in Constraints /\ KeptOf(c, declared[v])
  BY DEF Kept, KeptTypeOK
<1>2. n \in Int /\ c.interval.lower \subseteq Int /\ c.interval.upper \subseteq Int
  <2>1. c.interval.lower \subseteq Bounds /\ c.interval.upper \subseteq Bounds
    BY <1>1, OptionalParts DEF Constraints, Interval
  <2> QED
    BY <2>1, ParserAssumption
<1>3. \A spec \in declared[v] : Means(spec, n)
  BY DEF Declared
<1>4. ASSUME NEW l \in c.interval.lower PROVE l <= n
  <2>1. PICK spec \in declared[v] : spec.kind \in IntervalKinds /\ spec.interval.lower = {l}
    BY <1>1 DEF KeptOf
  <2>2. Within(n, spec.interval)
    BY <1>3, <2>1 DEF Means, IntervalKinds
  <2> QED
    BY <1>2, <2>1, <2>2 DEF Within
<1>5. ASSUME NEW u \in c.interval.upper PROVE n <= u
  <2>1. PICK spec \in declared[v] : spec.kind \in IntervalKinds /\ spec.interval.upper = {u}
    BY <1>1 DEF KeptOf
  <2>2. Within(n, spec.interval)
    BY <1>3, <2>1 DEF Means, IntervalKinds
  <2> QED
    BY <1>2, <2>1, <2>2 DEF Within
<1>6. ASSUME c.kind = "finite" PROVE n \in Range(c.values)
  BY <1>1, <1>3, <1>6 DEF KeptOf, Means, Kinds
<1>7. ASSUME c.kind = "integer" PROVE Whole(n)
  BY <1>1, <1>3, <1>7 DEF KeptOf, Means, Kinds, IntervalKinds
<1> QED
  BY <1>4, <1>5, <1>6, <1>7

(* normalize never leaves a value out that the specs and predicates of a   *)
(* variable all allow, for any bounds, universe and number of specs.       *)
THEOREM NothingDeclaredIsLost == ParserSpec => []DeclaredIsKept
<1>1. ParserSpec => [](KeptTypeOK /\ Kept)
  BY KeptInit, KeptStep, PTL DEF ParserSpec
<1> QED
  BY <1>1, KeptAdmitsDeclared, PTL

(* Once its domains are accepted a request is read no further.             *)
LEMMA ParseOnlyBefore == stage = "accepted" => ~ParserNext
  BY DEF ParserNext, AddDomain, MalformedDomain, DomainsEnd, AddAssumption,
         UnsupportedAssumption, AssumptionsEnd

(* The kept bounds of an interval are in order, or it would be a conflict. *)
Ordered == \A v \in Vars : ~IntervalConflict(constraint[v].interval)

(* At the start there is no interval.                                      *)
LEMMA OrderedInit == ParserInit => Ordered
  BY DEF ParserInit, Ordered, IntervalConflict, NoConstraint, Everything

(* And every step of normalize keeps it.                                  *)
LEMMA OrderedStep == KeptTypeOK /\ Ordered /\ [ParserNext]_parserVars => Ordered'
<1> SUFFICES ASSUME KeptTypeOK, Ordered, [ParserNext]_parserVars PROVE Ordered'
  OBVIOUS
<1> USE DEF KeptTypeOK
<1>1. ASSUME NEW v \in Vars, NEW spec \in DomainSpecs, AddDomain(v, spec) PROVE Ordered'
  <2>1. CASE constraint' = constraint
    BY <2>1 DEF Ordered
  <2>2. CASE /\ constraint' = [constraint EXCEPT ![v] = Merged(@, spec)]
             /\ ~DomainConflict(constraint[v], spec)
    <3>1. ~IntervalConflict(Merged(constraint[v], spec).interval)
      <4>1. CASE spec.kind \in IntervalKinds
        <5>1. Merged(constraint[v], spec).interval = Merge(constraint[v].interval, spec.interval)
          BY <4>1 DEF Merged, Constraints, IntervalKinds
        <5> QED
          BY <2>2, <4>1, <5>1 DEF DomainConflict
      <4>2. CASE spec.kind \notin IntervalKinds
        <5>1. Merged(constraint[v], spec).interval = constraint[v].interval
          BY <4>2 DEF Merged, Constraints, DomainSpecs, IntervalKinds
        <5> QED
          BY <5>1 DEF Ordered
      <4> QED
        BY <4>1, <4>2
    <3>2. constraint'[v] = Merged(constraint[v], spec)
          /\ \A w \in Vars \ {v} : constraint'[w] = constraint[w]
      BY <2>2
    <3>3. ASSUME NEW w \in Vars PROVE ~IntervalConflict(constraint'[w].interval)
      BY <3>1, <3>2 DEF Ordered
    <3> QED
      BY <3>3 DEF Ordered
  <2> QED
    BY <1>1, <2>1, <2>2 DEF AddDomain
<1>2. ASSUME NEW v \in Vars, NEW preds \in SUBSET Predicates, AddAssumption(v, preds)
      PROVE  Ordered'
  <2>1. \A w \in Vars : constraint'[w].interval = constraint[w].interval
    BY <1>2 DEF AddAssumption, Constraints
  <2> QED
    BY <2>1 DEF Ordered
<1>3. CASE MalformedDomain \/ DomainsEnd \/ UnsupportedAssumption \/ AssumptionsEnd
           \/ UNCHANGED parserVars
  BY <1>3 DEF MalformedDomain, DomainsEnd, UnsupportedAssumption, AssumptionsEnd, parserVars, Ordered
<1> QED
  BY <1>1, <1>2, <1>3 DEF ParserNext

-----------------------------------------------------------------------------
(* A variable's predicates are predicates the client sent; the specs sent  *)
(* so far are finitely many.                                               *)
Sent ==
  \A v \in Vars : constraint[v].predicates \subseteq assumed[v] /\ IsFiniteSet(declared[v])

(* At the start no predicate and no spec was sent.                         *)
LEMMA SentInit == ParserInit => Sent
  BY FS_EmptySet DEF ParserInit, Sent, NoConstraint

(* Every step of normalize keeps it.                                       *)
LEMMA SentStep == KeptTypeOK /\ Sent /\ [ParserNext]_parserVars => Sent'
<1> SUFFICES ASSUME KeptTypeOK, Sent, [ParserNext]_parserVars PROVE Sent'
  OBVIOUS
<1> USE DEF KeptTypeOK
<1>1. ASSUME NEW v \in Vars, NEW spec \in DomainSpecs, AddDomain(v, spec) PROVE Sent'
  <2>1. declared' = [declared EXCEPT ![v] = @ \cup {spec}] /\ assumed' = assumed
    BY <1>1 DEF AddDomain
  <2>2. \A w \in Vars : IsFiniteSet(declared'[w])
    BY <2>1, FS_AddElement DEF Sent
  <2>3. Merged(constraint[v], spec).predicates = constraint[v].predicates
    BY DEF Merged, Constraints, DomainSpecs, IntervalKinds
  <2>4. \A w \in Vars : constraint'[w].predicates = constraint[w].predicates
    BY <1>1, <2>3 DEF AddDomain
  <2> QED
    BY <2>1, <2>2, <2>4 DEF Sent
<1>2. ASSUME NEW v \in Vars, NEW preds \in SUBSET Predicates, AddAssumption(v, preds)
      PROVE  Sent'
  <2> DEFINE c == [constraint[v] EXCEPT !.predicates = @ \cup preds]
  <2>1. declared' = declared /\ assumed' = [assumed EXCEPT ![v] = @ \cup preds]
    BY <1>2 DEF AddAssumption
  <2>2. c.predicates = constraint[v].predicates \cup preds
    BY DEF Constraints
  <2>3. constraint' = constraint \/ constraint' = [constraint EXCEPT ![v] = c]
    BY <1>2 DEF AddAssumption
  <2> HIDE DEF c
  <2> QED
    BY <2>1, <2>2, <2>3 DEF Sent
<1>3. CASE MalformedDomain \/ DomainsEnd \/ UnsupportedAssumption \/ AssumptionsEnd
           \/ UNCHANGED parserVars
  BY <1>3 DEF MalformedDomain, DomainsEnd, UnsupportedAssumption, AssumptionsEnd, parserVars, Sent
<1> QED
  BY <1>1, <1>2, <1>3 DEF ParserNext

(* A bound of a merged interval is that of some spec, and of the new spec  *)
(* if it has one there.                                                    *)
LEMMA MergedBounds ==
  ASSUME NEW c \in Constraints, NEW specs \in SUBSET DomainSpecs, NEW spec \in specs,
         KeptOf(c, specs), spec.kind \in IntervalKinds
  PROVE  LET i == spec.interval
             m == Merge(c.interval, i)
         IN  /\ \A l \in m.lower : /\ i.lower = {} \/ i.lower = {l}
                                  /\ \E s \in specs : s.kind \in IntervalKinds /\ s.interval.lower = {l}
             /\ \A u \in m.upper : /\ i.upper = {} \/ i.upper = {u}
                                  /\ \E s \in specs : s.kind \in IntervalKinds /\ s.interval.upper = {u}
<1> DEFINE i == spec.interval
           m == Merge(c.interval, i)
<1>1. i \in Interval
  BY DEF DomainSpecs, IntervalKinds
<1>2. (i.lower = {} \/ \E b \in Bounds : i.lower = {b}) /\ (i.upper = {} \/ \E b \in Bounds : i.upper = {b})
  BY <1>1, OptionalParts DEF Interval
<1>3. /\ m.lower = IF i.lower = {} THEN c.interval.lower ELSE i.lower
      /\ m.upper = IF i.upper = {} THEN c.interval.upper ELSE i.upper
  BY DEF Merge
<1>4. ASSUME NEW l \in m.lower
      PROVE  /\ i.lower = {} \/ i.lower = {l}
             /\ \E s \in specs : s.kind \in IntervalKinds /\ s.interval.lower = {l}
  BY <1>2, <1>3, <1>4 DEF KeptOf
<1>5. ASSUME NEW u \in m.upper
      PROVE  /\ i.upper = {} \/ i.upper = {u}
             /\ \E s \in specs : s.kind \in IntervalKinds /\ s.interval.upper = {u}
  BY <1>2, <1>3, <1>5 DEF KeptOf
<1> QED
  BY <1>4, <1>5

(* A conflict of a spec with what was kept of those before it, when none   *)
(* differs in kind and the spec opens no bound but its own, leaves no      *)
(* value that all of them mean.                                            *)
LEMMA SpecConflict ==
  ASSUME NEW c \in Constraints, NEW specs \in SUBSET DomainSpecs, NEW spec \in specs,
         KeptOf(c, specs), DomainConflict(c, spec),
         \A s \in specs : s.kind = spec.kind,
         \A t \in specs : spec.interval.lowerOpen /\ spec.interval.lower = {} => t.interval.lower = {},
         \A t \in specs : spec.interval.upperOpen /\ spec.interval.upper = {} => t.interval.upper = {},
         NEW n \in Universe, \A s \in specs : Means(s, n)
  PROVE  FALSE
<1>1. c.kind \in {"none", spec.kind}
  BY DEF KeptOf, Constraints
<1>2. CASE spec.kind = "finite" /\ spec.values = <<>>
  <2>1. Range(spec.values) = {}
    BY <1>2 DEF Range
  <2> QED
    BY <1>2, <2>1 DEF Means
<1>3. CASE spec.kind \in IntervalKinds /\ IntervalConflict(Merge(c.interval, spec.interval))
  <2> DEFINE i == spec.interval
             m == Merge(c.interval, i)
  <2>1. \A s \in specs : s.interval \in Interval /\ Within(n, s.interval)
    BY <1>3 DEF Means, DomainSpecs, IntervalKinds
  <2>2. PICK l \in m.lower, u \in m.upper : l > u \/ (l = u /\ (i.lowerOpen \/ i.upperOpen))
    <3>1. m.lowerOpen = i.lowerOpen /\ m.upperOpen = i.upperOpen
      BY DEF Merge
    <3> HIDE DEF m
    <3> QED
      BY <1>3, <3>1 DEF IntervalConflict, m
  <2>3. (i.lower = {} \/ i.lower = {l}) /\ \E s \in specs : s.interval.lower = {l}
    BY <1>3, MergedBounds
  <2>4. (i.upper = {} \/ i.upper = {u}) /\ \E s \in specs : s.interval.upper = {u}
    BY <1>3, MergedBounds
  <2>5. l \in Int /\ u \in Int /\ n \in Int
    <3>1. \A s \in specs : s.interval.lower \subseteq Bounds /\ s.interval.upper \subseteq Bounds
      BY <2>1, OptionalParts DEF Interval
    <3> QED
      BY <2>3, <2>4, <3>1, ParserAssumption
  <2> HIDE DEF m
  <2>6. l <= n /\ n <= u
    BY <2>1, <2>3, <2>4, <2>5 DEF Within
  <2>7. l = n /\ u = n /\ (i.lowerOpen \/ i.upperOpen)
    BY <2>2, <2>5, <2>6
  <2>8. i.lowerOpen => i.lower = {l}
    BY <2>3
  <2>9. i.upperOpen => i.upper = {u}
    BY <2>4
  <2> QED
    BY <2>1, <2>5, <2>7, <2>8, <2>9 DEF Within
<1> QED
  BY <1>1, <1>2, <1>3 DEF DomainConflict

(* Predicates that contradict one another, or bounds that were declared,   *)
(* leave the variable without a value.                                     *)
LEMMA PredicateConflict ==
  ASSUME NEW specs, NEW preds, NEW c, KeptOf(c, specs), c.predicates \subseteq preds,
         c.interval \in Interval, Contradictory(c.predicates) \/ PredicateVsDomain(c),
         NEW n \in Universe, \A spec \in specs : Means(spec, n)
  PROVE  \E p \in preds : ~Satisfies(n, p)
<1> SUFFICES ASSUME \A p \in preds : Satisfies(n, p) PROVE FALSE
  OBVIOUS
<1>1. n \in Int /\ c.interval.lower \subseteq Int /\ c.interval.upper \subseteq Int
  <2>1. c.interval.lower \subseteq Bounds /\ c.interval.upper \subseteq Bounds
    BY OptionalParts DEF Interval
  <2> QED
    BY <2>1, ParserAssumption
<1>2. /\ "positive" \in c.predicates => n > 0
      /\ "negative" \in c.predicates => n < 0
      /\ "nonnegative" \in c.predicates => n >= 0
  BY DEF Satisfies
<1>3. ASSUME NEW l \in c.interval.lower PROVE l <= n
  <2>1. PICK spec \in specs : spec.kind \in IntervalKinds /\ spec.interval.lower = {l}
    BY DEF KeptOf
  <2>2. Within(n, spec.interval)
    BY <2>1 DEF Means, IntervalKinds
  <2> QED
    BY <1>1, <2>1, <2>2 DEF Within
<1>4. ASSUME NEW u \in c.interval.upper PROVE n <= u
  <2>1. PICK spec \in specs : spec.kind \in IntervalKinds /\ spec.interval.upper = {u}
    BY DEF KeptOf
  <2>2. Within(n, spec.interval)
    BY <2>1 DEF Means, IntervalKinds
  <2> QED
    BY <1>1, <2>1, <2>2 DEF Within
<1> QED
  BY <1>1, <1>2, <1>3, <1>4 DEF Contradictory, PredicateVsDomain

(* A step that rejects a request for a conflict has a reason.              *)
LEMMA ConflictStep ==
  KeptTypeOK /\ Kept /\ Sent /\ ConflictsAreReal /\ [ParserNext]_parserVars => ConflictsAreReal'
<1> SUFFICES ASSUME KeptTypeOK, Kept, Sent, ConflictsAreReal, [ParserNext]_parserVars,
                    stage' = "rejected", code' = "CONSTRAINT_CONFLICT"
             PROVE  \E v \in Vars : \/ \A n \in Universe : ~Declared(v, n)'
                                    \/ DifferInKind(v)'
                                    \/ OpensAnothersEnd(v)'
  BY DEF ConflictsAreReal
<1>1. ASSUME NEW v \in Vars, NEW spec \in DomainSpecs, AddDomain(v, spec),
             ~DifferInKind(v)', ~OpensAnothersEnd(v)'
      PROVE  \A n \in Universe : ~Declared(v, n)'
  <2>1. DomainConflict(constraint[v], spec) /\ declared' = [declared EXCEPT ![v] = @ \cup {spec}]
    BY <1>1 DEF AddDomain
  <2> DEFINE specs == declared'[v]
             c == constraint[v]
  <2>2. specs = declared[v] \cup {spec} /\ specs \in SUBSET DomainSpecs /\ spec \in specs
    BY <2>1 DEF KeptTypeOK
  <2>3. c \in Constraints /\ KeptOf(c, specs)
    BY <2>2, KeptGrows DEF Kept, KeptTypeOK
  <2>4. \A s \in specs : s.kind = spec.kind
    BY <1>1, <2>2 DEF DifferInKind
  <2>5. /\ \A t \in specs : spec.interval.lowerOpen /\ spec.interval.lower = {} => t.interval.lower = {}
        /\ \A t \in specs : spec.interval.upperOpen /\ spec.interval.upper = {} => t.interval.upper = {}
    BY <1>1, <2>2 DEF OpensAnothersEnd
  <2>6. \A n \in Universe : ~(\A s \in specs : Means(s, n))
    <3> HIDE DEF specs, c
    <3> QED
      BY <2>1, <2>2, <2>3, <2>4, <2>5, SpecConflict DEF c
  <2> QED
    BY <2>6 DEF Declared
<1>2. ASSUME NEW v \in Vars, NEW preds \in SUBSET Predicates, AddAssumption(v, preds)
      PROVE  \A n \in Universe : ~Declared(v, n)'
  <2> DEFINE c == [constraint[v] EXCEPT !.predicates = @ \cup preds]
  <2>1. constraint[v] \in Constraints /\ KeptOf(constraint[v], declared[v])
    BY DEF Kept, KeptTypeOK
  <2>2. /\ c.interval = constraint[v].interval /\ c.kind = constraint[v].kind
        /\ c.values = constraint[v].values
        /\ c.predicates = constraint[v].predicates \cup preds
    BY <2>1 DEF Constraints
  <2>3. declared' = declared /\ assumed'[v] = assumed[v] \cup preds
        /\ (Contradictory(c.predicates) \/ PredicateVsDomain(c))
    BY <1>2 DEF AddAssumption, KeptTypeOK
  <2>4. KeptOf(c, declared'[v]) /\ c.interval \in Interval /\ c.predicates \subseteq assumed'[v]
    BY <2>1, <2>2, <2>3 DEF KeptOf, Constraints, Sent
  <2>5. Contradictory(c.predicates) \/ PredicateVsDomain(c)
    BY <2>3
  <2>6. ASSUME NEW n \in Universe, \A s \in declared'[v] : Means(s, n)
        PROVE  \E p \in assumed'[v] : ~Satisfies(n, p)
    <3> HIDE DEF c
    <3> QED
      BY <2>4, <2>5, <2>6, PredicateConflict
  <2> QED
    BY <2>6 DEF Declared
<1>3. CASE UNCHANGED parserVars
  BY <1>3 DEF parserVars, ConflictsAreReal, Declared, DifferInKind, OpensAnothersEnd
<1>4. ~MalformedDomain /\ ~DomainsEnd /\ ~UnsupportedAssumption /\ ~AssumptionsEnd
  BY DEF MalformedDomain, DomainsEnd, UnsupportedAssumption, AssumptionsEnd, Reject
<1> QED
  BY <1>1, <1>2, <1>3, <1>4 DEF ParserNext

(* A conflict has a cause, for any bounds, predicates and universe and any *)
(* number of specs in any order: a request that normalize rejects for one  *)
(* has a variable that can take no value, or two of whose specs differ in  *)
(* kind, or one of whose specs opens an end that only another bounds.      *)
THEOREM NoConflictIsInvented == ParserSpec => []ConflictsAreReal
<1>1. ParserInit => KeptTypeOK /\ Kept /\ Sent /\ ConflictsAreReal
  BY KeptInit, SentInit DEF ParserInit, ConflictsAreReal
<1>2. ParserSpec => [](KeptTypeOK /\ Kept /\ Sent /\ ConflictsAreReal)
  BY <1>1, KeptStep, SentStep, ConflictStep, PTL DEF ParserSpec
<1> QED
  BY <1>2, PTL

-----------------------------------------------------------------------------
(* What was kept of a variable survived the checks of its predicates; none *)
(* was read while there were domains to read.                              *)
Reconciled ==
  \A v \in Vars :
    /\ stage = "domains" => constraint[v].predicates = {}
    /\ ~Contradictory(constraint[v].predicates)
    /\ ~PredicateVsDomain(constraint[v])

(* At the start no predicate was read.                                     *)
LEMMA CompatibleInit == ParserInit => Reconciled
  BY DEF ParserInit, Reconciled, NoConstraint, Contradictory, PredicateVsDomain

(* Every step of normalize keeps it.                                       *)
LEMMA CompatibleStep == KeptTypeOK /\ Reconciled /\ [ParserNext]_parserVars => Reconciled'
<1> SUFFICES ASSUME KeptTypeOK, Reconciled, [ParserNext]_parserVars PROVE Reconciled'
  OBVIOUS
<1> USE DEF KeptTypeOK
<1>1. ASSUME NEW v \in Vars, NEW spec \in DomainSpecs, AddDomain(v, spec) PROVE Reconciled'
  <2>1. stage = "domains"
    BY <1>1 DEF AddDomain
  <2>2. Merged(constraint[v], spec).predicates = constraint[v].predicates
    BY DEF Merged, Constraints, DomainSpecs, IntervalKinds
  <2>3. \A w \in Vars : constraint'[w].predicates = {}
    BY <1>1, <2>1, <2>2 DEF AddDomain, Reconciled
  <2> QED
    BY <2>3 DEF Reconciled, Contradictory, PredicateVsDomain
<1>2. ASSUME NEW v \in Vars, NEW preds \in SUBSET Predicates, AddAssumption(v, preds)
      PROVE  Reconciled'
  <2> DEFINE c == [constraint[v] EXCEPT !.predicates = @ \cup preds]
  <2>1. stage = "assumptions" /\ stage' # "domains"
    BY <1>2 DEF AddAssumption, Reject
  <2>2. CASE constraint' = constraint
    BY <2>1, <2>2 DEF Reconciled
  <2>3. CASE /\ constraint' = [constraint EXCEPT ![v] = c]
             /\ ~Contradictory(c.predicates) /\ ~PredicateVsDomain(c)
    <3> HIDE DEF c
    <3>1. constraint'[v] = c /\ \A w \in Vars \ {v} : constraint'[w] = constraint[w]
      BY <2>3
    <3>2. ASSUME NEW w \in Vars
          PROVE  ~Contradictory(constraint'[w].predicates) /\ ~PredicateVsDomain(constraint'[w])
      BY <2>3, <3>1 DEF Reconciled
    <3> QED
      BY <2>1, <3>2 DEF Reconciled
  <2> QED
    BY <1>2, <2>2, <2>3 DEF AddAssumption
<1>3. CASE MalformedDomain \/ DomainsEnd \/ UnsupportedAssumption \/ AssumptionsEnd
           \/ UNCHANGED parserVars
  BY <1>3 DEF MalformedDomain, DomainsEnd, UnsupportedAssumption, AssumptionsEnd, Reject,
              parserVars, Reconciled
<1> QED
  BY <1>1, <1>2, <1>3 DEF ParserNext

(* A number whose double lies between bounds that are in order, on the     *)
(* side of zero that is asked for: side is 1 for positive, -1 for          *)
(* negative, 0 for either.                                                 *)
LEMMA RoomBetweenBounds ==
  ASSUME NEW i, i.lower \in Optional(Int), i.upper \in Optional(Int),
         i.lowerOpen \in BOOLEAN, i.upperOpen \in BOOLEAN,
         \A l \in i.lower, u \in i.upper : l < u \/ (l = u /\ ~i.lowerOpen /\ ~i.upperOpen),
         NEW side \in {-1, 0, 1},
         side = 1 => \A u \in i.upper : u > 0,
         side = -1 => \A l \in i.lower : l < 0
  PROVE  \E a \in i.lower \cup i.upper \cup {0}, b \in i.lower \cup i.upper \cup {0}, d \in -1 .. 1 :
           /\ Inside(a + b + d, i)
           /\ side = 1 => a + b + d > 0
           /\ side = -1 => a + b + d < 0
<1> USE DEF Inside
<1> DEFINE Fits(a, b, d) ==
             /\ Inside(a + b + d, i)
             /\ side = 1 => a + b + d > 0
             /\ side = -1 => a + b + d < 0
           Choices == i.lower \cup i.upper \cup {0}
<1>0. SUFFICES \E a \in Choices, b \in Choices, d \in -1 .. 1 : Fits(a, b, d)
  OBVIOUS
<1>1. CASE i.lower = {} /\ i.upper = {}
  <2>1. Fits(0, 0, side)
    BY <1>1
  <2>2. 0 \in Choices /\ side \in -1 .. 1
    OBVIOUS
  <2> HIDE DEF Fits, Choices
  <2> QED
    BY <2>1, <2>2
<1>2. ASSUME NEW l \in Int, i.lower = {l}, i.upper = {}
      PROVE  \E a \in Choices, b \in Choices, d \in -1 .. 1 : Fits(a, b, d)
  <2>1. CASE side = -1
    <3>1. Fits(l, 0, 0)
      BY <1>2, <2>1
    <3> QED
      BY <1>2, <3>1
  <2>2. CASE side # -1 /\ l >= 0
    <3>1. Fits(l, l, 1)
      BY <1>2, <2>2
    <3> QED
      BY <1>2, <3>1
  <2>3. CASE side # -1 /\ l < 0
    <3>1. Fits(0, 0, 1)
      BY <1>2, <2>3
    <3> QED
      BY <3>1
  <2> QED
    BY <1>2, <2>1, <2>2, <2>3
<1>3. ASSUME NEW u \in Int, i.lower = {}, i.upper = {u}
      PROVE  \E a \in Choices, b \in Choices, d \in -1 .. 1 : Fits(a, b, d)
  <2>1. CASE side = 1
    <3>1. Fits(u, 0, 0)
      BY <1>3, <2>1
    <3> QED
      BY <1>3, <3>1
  <2>2. CASE side # 1 /\ u <= 0
    <3>1. Fits(u, u, -1)
      BY <1>3, <2>2
    <3> QED
      BY <1>3, <3>1
  <2>3. CASE side # 1 /\ u > 0
    <3>1. Fits(0, 0, -1)
      BY <1>3, <2>3
    <3> QED
      BY <3>1
  <2> QED
    BY <1>3, <2>1, <2>2, <2>3
<1>4. ASSUME NEW l \in Int, NEW u \in Int, i.lower = {l}, i.upper = {u}
      PROVE  \E a \in Choices, b \in Choices, d \in -1 .. 1 : Fits(a, b, d)
  <2>0. l < u \/ (l = u /\ ~i.lowerOpen /\ ~i.upperOpen)
    BY <1>4
  <2>1. CASE side = 0 \/ (side = 1 /\ l >= 0) \/ (side = -1 /\ u <= 0)
    <3>1. Fits(l, u, 0)
      BY <1>4, <2>0, <2>1
    <3> QED
      BY <1>4, <3>1
  <2>2. CASE side = 1 /\ l < 0
    <3>1. Fits(u, 0, 0)
      BY <1>4, <2>2
    <3> QED
      BY <1>4, <3>1
  <2>3. CASE side = -1 /\ u > 0
    <3>1. Fits(l, 0, 0)
      BY <1>4, <2>3
    <3> QED
      BY <1>4, <3>1
  <2> QED
    BY <1>4, <2>1, <2>2, <2>3
<1> QED
  BY <1>1, <1>2, <1>3, <1>4 DEF Optional

(* An interval and signs that passed the checks of normalize leave room.   *)
LEMMA CompatibleLeavesAValue == KeptTypeOK /\ Ordered /\ Reconciled => SignsLeaveAValue
<1> SUFFICES ASSUME KeptTypeOK, Ordered, Reconciled, NEW v \in Vars,
                    constraint[v].predicates \subseteq {"positive", "negative", "nonnegative"},
                    ~(/\ "nonnegative" \in constraint[v].predicates
                      /\ constraint[v].interval.upper = {0} /\ constraint[v].interval.upperOpen)
             PROVE  \E h \in Finer :
                      /\ Inside(h, constraint[v].interval)
                      /\ \A p \in constraint[v].predicates : Satisfies(h, p)
  BY DEF SignsLeaveAValue
<1> DEFINE i == constraint[v].interval
           preds == constraint[v].predicates
<1>1. /\ i.lower \in Optional(Bounds) /\ i.upper \in Optional(Bounds)
      /\ i.lowerOpen \in BOOLEAN /\ i.upperOpen \in BOOLEAN
  BY DEF KeptTypeOK, Constraints, Interval
<1>2. /\ i.lower \subseteq Bounds /\ i.upper \subseteq Bounds /\ Bounds \subseteq Int
      /\ i.lower \in Optional(Int) /\ i.upper \in Optional(Int)
  BY <1>1, ParserAssumption DEF Optional
<1>3. \A l \in i.lower, u \in i.upper : l < u \/ (l = u /\ ~i.lowerOpen /\ ~i.upperOpen)
  <2>1. ~IntervalConflict(i)
    BY DEF Ordered
  <2>2. \A l \in i.lower, u \in i.upper : l \in Int /\ u \in Int
    BY <1>2
  <2> HIDE DEF i
  <2> QED
    BY <2>1, <2>2 DEF IntervalConflict
<1>4. /\ ~Contradictory(preds)
      /\ "positive" \in preds => \A u \in i.upper : u > 0
      /\ "negative" \in preds => \A l \in i.lower : l < 0
      /\ "nonnegative" \in preds => \A u \in i.upper : u >= 0
  <2>1. ~Contradictory(preds) /\ ~PredicateVsDomain(constraint[v])
    BY DEF Reconciled
  <2>2. (\A l \in i.lower : l \in Int) /\ (\A u \in i.upper : u \in Int)
    BY <1>2
  <2> QED
    BY <2>1, <2>2 DEF PredicateVsDomain
<1>5. ASSUME NEW side \in {-1, 0, 1},
             side = 1 => \A u \in i.upper : u > 0,
             side = -1 => \A l \in i.lower : l < 0
      PROVE  \E h \in Finer : h \in Int /\ Inside(h, i) /\ (side = 1 => h > 0) /\ (side = -1 => h < 0)
  <2> HIDE DEF i
  <2>1. PICK a \in i.lower \cup i.upper \cup {0}, b \in i.lower \cup i.upper \cup {0}, d \in -1 .. 1 :
          /\ Inside(a + b + d, i)
          /\ side = 1 => a + b + d > 0
          /\ side = -1 => a + b + d < 0
    BY <1>1, <1>2, <1>3, <1>5, RoomBetweenBounds
  <2>2. a \in Bounds \cup {0} /\ b \in Bounds \cup {0}
    BY <1>2
  <2>3. a + b + d \in Finer
    BY <2>2 DEF Finer
  <2>4. a + b + d \in Int
    BY <1>2, <2>2
  <2> QED
    BY <2>1, <2>3, <2>4
<1>6. CASE "negative" \in preds
  <2>1. preds = {"negative"}
    BY <1>4, <1>6 DEF Contradictory
  <2>2. PICK h \in Finer : h \in Int /\ Inside(h, i) /\ h < 0
    BY <1>4, <1>5, <1>6
  <2>3. \A p \in preds : Satisfies(h, p)
    BY <2>1, <2>2 DEF Satisfies
  <2> QED
    BY <2>2, <2>3
<1>7. CASE "negative" \notin preds /\ preds # {} /\ \A u \in i.upper : u > 0
  <2>1. preds \subseteq {"positive", "nonnegative"}
    BY <1>7
  <2>2. PICK h \in Finer : h \in Int /\ Inside(h, i) /\ h > 0
    BY <1>5, <1>7
  <2>3. \A p \in preds : Satisfies(h, p)
    BY <2>1, <2>2 DEF Satisfies
  <2> QED
    BY <2>2, <2>3
<1>8. CASE "negative" \notin preds /\ preds # {} /\ ~\A u \in i.upper : u > 0
  <2>1. preds = {"nonnegative"}
    BY <1>4, <1>8
  <2>2. PICK u \in i.upper : ~(u > 0)
    BY <1>8
  <2>3. u = 0 /\ i.upper = {0}
    BY <1>1, <1>2, <1>4, <2>1, <2>2 DEF Optional
  <2>4. ~i.upperOpen
    BY <2>1, <2>3
  <2>5. Inside(0, i)
    <3>1. \A l \in i.lower : l \in Int /\ (l < 0 \/ (l = 0 /\ ~i.lowerOpen))
      BY <1>2, <1>3, <2>3
    <3> QED
      BY <2>3, <2>4, <3>1 DEF Inside
  <2>6. 0 \in Finer
    <3>1. 0 + 0 + 0 = 0 /\ 0 \in -1 .. 1 /\ 0 \in Bounds \cup {0}
      OBVIOUS
    <3> QED
      BY <3>1 DEF Finer
  <2>7. \A p \in preds : Satisfies(0, p)
    BY <2>1 DEF Satisfies
  <2> QED
    BY <2>5, <2>6, <2>7
<1>9. CASE preds = {}
  <2>1. PICK h \in Finer : Inside(h, i)
    BY <1>5
  <2> QED
    BY <1>9, <2>1
<1> QED
  BY <1>6, <1>7, <1>8, <1>9

(* normalize passes no contradiction between the bounds and the signs of a *)
(* variable over the reals, except below an open zero, for any bounds and  *)
(* any number of specs and assumptions.                                    *)
THEOREM SignConflictsAreFound == ParserSpec => []SignsLeaveAValue
<1>1. ParserSpec => [](KeptTypeOK /\ Kept)
  BY KeptInit, KeptStep, PTL DEF ParserSpec
<1>2. ParserSpec => [](Ordered /\ Reconciled)
  BY <1>1, OrderedInit, OrderedStep, CompatibleInit, CompatibleStep, PTL DEF ParserSpec
<1> QED
  BY <1>1, <1>2, CompatibleLeavesAValue, PTL
=============================================================================
