-------------------------- MODULE FiniteCheckProofs ---------------------------
(***************************************************************************)
(* Proof that an exhaustive verdict leaves no declared point out. The      *)
(* argument has three parts: what normalize keeps admits every declared    *)
(* value (DomainParserProofs); a finite domain lists every admitted value, *)
(* because int() cuts a lower bound of whole numbers upwards or not at all *)
(* below zero, downwards above it, and an upper bound likewise the other   *)
(* way (DeclaredIsListed); and the loop evaluates the predicate at every   *)
(* combination before it ends without an answer (Evaluated).               *)
(***************************************************************************)
EXTENDS FiniteCheck, FunctionTheorems, DomainParserProofs

(* The points of the product are those evaluated and those still to do.    *)
Evaluated == \A f \in Combinations \ todo : Assignment(f) \in yes \cup no

CheckInv ==
  /\ op = "enumerate" \/ IsInjective(names)
  /\ step # "parse" => stage = "accepted"
  /\ step = "parse" => verdict = "none" /\ yes = {} /\ no = {}
  /\ step = "loop" =>
       /\ verdict = "none"
       /\ \A v \in Range(names) : HasFiniteDomain(v)
       /\ Evaluated
       /\ op = "forall" => no = {}
       /\ op = "exists" => yes = {}
  /\ (op = "forall" /\ verdict = "proved") \/ (op = "exists" /\ verdict = "disproved") =>
       /\ \A v \in Range(names) : HasFiniteDomain(v)
       /\ Evaluated /\ todo = {}
       /\ op = "forall" => no = {}
       /\ op = "exists" => yes = {}

NamesOK == names \in NameLists

(* The list range(int(l), int(u) + 1) has every whole number from l to u.  *)
LEMMA WholeNumbersComplete ==
  ASSUME NEW l \in Int, NEW u \in Int, NEW n \in Int, l <= n, n <= u, Whole(n)
  PROVE  \E i \in DOMAIN WholeNumbers(l, u) : WholeNumbers(l, u)[i] = n
<1>1. PICK k \in Int : n = 4 * k
  <2>1. n = 4 * (n \div 4) /\ n \div 4 \in Int
    BY DEF Whole
  <2> QED
    BY <2>1
<1>2. Truncate(l) \in Int /\ Truncate(l) <= k
  <2>1. CASE l >= 0
    BY <1>1, <2>1 DEF Truncate
  <2>2. CASE ~(l >= 0)
    BY <1>1, <2>2 DEF Truncate
  <2> QED
    BY <2>1, <2>2
<1>3. Truncate(u) \in Int /\ k <= Truncate(u)
  <2>1. CASE u >= 0
    BY <1>1, <2>1 DEF Truncate
  <2>2. CASE ~(u >= 0)
    BY <1>1, <2>2 DEF Truncate
  <2> QED
    BY <2>1, <2>2
<1> DEFINE i == k - Truncate(l) + 1
<1>4. i \in 1 .. (Truncate(u) - Truncate(l) + 1)
  BY <1>2, <1>3
<1>5. 4 * (Truncate(l) + i - 1) = n
  BY <1>1, <1>2
<1> QED
  BY <1>4, <1>5 DEF WholeNumbers

(* A declared value of a variable with a finite domain is in the list.     *)
LEMMA DeclaredIsListed ==
  ASSUME KeptTypeOK, Kept, NEW v \in Vars, HasFiniteDomain(v),
         NEW n \in Universe, Declared(v, n)
  PROVE  \E k \in DOMAIN FiniteDomain(v) : FiniteDomain(v)[k] = n
<1> DEFINE c == constraint[v]
<1>1. c \in Constraints /\ KeptOf(c, declared[v])
  BY DEF Kept, KeptTypeOK
<1>2. /\ \A l \in c.interval.lower : l <= n
      /\ \A u \in c.interval.upper : n <= u
      /\ c.kind = "finite" => n \in Range(c.values)
      /\ c.kind = "integer" => Whole(n)
  BY KeptAdmitsDeclared DEF DeclaredIsKept
<1>3. CASE c.kind = "finite"
  <2>1. FiniteDomain(v) = c.values
    BY <1>3 DEF FiniteDomain
  <2> QED
    BY <1>2, <1>3, <2>1 DEF Range
<1>4. CASE c.kind = "boolean"
  <2>1. n \in {0, 4}
    BY <1>1, <1>4 DEF KeptOf, Kinds, Declared, Means
  <2>2. FiniteDomain(v) = <<0, 4>>
    BY <1>4 DEF FiniteDomain
  <2>3. DOMAIN <<0, 4>> = 1 .. 2 /\ <<0, 4>>[1] = 0 /\ <<0, 4>>[2] = 4
    OBVIOUS
  <2> QED
    BY <2>1, <2>2, <2>3
<1>5. CASE c.kind = "integer" /\ c.interval.lower # {} /\ c.interval.upper # {}
  <2> DEFINE l == CHOOSE l \in c.interval.lower : TRUE
             u == CHOOSE u \in c.interval.upper : TRUE
  <2>1. l \in c.interval.lower /\ u \in c.interval.upper
    BY <1>5
  <2>2. c.interval.lower \subseteq Int /\ c.interval.upper \subseteq Int /\ n \in Int
    <3>1. c.interval.lower \subseteq Bounds /\ c.interval.upper \subseteq Bounds
      BY <1>1, OptionalParts DEF Constraints, Interval
    <3> QED
      BY <3>1, ParserAssumption
  <2>3. FiniteDomain(v) = WholeNumbers(l, u)
    BY <1>5 DEF FiniteDomain
  <2>4. l \in Int /\ u \in Int /\ l <= n /\ n <= u /\ Whole(n)
    BY <1>2, <1>5, <2>1, <2>2
  <2> HIDE DEF l, u
  <2> QED
    BY <2>2, <2>3, <2>4, WholeNumbersComplete
<1> QED
  BY <1>3, <1>4, <1>5 DEF HasFiniteDomain

(* Every declared assignment is the assignment of some combination.        *)
LEMMA DeclaredIsCombined ==
  ASSUME KeptTypeOK, Kept, NamesOK, IsInjective(names),
         \A v \in Range(names) : HasFiniteDomain(v),
         NEW at \in [Range(names) -> Universe], IsDeclared(at)
  PROVE  \E f \in Combinations : Assignment(f) = at
<1>1. Range(names) \subseteq Vars
  <2>1. names \in Seq(Vars)
    BY CheckAssumption DEF NamesOK
  <2> QED
    BY <2>1 DEF Range
<1> DEFINE Position(v) == CHOOSE k \in DOMAIN FiniteDomain(v) : FiniteDomain(v)[k] = at[v]
           f == [i \in DOMAIN names |-> Position(names[i])]
<1>2. ASSUME NEW v \in Range(names)
      PROVE  Position(v) \in DOMAIN FiniteDomain(v) /\ FiniteDomain(v)[Position(v)] = at[v]
  <2>1. v \in Vars /\ at[v] \in Universe /\ Declared(v, at[v]) /\ HasFiniteDomain(v)
    BY <1>1 DEF IsDeclared
  <2>2. \E k \in DOMAIN FiniteDomain(v) : FiniteDomain(v)[k] = at[v]
    BY <2>1, DeclaredIsListed
  <2> QED
    BY <2>2
<1>3. \A i \in DOMAIN names : names[i] \in Range(names)
  BY DEF Range
<1>4. f \in Combinations
  <2>1. ASSUME NEW i \in DOMAIN names
        PROVE  Position(names[i]) \in DOMAIN FiniteDomain(names[i])
               /\ Position(names[i]) \in Positions
    BY <1>2, <1>3 DEF Positions
  <2> HIDE DEF Position
  <2> QED
    BY <2>1 DEF Combinations
<1>5. ASSUME NEW v \in Range(names) PROVE LastOf(v) \in DOMAIN names /\ names[LastOf(v)] = v
  <2>1. PICK i \in DOMAIN names : names[i] = v
    BY DEF Range
  <2>2. \A j \in DOMAIN names : names[j] = v => j = i
    BY <2>1 DEF IsInjective
  <2>3. DOMAIN names \subseteq Int
    BY CheckAssumption DEF NamesOK
  <2>4. \A j \in DOMAIN names : names[j] = v => j <= i
    BY <2>2, <2>3
  <2> QED
    BY <2>1, <2>4 DEF LastOf
<1>6. ASSUME NEW v \in Range(names) PROVE FiniteDomain(v)[f[LastOf(v)]] = at[v]
  <2>1. f[LastOf(v)] = Position(v)
    BY <1>5
  <2> HIDE DEF f, Position
  <2> QED
    BY <1>2, <2>1
<1>7. Assignment(f) = at
  <2> HIDE DEF f
  <2> QED
    BY <1>6 DEF Assignment
<1> QED
  BY <1>4, <1>7

(* The loop's invariant makes its verdicts sound.                          *)
LEMMA CheckInvIsSound == KeptTypeOK /\ Kept /\ NamesOK /\ CheckInv => ExhaustionIsSound
<1> SUFFICES ASSUME KeptTypeOK, Kept, NamesOK, CheckInv,
                    NEW at \in [Range(names) -> Universe], IsDeclared(at),
                    (op = "forall" /\ verdict = "proved") \/ (op = "exists" /\ verdict = "disproved")
             PROVE  /\ (op = "forall" /\ verdict = "proved" => at \in yes)
                    /\ (op = "exists" /\ verdict = "disproved" => at \in no)
  BY DEF ExhaustionIsSound
<1>1. IsInjective(names) /\ (\A v \in Range(names) : HasFiniteDomain(v)) /\ Evaluated /\ todo = {}
  BY DEF CheckInv
<1>2. PICK f \in Combinations : Assignment(f) = at
  BY <1>1, DeclaredIsCombined
<1>3. at \in yes \cup no
  BY <1>1, <1>2 DEF Evaluated
<1> QED
  BY <1>3 DEF CheckInv

(* A step that keeps the constraints, the names and the operation keeps    *)
(* the domains and the combinations.                                       *)
LEMMA LoopIsFrozen ==
  ASSUME UNCHANGED <<parserVars, op, names>>
  PROVE  /\ Combinations' = Combinations
         /\ \A v : HasFiniteDomain(v)' <=> HasFiniteDomain(v)
         /\ \A f : Assignment(f)' = Assignment(f)
<1>1. constraint' = constraint /\ names' = names /\ op' = op
  BY DEF parserVars
<1>2. \A v : FiniteDomain(v)' = FiniteDomain(v)
  BY <1>1 DEF FiniteDomain
<1>3. Positions' = Positions
  BY <1>1, <1>2 DEF Positions
<1>4. Combinations' = Combinations
  BY <1>1, <1>2, <1>3 DEF Combinations
<1>5. \A v : HasFiniteDomain(v)' <=> HasFiniteDomain(v)
  BY <1>1 DEF HasFiniteDomain
<1>6. \A v : LastOf(v)' = LastOf(v)
  BY <1>1 DEF LastOf
<1>7. \A f : Assignment(f)' = Assignment(f)
  BY <1>1, <1>2, <1>6 DEF Assignment
<1> QED
  BY <1>4, <1>5, <1>7

(* Nothing has been evaluated at the start.                                *)
LEMMA CheckInit == Init => NamesOK /\ CheckInv
  BY DEF Init, NamesOK, CheckInv

(* Every step keeps the invariant of the loop.                             *)
LEMMA CheckInvStep == NamesOK /\ CheckInv /\ [Next]_vars => NamesOK' /\ CheckInv'
<1> SUFFICES ASSUME NamesOK, CheckInv, [Next]_vars PROVE NamesOK' /\ CheckInv'
  OBVIOUS
<1>1. CASE Parse
  <2>1. step = "parse"
    BY <1>1, ParseOnlyBefore DEF Parse, CheckInv
  <2> QED
    BY <1>1, <2>1 DEF Parse, checkVars, NamesOK, CheckInv
<1>2. CASE BeginLoop
  <2>1. UNCHANGED <<parserVars, op, names>>
    BY <1>2 DEF BeginLoop
  <2>2. Combinations' \ todo' = {}
    BY <1>2, <2>1, LoopIsFrozen DEF BeginLoop
  <2>3. \A v \in Range(names) : HasFiniteDomain(v)
    BY <1>2 DEF BeginLoop
  <2>4. (\A v \in Range(names) : HasFiniteDomain(v))'
    BY <2>1, <2>3, LoopIsFrozen
  <2>5. Evaluated'
    BY <2>2 DEF Evaluated
  <2> QED
    BY <1>2, <2>1, <2>4, <2>5 DEF BeginLoop, CheckInv, NamesOK, parserVars
<1>3. CASE CannotLoop
  BY <1>3 DEF CannotLoop, Finish, CheckInv, NamesOK, parserVars
<1>4. ASSUME NEW f \in todo, NEW truth \in BOOLEAN, Try(f, truth)
      PROVE  NamesOK' /\ CheckInv'
  <2>1. UNCHANGED <<parserVars, op, names>> /\ step = "loop" /\ stage' = stage
        /\ todo' = todo \ {f}
    BY <1>4 DEF Try, parserVars
  <2>2. Assignment(f) \in yes' \cup no' /\ yes \subseteq yes' /\ no \subseteq no'
    BY <1>4 DEF Try
  <2>3. Evaluated'
    BY <2>1, <2>2, LoopIsFrozen DEF Evaluated, CheckInv
  <2>4. (\A v \in Range(names) : HasFiniteDomain(v))'
    BY <2>1, LoopIsFrozen DEF CheckInv
  <2>5. (op' = "forall" /\ step' = "loop" => no' = {})
        /\ (op' = "exists" /\ step' = "loop" => yes' = {})
    BY <1>4 DEF Try, Decides, Finish, CheckInv
  <2>6. ~(op' = "forall" /\ verdict' = "proved") /\ ~(op' = "exists" /\ verdict' = "disproved")
        /\ (step' = "loop" => verdict' = "none") /\ step' # "parse"
    BY <1>4 DEF Try, Decides, Finish, CheckInv
  <2> QED
    BY <2>1, <2>3, <2>4, <2>5, <2>6 DEF CheckInv, NamesOK
<1>5. CASE PredicateFails
  BY <1>5 DEF PredicateFails, Finish, CheckInv, NamesOK, parserVars
<1>6. CASE EndLoop
  <2>1. UNCHANGED <<parserVars, op, names>> /\ step = "loop" /\ stage' = stage
        /\ UNCHANGED <<todo, yes, no>> /\ todo = {} /\ step' = "done"
    BY <1>6 DEF EndLoop, Finish, parserVars
  <2>2. Evaluated'
    BY <2>1, LoopIsFrozen DEF Evaluated, CheckInv
  <2>3. (\A v \in Range(names) : HasFiniteDomain(v))'
    BY <2>1, LoopIsFrozen DEF CheckInv
  <2> QED
    BY <2>1, <2>2, <2>3 DEF CheckInv, NamesOK
<1>7. CASE UNCHANGED vars
  <2>1. UNCHANGED <<parserVars, op, names>> /\ UNCHANGED checkVars /\ stage' = stage
    BY <1>7 DEF vars, checkVars, parserVars
  <2>2. Evaluated' <=> Evaluated
    BY <2>1, LoopIsFrozen DEF Evaluated, checkVars
  <2>3. (\A v \in Range(names) : HasFiniteDomain(v))' <=> (\A v \in Range(names) : HasFiniteDomain(v))
    BY <2>1, LoopIsFrozen
  <2> QED
    BY <2>1, <2>2, <2>3 DEF CheckInv, NamesOK, checkVars
<1> QED
  BY <1>1, <1>2, <1>3, <1>4, <1>5, <1>6, <1>7 DEF Next, CheckStep, Over

(* The invariants hold together.                                           *)
LEMMA CheckedInv == Spec => [](KeptTypeOK /\ Kept /\ NamesOK /\ CheckInv)
<1>1. Init => KeptTypeOK /\ Kept /\ NamesOK /\ CheckInv
  BY KeptInit, CheckInit DEF Init
<1>2. KeptTypeOK /\ Kept /\ [Next]_vars => KeptTypeOK' /\ Kept'
  <2>1. [Next]_vars => [ParserNext]_parserVars
    BY DEF Next, CheckStep, vars, Parse, BeginLoop, CannotLoop, Try, PredicateFails, EndLoop, Over
  <2> QED
    BY <2>1, KeptStep
<1> QED
  BY <1>1, <1>2, CheckInvStep, PTL DEF Spec

(* No verdict by exhaustion skips a point of the declared domain, for any  *)
(* variables, bounds and lists of names.                                   *)
THEOREM ExhaustionLeavesNothingOut == Spec => []ExhaustionIsSound
  BY CheckedInv, CheckInvIsSound, PTL

-----------------------------------------------------------------------------
(* The counts                                                              *)

(* The functions from a finite set to a finite set are finitely many: each *)
(* is known by its graph.                                                  *)
LEMMA FiniteFunctions ==
  ASSUME NEW S, NEW T, IsFiniteSet(S), IsFiniteSet(T)
  PROVE  IsFiniteSet([S -> T])
<1> DEFINE Graph == [f \in [S -> T] |-> {<<x, f[x]>> : x \in S}]
<1>1. IsFiniteSet(SUBSET (S \X T))
  BY FS_Product, FS_SUBSET
<1>2. Graph \in [[S -> T] -> SUBSET (S \X T)]
  OBVIOUS
<1>3. ASSUME NEW f \in [S -> T], NEW g \in [S -> T], Graph[f] = Graph[g] PROVE f = g
  <2>1. ASSUME NEW x \in S PROVE f[x] = g[x]
    <3>1. <<x, f[x]>> \in Graph[g]
      BY <1>3
    <3>2. PICK y \in S : <<x, f[x]>> = <<y, g[y]>>
      BY <3>1
    <3> QED
      BY <3>2
  <2> QED
    BY <2>1
<1>4. Graph \in Injection([S -> T], SUBSET (S \X T))
  <2> HIDE DEF Graph
  <2> QED
    BY <1>2, <1>3, Fun_IsInj
<1> QED
  BY <1>1, <1>4, FS_Injection

(* The product that Space counts.                                          *)
SpaceSet ==
  {f \in [Range(names) -> Positions] : \A v \in Range(names) : f[v] \in DOMAIN FiniteDomain(v)}

(* A list of values is finite, and so is the product of the lists.         *)
LEMMA ListsAreFinite ==
  ASSUME KeptTypeOK, NEW v \in Vars, HasFiniteDomain(v)
  PROVE  IsFiniteSet(DOMAIN FiniteDomain(v))
<1> DEFINE c == constraint[v]
<1>1. c \in Constraints
  BY DEF KeptTypeOK
<1>2. CASE c.kind = "finite"
  <2>1. PICK k \in 0 .. MaxValues : c.values \in [1 .. k -> Bounds]
    BY <1>1 DEF Constraints, ValueLists
  <2>2. DOMAIN FiniteDomain(v) = 1 .. k
    BY <1>2, <2>1 DEF FiniteDomain
  <2> QED
    BY <2>2, FS_Interval, ParserAssumption
<1>3. CASE c.kind = "boolean"
  <2>1. DOMAIN FiniteDomain(v) = 1 .. 2
    BY <1>3 DEF FiniteDomain
  <2>2. IsFiniteSet(1 .. 2)
    <3>1. 1 \in Int /\ 2 \in Int
      OBVIOUS
    <3> QED
      BY ONLY <3>1, FS_Interval
  <2> QED
    BY <2>1, <2>2
<1>4. CASE c.kind = "integer" /\ c.interval.lower # {} /\ c.interval.upper # {}
  <2> DEFINE l == CHOOSE l \in c.interval.lower : TRUE
             u == CHOOSE u \in c.interval.upper : TRUE
  <2>1. l \in Int /\ u \in Int
    <3>1. c.interval.lower \subseteq Bounds /\ c.interval.upper \subseteq Bounds
      BY <1>1, OptionalParts DEF Constraints, Interval
    <3>2. l \in c.interval.lower /\ u \in c.interval.upper
      BY <1>4
    <3> QED
      BY <3>1, <3>2, ParserAssumption
  <2>2. FiniteDomain(v) = WholeNumbers(l, u)
    BY <1>4 DEF FiniteDomain
  <2> HIDE DEF l, u
  <2>3. Truncate(l) \in Int /\ Truncate(u) \in Int
    <3>1. ASSUME NEW n \in Int PROVE Truncate(n) \in Int
      BY DEF Truncate
    <3> QED
      BY <2>1, <3>1
  <2>4. DOMAIN FiniteDomain(v) = 1 .. (Truncate(u) - Truncate(l) + 1)
    BY <2>2 DEF WholeNumbers
  <2> QED
    BY <2>3, <2>4, FS_Interval
<1> QED
  BY <1>2, <1>3, <1>4 DEF HasFiniteDomain

(* The names of a list are variables, finitely many.                       *)
LEMMA NamesAreFinite ==
  ASSUME NamesOK
  PROVE  /\ DOMAIN names = 1 .. Len(names) /\ Len(names) \in Nat
         /\ Range(names) \subseteq Vars
         /\ IsFiniteSet(DOMAIN names) /\ IsFiniteSet(Range(names))
<1>1. names \in Seq(Vars)
  BY CheckAssumption DEF NamesOK
<1>2. DOMAIN names = 1 .. Len(names) /\ Len(names) \in Nat
  BY <1>1
<1>3. Range(names) \subseteq Vars
  BY <1>1 DEF Range
<1>4. IsFiniteSet(DOMAIN names)
  BY <1>2, FS_Interval
<1>5. names \in Surjection(DOMAIN names, Range(names))
  BY <1>1, <1>3 DEF Surjection, Range
<1> QED
  BY <1>2, <1>3, <1>4, <1>5, FS_Surjection

(* So the products are finite: of them Cardinality is a number.            *)
LEMMA ProductsAreFinite ==
  ASSUME KeptTypeOK, NamesOK, \A v \in Range(names) : HasFiniteDomain(v)
  PROVE  IsFiniteSet(SpaceSet) /\ IsFiniteSet(Combinations)
<1>1. IsFiniteSet(DOMAIN names) /\ IsFiniteSet(Range(names)) /\ Range(names) \subseteq Vars
  BY NamesAreFinite
<1> DEFINE Lists == {DOMAIN FiniteDomain(v) : v \in Range(names)}
           List == [v \in Range(names) |-> DOMAIN FiniteDomain(v)]
<1>2. List \in Surjection(Range(names), Lists)
  BY DEF Surjection
<1>3. IsFiniteSet(Lists)
  <2> HIDE DEF List, Lists
  <2> QED
    BY <1>1, <1>2, FS_Surjection
<1>4. \A T \in Lists : IsFiniteSet(T)
  BY <1>1, ListsAreFinite
<1>5. IsFiniteSet(Positions)
  <2>1. Positions = UNION Lists
    BY DEF Positions
  <2> HIDE DEF Lists
  <2> QED
    BY <1>3, <1>4, <2>1, FS_UNION
<1>6. IsFiniteSet([Range(names) -> Positions]) /\ IsFiniteSet([DOMAIN names -> Positions])
  BY <1>1, <1>5, FiniteFunctions
<1>7. SpaceSet \in SUBSET [Range(names) -> Positions]
      /\ Combinations \in SUBSET [DOMAIN names -> Positions]
  BY DEF SpaceSet, Combinations
<1> QED
  BY <1>6, <1>7, FS_Subset

(* When no name is repeated the loop tries as many combinations as the     *)
(* product of the dict has: a choice for each name is one for each place.  *)
LEMMA SpaceIsCombinations ==
  ASSUME KeptTypeOK, NamesOK, IsInjective(names), \A v \in Range(names) : HasFiniteDomain(v)
  PROVE  Cardinality(Combinations) = Space
<1> DEFINE Spread == [f \in SpaceSet |-> [i \in DOMAIN names |-> f[names[i]]]]
<1>1. \A i \in DOMAIN names : names[i] \in Range(names)
  BY DEF Range
<1>2. Spread \in [SpaceSet -> Combinations]
  <2>1. ASSUME NEW f \in SpaceSet PROVE [i \in DOMAIN names |-> f[names[i]]] \in Combinations
    BY <1>1 DEF SpaceSet, Combinations
  <2> QED
    BY <2>1
<1>3. ASSUME NEW f \in SpaceSet, NEW g \in SpaceSet, Spread[f] = Spread[g] PROVE f = g
  <2>1. ASSUME NEW v \in Range(names) PROVE f[v] = g[v]
    <3>1. PICK i \in DOMAIN names : names[i] = v
      BY DEF Range
    <3>2. Spread[f][i] = f[v] /\ Spread[g][i] = g[v]
      BY <3>1
    <3> QED
      BY <1>3, <3>2
  <2>2. f \in [Range(names) -> Positions] /\ g \in [Range(names) -> Positions]
    BY DEF SpaceSet
  <2> QED
    BY <2>1, <2>2
<1>4. ASSUME NEW h \in Combinations PROVE \E f \in SpaceSet : Spread[f] = h
  <2> DEFINE Place(v) == CHOOSE i \in DOMAIN names : names[i] = v
             f == [v \in Range(names) |-> h[Place(v)]]
  <2>1. ASSUME NEW v \in Range(names) PROVE Place(v) \in DOMAIN names /\ names[Place(v)] = v
    BY DEF Range
  <2>2. h \in [DOMAIN names -> Positions]
        /\ \A i \in DOMAIN names : h[i] \in DOMAIN FiniteDomain(names[i])
    BY DEF Combinations
  <2>3. f \in SpaceSet
    <3>1. ASSUME NEW v \in Range(names)
          PROVE  h[Place(v)] \in Positions /\ h[Place(v)] \in DOMAIN FiniteDomain(v)
      <4> HIDE DEF Place
      <4> QED
        BY <2>1, <2>2
    <3> HIDE DEF Place
    <3> QED
      BY <3>1 DEF SpaceSet
  <2>4. ASSUME NEW i \in DOMAIN names PROVE Place(names[i]) = i
    BY <1>1, <2>1 DEF IsInjective
  <2>5. Spread[f] = h
    <3>1. Spread[f] = [i \in DOMAIN names |-> h[Place(names[i])]]
      BY <1>1, <2>3
    <3> HIDE DEF Place, f, Spread
    <3> QED
      BY <2>2, <2>4, <3>1
  <2> QED
    BY <2>3, <2>5
<1>5. Spread \in Bijection(SpaceSet, Combinations)
  <2> HIDE DEF Spread
  <2> QED
    BY <1>2, <1>3, <1>4, Fun_IsBij
<1>6. Cardinality(Combinations) = Cardinality(SpaceSet)
  <2>1. ExistsBijection(SpaceSet, Combinations)
    BY <1>5 DEF ExistsBijection
  <2> QED
    BY <2>1, ProductsAreFinite, FS_Bijection
<1> QED
  BY <1>6 DEF Space, SpaceSet

(* What the loop has tried and what it has to do make up the product; hits *)
(* falls behind tried with the first failure.                              *)
Counted ==
  /\ \A v \in Range(names) : HasFiniteDomain(v)
  /\ Evaluated /\ todo \subseteq Combinations
  /\ total = Space
  /\ tried + Cardinality(todo) = Cardinality(Combinations)

Enumerated == op = "enumerate" /\ verdict = "proved"

CountInv ==
  /\ tried \in Nat /\ hits \in 0 .. tried
  /\ hits = tried <=> no = {}
  /\ step = "parse" => tried = 0
  /\ step = "loop" \/ Enumerated => Counted
  /\ Enumerated => todo = {}

(* A step that keeps the constraints and the names keeps the product.      *)
LEMMA SpaceIsFrozen ==
  ASSUME UNCHANGED <<parserVars, op, names>>
  PROVE  Space' = Space
<1>1. constraint' = constraint /\ names' = names
  BY DEF parserVars
<1>2. \A v : FiniteDomain(v)' = FiniteDomain(v)
  BY <1>1 DEF FiniteDomain
<1>3. Positions' = Positions
  BY <1>1, <1>2 DEF Positions
<1> QED
  BY <1>1, <1>2, <1>3 DEF Space

(* What was counted stays counted while the loop rests.                    *)
LEMMA CountedRests ==
  ASSUME Counted, UNCHANGED <<parserVars, op, names>>, UNCHANGED <<todo, yes, no, total, tried>>
  PROVE  Counted'
<1>1. (\A v \in Range(names) : HasFiniteDomain(v))'
  BY LoopIsFrozen DEF Counted
<1>2. Evaluated'
  BY LoopIsFrozen DEF Counted, Evaluated
<1> QED
  BY <1>1, <1>2, LoopIsFrozen, SpaceIsFrozen DEF Counted

(* Nothing was counted at the start.                                       *)
LEMMA CountInit == Init => CountInv
  BY DEF Init, CountInv, Enumerated

(* Every step keeps the counts.                                            *)
LEMMA CountStep ==
  KeptTypeOK /\ NamesOK /\ CheckInv /\ CountInv /\ [Next]_vars => CountInv'
<1> SUFFICES ASSUME KeptTypeOK, NamesOK, CheckInv, CountInv, [Next]_vars PROVE CountInv'
  OBVIOUS
<1>1. CASE Parse
  <2>1. step = "parse" /\ verdict = "none"
    BY <1>1, ParseOnlyBefore DEF Parse, CheckInv
  <2> QED
    BY <1>1, <2>1 DEF Parse, checkVars, CountInv, Enumerated
<1>2. CASE BeginLoop
  <2>1. UNCHANGED <<parserVars, op, names>> /\ UNCHANGED <<yes, no, tried, hits, verdict>>
        /\ step = "parse" /\ step' = "loop" /\ todo' = Combinations /\ total' = Space
    BY <1>2 DEF BeginLoop
  <2>2. Combinations' = Combinations /\ Space' = Space
    BY <2>1, LoopIsFrozen, SpaceIsFrozen
  <2>3. (\A v \in Range(names) : HasFiniteDomain(v))'
    BY <1>2, <2>1, LoopIsFrozen DEF BeginLoop
  <2>4. IsFiniteSet(Combinations)
    BY <1>2, ProductsAreFinite DEF BeginLoop
  <2>5. Cardinality(Combinations) \in Nat /\ tried = 0
    BY <2>1, <2>4, FS_CardinalityType DEF CountInv
  <2>6. Evaluated'
    BY <2>1, <2>2 DEF Evaluated
  <2>7. Counted'
    BY <2>1, <2>2, <2>3, <2>5, <2>6 DEF Counted
  <2> QED
    BY <2>1, <2>7 DEF CountInv, CheckInv, Enumerated
<1>3. CASE CannotLoop
  BY <1>3 DEF CannotLoop, Finish, CountInv, Enumerated
<1>4. ASSUME NEW f \in todo, NEW truth \in BOOLEAN, Try(f, truth) PROVE CountInv'
  <2>1. UNCHANGED <<parserVars, op, names>> /\ total' = total /\ step = "loop"
        /\ todo' = todo \ {f} /\ tried' = tried + 1
    BY <1>4 DEF Try
  <2>2. Counted /\ NamesOK
    BY <2>1 DEF CountInv
  <2>3. IsFiniteSet(todo)
    BY <2>2, ProductsAreFinite, FS_Subset DEF Counted
  <2>4. Cardinality(todo') = Cardinality(todo) - 1 /\ Cardinality(todo) \in Nat
    BY <2>1, <2>3, FS_RemoveElement, FS_CardinalityType
  <2>5. Assignment(f) \in yes' \cup no' /\ yes \subseteq yes' /\ no \subseteq no'
    BY <1>4 DEF Try
  <2>6. Evaluated'
    BY <2>1, <2>2, <2>5, LoopIsFrozen DEF Evaluated, Counted
  <2>7. (\A v \in Range(names) : HasFiniteDomain(v))'
    BY <2>1, <2>2, LoopIsFrozen DEF Counted
  <2>8. Cardinality(Combinations') = Cardinality(Combinations) /\ Space' = Space
        /\ todo' \subseteq Combinations'
    BY <2>1, <2>2, LoopIsFrozen, SpaceIsFrozen DEF Counted
  <2>9. tried' + Cardinality(todo') = Cardinality(Combinations')
    BY <2>1, <2>2, <2>4, <2>8 DEF Counted, CountInv
  <2>10. Counted'
    BY <2>1, <2>2, <2>6, <2>7, <2>8, <2>9 DEF Counted
  <2>11. ~Enumerated' /\ step' # "parse"
    BY <1>4 DEF Try, Decides, Finish, Enumerated, CheckInv
  <2>12. tried' \in Nat /\ hits' \in 0 .. tried' /\ (hits' = tried' <=> no' = {})
    <3>1. CASE truth
      BY <1>4, <3>1 DEF Try, CountInv
    <3>2. CASE ~truth
      <4>1. hits' = hits /\ no' # {}
        BY <1>4, <3>2 DEF Try
      <4> QED
        BY <2>1, <4>1 DEF CountInv
    <3> QED
      BY <3>1, <3>2
  <2> QED
    BY <2>10, <2>11, <2>12 DEF CountInv
<1>5. CASE PredicateFails
  BY <1>5 DEF PredicateFails, Finish, CountInv, Enumerated
<1>6. CASE EndLoop
  <2>1. UNCHANGED <<parserVars, op, names>> /\ UNCHANGED <<todo, yes, no, total, tried, hits>>
        /\ step = "loop" /\ todo = {} /\ step' = "done"
    BY <1>6 DEF EndLoop, Finish
  <2>2. Counted'
    BY <2>1, CountedRests DEF CountInv
  <2> QED
    BY <2>1, <2>2 DEF CountInv
<1>7. CASE UNCHANGED vars
  <2>1. UNCHANGED <<parserVars, op, names>> /\ UNCHANGED <<todo, yes, no, total, tried, hits>>
        /\ step' = step /\ verdict' = verdict /\ op' = op
    BY <1>7 DEF vars, checkVars
  <2>2. Counted => Counted'
    BY <2>1, CountedRests
  <2> QED
    BY <2>1, <2>2 DEF CountInv, Enumerated
<1> QED
  BY <1>1, <1>2, <1>3, <1>4, <1>5, <1>6, <1>7 DEF Next, CheckStep, Over

(* When the loop ends, nothing is left to do and the counts are exact.     *)
LEMMA CountInvIsExact ==
  KeptTypeOK /\ Kept /\ NamesOK /\ CountInv => CountsAreExact
<1> SUFFICES ASSUME KeptTypeOK, Kept, NamesOK, CountInv, Enumerated, IsInjective(names)
             PROVE  /\ \A at \in [Range(names) -> Universe] : IsDeclared(at) => at \in yes \cup no
                    /\ total = tried
                    /\ AllSatisfy <=> no = {}
  BY DEF CountsAreExact, Enumerated
<1>1. Counted /\ todo = {} /\ tried \in Nat
  BY DEF CountInv
<1>2. ASSUME NEW at \in [Range(names) -> Universe], IsDeclared(at) PROVE at \in yes \cup no
  <2>1. PICK f \in Combinations : Assignment(f) = at
    BY <1>1, <1>2, DeclaredIsCombined DEF Counted
  <2> QED
    BY <1>1, <2>1 DEF Counted, Evaluated
<1>3. total = tried
  <2>1. Cardinality(todo) = 0
    BY <1>1, FS_EmptySet
  <2>2. Cardinality(Combinations) = Space
    BY <1>1, SpaceIsCombinations DEF Counted
  <2> QED
    BY <1>1, <2>1, <2>2 DEF Counted
<1>4. AllSatisfy <=> no = {}
  BY <1>3 DEF AllSatisfy, CountInv
<1> QED
  BY <1>2, <1>3, <1>4

(* The variables of the loop keep to their values; total is a number       *)
(* because the product is finite.                                          *)
LEMMA CheckTypeInit == Init => CheckTypeOK
  BY ParserTypeInit DEF Init, CheckTypeOK

(* Every step keeps them there.                                            *)
LEMMA CheckTypeStep ==
  KeptTypeOK /\ Kept /\ NamesOK /\ CountInv' /\ CheckTypeOK /\ [Next]_vars => CheckTypeOK'
<1> SUFFICES ASSUME KeptTypeOK, Kept, NamesOK, CountInv', CheckTypeOK, [Next]_vars
             PROVE  CheckTypeOK'
  OBVIOUS
<1>1. ParserTypeOK'
  <2>1. [ParserNext]_parserVars
    BY DEF Next, CheckStep, vars, Parse, BeginLoop, CannotLoop, Try, PredicateFails, EndLoop, Over
  <2> QED
    BY <2>1, ParserTypeStep DEF CheckTypeOK
<1>2. tried' \in Nat /\ hits' \in 0 .. tried'
  BY DEF CountInv
<1>3. total' \in Nat
  <2>1. CASE BeginLoop
    <3>1. IsFiniteSet(SpaceSet)
      BY <2>1, ProductsAreFinite DEF BeginLoop
    <3>2. Space = Cardinality(SpaceSet)
      BY DEF Space, SpaceSet
    <3> QED
      BY <2>1, <3>1, <3>2, FS_CardinalityType DEF BeginLoop
  <2>2. CASE ~BeginLoop
    <3>1. total' = total
      BY <2>2 DEF Next, CheckStep, vars, checkVars, Parse, CannotLoop, Try, PredicateFails, EndLoop,
                  Over
    <3> QED
      BY <3>1 DEF CheckTypeOK
  <2> QED
    BY <2>1, <2>2
<1>4. op' = op /\ names' = names
  BY DEF Next, CheckStep, vars, checkVars, Parse, BeginLoop, CannotLoop, Try, PredicateFails,
         EndLoop, Over
<1>5. /\ step' \in {"parse", "loop", "done"}
      /\ verdict' \in {"none", "proved", "disproved", "PARSE_REJECTED",
                       "DOMAIN_UNSUPPORTED", "BACKEND_INTERNAL_ERROR"}
  BY DEF CheckTypeOK, Next, CheckStep, vars, checkVars, Parse, BeginLoop, CannotLoop, Try,
         PredicateFails, EndLoop, Over, Finish
<1> QED
  BY <1>1, <1>2, <1>3, <1>4, <1>5 DEF CheckTypeOK

(* Type correctness of the finite check, and with it that the product is a *)
(* number, whatever the lists, bounds and names.                           *)
THEOREM CheckTypeCorrect == Spec => []CheckTypeOK
<1>1. Spec => [](KeptTypeOK /\ Kept /\ NamesOK /\ CheckInv)
  BY CheckedInv
<1>2. Spec => [](CountInv /\ CheckTypeOK)
  BY <1>1, CountInit, CountStep, CheckTypeInit, CheckTypeStep, PTL DEF Spec
<1> QED
  BY <1>2, PTL

(* The counts of an enumeration with distinct names are exact, for any     *)
(* number of variables, values and bounds.                                 *)
THEOREM EnumerationCountsAreExact == Spec => []CountsAreExact
<1>1. Spec => [](KeptTypeOK /\ Kept /\ NamesOK /\ CheckInv)
  BY CheckedInv
<1>2. Spec => []CountInv
  BY <1>1, CountInit, CountStep, PTL DEF Spec
<1> QED
  BY <1>1, <1>2, CountInvIsExact, PTL

-----------------------------------------------------------------------------
(* The witnesses                                                           *)

(* int() moves no inward bound out of its interval, so that what the list  *)
(* holds between two of them is whole and within both.                     *)
LEMMA WholeNumbersInward ==
  ASSUME NEW l \in Int, NEW u \in Int, Whole(l) \/ l < 0, Whole(u) \/ u > 0,
         NEW k \in DOMAIN WholeNumbers(l, u)
  PROVE  /\ WholeNumbers(l, u)[k] \in Int /\ Whole(WholeNumbers(l, u)[k])
         /\ l <= WholeNumbers(l, u)[k] /\ WholeNumbers(l, u)[k] <= u
<1>1. Truncate(l) \in Int /\ l <= 4 * Truncate(l)
  <2>1. CASE l >= 0
    <3>1. l = 4 * (l \div 4) /\ l \div 4 \in Int
      BY <2>1 DEF Whole
    <3> QED
      BY <2>1, <3>1 DEF Truncate
  <2>2. CASE ~(l >= 0)
    <3>1. (-l) \div 4 \in Int /\ 4 * ((-l) \div 4) <= -l
      BY <2>2
    <3> QED
      BY <2>2, <3>1 DEF Truncate
  <2> QED
    BY <2>1, <2>2
<1>2. Truncate(u) \in Int /\ 4 * Truncate(u) <= u
  <2>1. CASE u >= 0
    <3>1. u \div 4 \in Int /\ 4 * (u \div 4) <= u
      BY <2>1
    <3> QED
      BY <2>1, <3>1 DEF Truncate
  <2>2. CASE ~(u >= 0)
    <3>1. (-u) \div 4 \in Int /\ -u = 4 * ((-u) \div 4)
      BY <2>2 DEF Whole
    <3> QED
      BY <2>2, <3>1 DEF Truncate
  <2> QED
    BY <2>1, <2>2
<1> DEFINE m == Truncate(l) + k - 1
<1>3. k \in 1 .. (Truncate(u) - Truncate(l) + 1) /\ WholeNumbers(l, u)[k] = 4 * m
  BY DEF WholeNumbers
<1>4. m \in Int /\ Truncate(l) <= m /\ m <= Truncate(u)
  BY <1>1, <1>2, <1>3
<1> HIDE DEF m
<1>5. 4 * m \in Int /\ Whole(4 * m) /\ l <= 4 * m /\ 4 * m <= u
  BY <1>1, <1>2, <1>4 DEF Whole
<1> QED
  BY <1>3, <1>5

(* A finite set of at most one element that has x is {x}.                  *)
LEMMA AtMostOne ==
  ASSUME NEW S, IsFiniteSet(S), Cardinality(S) <= 1, NEW x \in S
  PROVE  S = {x}
<1>1. {x} \in SUBSET S /\ Cardinality({x}) = 1 /\ Cardinality({x}) <= Cardinality(S)
  BY FS_Singleton, FS_Subset
<1>2. Cardinality(S) \in Nat
  BY FS_CardinalityType
<1>3. Cardinality(S) = Cardinality({x})
  BY <1>1, <1>2
<1> QED
  BY <1>1, <1>3, FS_Subset

(* What the list of a variable holds was declared, when it was declared    *)
(* once, with inward bounds, and nothing was assumed of it.                *)
LEMMA ListedIsDeclared ==
  ASSUME KeptTypeOK, Kept, NEW v \in Vars, HasFiniteDomain(v),
         IsFiniteSet(declared[v]), Cardinality(declared[v]) <= 1, assumed[v] = {},
         \A spec \in declared[v] : Inward(spec.interval),
         NEW k \in DOMAIN FiniteDomain(v)
  PROVE  Declared(v, FiniteDomain(v)[k])
<1> DEFINE c == constraint[v]
           n == FiniteDomain(v)[k]
<1>1. c \in Constraints /\ KeptOf(c, declared[v]) /\ c.kind \in Kinds
  BY DEF Kept, KeptTypeOK, HasFiniteDomain, Kinds, IntervalKinds
<1>2. PICK spec \in declared[v] : spec.kind = c.kind /\ (c.kind = "finite" => spec.values = c.values)
  BY <1>1 DEF KeptOf
<1>3. declared[v] = {spec} /\ spec \in DomainSpecs
  BY <1>2, AtMostOne DEF KeptTypeOK
<1>4. CASE c.kind = "finite"
  <2>1. n \in Range(c.values)
    BY <1>4 DEF FiniteDomain, Range
  <2> QED
    BY <1>2, <1>3, <1>4, <2>1 DEF Declared, Means
<1>5. CASE c.kind = "boolean"
  <2>1. n \in {0, 4}
    BY <1>5 DEF FiniteDomain
  <2> QED
    BY <1>2, <1>3, <1>5, <2>1 DEF Declared, Means
<1>6. CASE c.kind = "integer"
  <2> DEFINE i == spec.interval
  <2>1. /\ c.interval.lower \in Optional(Bounds) /\ c.interval.upper \in Optional(Bounds)
        /\ c.interval.lower # {} /\ c.interval.upper # {}
    BY <1>1, <1>6 DEF Constraints, Interval, HasFiniteDomain
  <2>2. PICK l \in Bounds, u \in Bounds : c.interval.lower = {l} /\ c.interval.upper = {u}
    BY <2>1, OptionalParts
  <2>3. i.lower = {l} /\ i.upper = {u}
    BY <1>1, <1>3, <2>2 DEF KeptOf
  <2>4. l \in Int /\ u \in Int
    BY <2>2, ParserAssumption
  <2>5. /\ IF Whole(l) THEN ~i.lowerOpen ELSE l < 0
        /\ IF Whole(u) THEN ~i.upperOpen ELSE u > 0
    BY <1>3, <2>3 DEF Inward
  <2>6. FiniteDomain(v) = WholeNumbers(l, u)
    BY <1>6, <2>2 DEF FiniteDomain
  <2>7. n \in Int /\ Whole(n) /\ l <= n /\ n <= u
    <3>1. k \in DOMAIN WholeNumbers(l, u)
      BY <2>6
    <3> QED
      BY <2>4, <2>5, <2>6, <3>1, WholeNumbersInward
  <2> HIDE DEF n
  <2>8. n > l \/ (n = l /\ ~i.lowerOpen)
    BY <2>4, <2>5, <2>7
  <2>9. n < u \/ (n = u /\ ~i.upperOpen)
    BY <2>4, <2>5, <2>7
  <2>10. Within(n, i)
    BY <2>3, <2>8, <2>9 DEF Within
  <2>11. \A s \in declared[v] : Means(s, n)
    BY <1>2, <1>3, <1>6, <2>7, <2>10 DEF Means
  <2> QED
    BY <2>11 DEF Declared, n
<1> QED
  BY <1>4, <1>5, <1>6 DEF HasFiniteDomain

(* What is shown is the assignment of a combination.                       *)
ShownInv ==
  /\ step # "done" => shown = {}
  /\ step = "loop" => todo \subseteq Combinations
  /\ shown # {} => IsInjective(names) /\ \A v \in Range(names) : HasFiniteDomain(v)
  /\ \A at \in shown : \E f \in Combinations : at = Assignment(f)

(* At the start nothing is shown.                                          *)
LEMMA ShownInit == Init => ShownInv
  BY DEF Init, ShownInv

(* Every step keeps it.                                                    *)
LEMMA ShownStep == CheckInv /\ ShownInv /\ [Next]_vars => ShownInv'
<1> SUFFICES ASSUME CheckInv, ShownInv, [Next]_vars PROVE ShownInv'
  OBVIOUS
<1>1. CASE Parse
  <2>1. step = "parse"
    BY <1>1, ParseOnlyBefore DEF Parse, CheckInv
  <2> QED
    BY <1>1, <2>1 DEF Parse, checkVars, ShownInv
<1>2. CASE BeginLoop
  <2>1. UNCHANGED <<parserVars, op, names>>
    BY <1>2 DEF BeginLoop
  <2> QED
    BY <1>2, <2>1, LoopIsFrozen DEF BeginLoop, ShownInv
<1>3. CASE CannotLoop
  BY <1>3 DEF CannotLoop, Finish, ShownInv
<1>4. ASSUME NEW f \in todo, NEW truth \in BOOLEAN, Try(f, truth) PROVE ShownInv'
  <2>1. UNCHANGED <<parserVars, op, names>> /\ step = "loop" /\ todo' = todo \ {f}
    BY <1>4 DEF Try
  <2>2. f \in Combinations /\ shown = {} /\ todo \subseteq Combinations
    BY <2>1 DEF ShownInv
  <2>3. todo' \subseteq Combinations' /\ f \in Combinations' /\ Assignment(f)' = Assignment(f)
    BY <2>1, <2>2, LoopIsFrozen
  <2>4. CASE Decides(truth)
    <3>1. shown' = {Assignment(f)} /\ step' = "done" /\ op # "enumerate"
      BY <1>4, <2>4 DEF Try, Finish, Decides
    <3>2. IsInjective(names)' /\ (\A v \in Range(names) : HasFiniteDomain(v))'
      BY <2>1, <3>1, LoopIsFrozen DEF CheckInv
    <3> QED
      BY <2>3, <3>1, <3>2 DEF ShownInv
  <2>5. CASE ~Decides(truth)
    BY <1>4, <2>2, <2>3, <2>5 DEF Try, ShownInv
  <2> QED
    BY <2>4, <2>5
<1>5. CASE PredicateFails \/ EndLoop
  BY <1>5 DEF PredicateFails, EndLoop, Finish, ShownInv
<1>6. CASE UNCHANGED vars
  <2>1. UNCHANGED <<parserVars, op, names>> /\ UNCHANGED checkVars
    BY <1>6 DEF vars, checkVars
  <2>2. (\A v \in Range(names) : HasFiniteDomain(v))' <=> (\A v \in Range(names) : HasFiniteDomain(v))
    BY <2>1, LoopIsFrozen
  <2> QED
    BY <2>1, <2>2, LoopIsFrozen DEF checkVars, ShownInv
<1> QED
  BY <1>1, <1>2, <1>3, <1>4, <1>5, <1>6 DEF Next, CheckStep, Over

(* A combination's assignment takes each value from the variable's list.   *)
LEMMA AssignedIsListed ==
  ASSUME NamesOK, IsInjective(names), NEW f \in Combinations, NEW v \in Range(names)
  PROVE  \E k \in DOMAIN FiniteDomain(v) : Assignment(f)[v] = FiniteDomain(v)[k]
<1>1. PICK i \in DOMAIN names : names[i] = v
  BY DEF Range
<1>2. \A j \in DOMAIN names : names[j] = v => j = i
  BY <1>1 DEF IsInjective
<1>3. DOMAIN names \subseteq Int
  BY NamesAreFinite
<1>4. LastOf(v) \in DOMAIN names /\ names[LastOf(v)] = v
  BY <1>1, <1>2, <1>3 DEF LastOf
<1>5. f[LastOf(v)] \in DOMAIN FiniteDomain(v)
  BY <1>4 DEF Combinations
<1> QED
  BY <1>5 DEF Assignment

(* Without assumptions and repeated domains, and with bounds that point    *)
(* inwards, every witness and counterexample of an exhaustive verdict is   *)
(* one of the declared domain, for any variables, bounds and lists.        *)
THEOREM InwardWitnessesAreDeclared == Spec => []InwardShownIsDeclared
<1>1. Spec => [](KeptTypeOK /\ Kept /\ NamesOK /\ CheckInv)
  BY CheckedInv
<1>2. Spec => []Sent
  <2>1. Init => Sent
    BY SentInit DEF Init
  <2>2. [Next]_vars => [ParserNext]_parserVars
    BY DEF Next, CheckStep, vars, Parse, BeginLoop, CannotLoop, Try, PredicateFails, EndLoop, Over
  <2> QED
    BY <1>1, <2>1, <2>2, SentStep, PTL DEF Spec
<1>3. Spec => []ShownInv
  BY <1>1, ShownInit, ShownStep, PTL DEF Spec
<1>4. KeptTypeOK /\ Kept /\ NamesOK /\ Sent /\ ShownInv => InwardShownIsDeclared
  <2> SUFFICES ASSUME KeptTypeOK, Kept, NamesOK, Sent, ShownInv,
                      \A v \in Range(names) :
                        /\ assumed[v] = {} /\ Cardinality(declared[v]) <= 1
                        /\ \A spec \in declared[v] : Inward(spec.interval),
                      NEW at \in shown, NEW v \in Range(names)
               PROVE  Declared(v, at[v])
    BY DEF InwardShownIsDeclared, ShownIsDeclared, IsDeclared
  <2>1. PICK f \in Combinations : at = Assignment(f)
    BY DEF ShownInv
  <2>2. v \in Vars /\ IsInjective(names) /\ HasFiniteDomain(v) /\ IsFiniteSet(declared[v])
    BY NamesAreFinite DEF ShownInv, Sent
  <2>3. PICK k \in DOMAIN FiniteDomain(v) : at[v] = FiniteDomain(v)[k]
    BY <2>1, <2>2, AssignedIsListed
  <2> QED
    BY <2>2, <2>3, ListedIsDeclared
<1> QED
  BY <1>1, <1>2, <1>3, <1>4, PTL
=============================================================================
