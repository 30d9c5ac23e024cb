--------------------------- MODULE DomainToolsProofs ---------------------------
(***************************************************************************)
(* Proofs about what MCDomainTools checks beside FiniteCheck. A proof      *)
(* by SMT covers the declared domain, because every kind of domain that    *)
(* passes the comparison of sorts lies within its sort; sampling stays     *)
(* within bounds given on both sides, because normalize accepted none that *)
(* are out of order; and a term is built within its limits only.           *)
(***************************************************************************)
EXTENDS Sampling, Smt, Terms, SequenceTheorems, DomainParserProofs

-----------------------------------------------------------------------------
(* SMT                                                                     *)

SmtInv ==
  /\ sorts \in [Vars -> Sorts \cup {"none"}]
  /\ answer # "none" => stage = "accepted"
  /\ answer = "proved" => \A v \in Declaring : ~Disagrees(v) /\ sorts[v] # "Array"

(* Z3 has not been asked at the start.                                     *)
LEMMA SmtInitInv == SmtInit => SmtInv
  BY DEF SmtInit, SmtInv

(* Every step keeps what was compared.                                     *)
LEMMA SmtInvStep == SmtInv /\ [SmtNext]_smt => SmtInv'
<1> SUFFICES ASSUME SmtInv, [SmtNext]_smt PROVE SmtInv'
  OBVIOUS
<1>1. CASE ParserNext /\ UNCHANGED smtVars
  <2>1. stage # "accepted"
    BY <1>1, ParseOnlyBefore
  <2> QED
    BY <1>1, <2>1 DEF SmtInv, smtVars, Declaring
<1>2. CASE SmtStep
  <2>1. stage = "accepted" /\ UNCHANGED <<parserVars, sorts>>
    BY <1>2 DEF SmtStep, SortConflict, Malformed, Sat, Unsat, Unknown, Solvable, Asked, Answer
  <2>2. stage' = stage /\ constraint' = constraint
    BY <2>1 DEF parserVars
  <2>3. answer' = "proved" => \A v \in Declaring : ~Disagrees(v) /\ sorts[v] # "Array"
    BY <1>2 DEF SmtStep, SortConflict, Malformed, Sat, Unsat, Unknown, Solvable, Asked, Answer
  <2> QED
    BY <2>1, <2>2, <2>3 DEF SmtInv, Declaring, Disagrees
<1>3. CASE UNCHANGED smt
  BY <1>3 DEF SmtInv, smt, smtVars, parserVars, Declaring, Disagrees
<1> QED
  BY <1>1, <1>2, <1>3 DEF SmtNext, SmtOver

(* Values that pass the comparison are values of the sort.                 *)
LEMMA SmtInvCovers == KeptTypeOK /\ Kept /\ SmtInv => ProofsCoverTheDomain
<1> SUFFICES ASSUME KeptTypeOK, Kept, SmtInv, answer = "proved",
                    NEW v \in Declaring, NEW n \in Universe, Declared(v, n),
                    constraint[v].kind \notin {"none", "finite"}
             PROVE  n \in Values(sorts[v])
  BY DEF ProofsCoverTheDomain
<1>1. v \in Vars /\ sorts[v] \in {"Int", "Real", "Bool"} /\ ~Disagrees(v)
  BY DEF SmtInv, Declaring, Sorts
<1>2. DOMAIN Compatible = {"Int", "Real", "Bool"} /\ Compatible["Int"] = "integer"
      /\ Compatible["Bool"] = "boolean"
  BY DEF Compatible
<1>3. CASE sorts[v] = "Int"
  <2>1. constraint[v].kind = "integer"
    BY <1>1, <1>2, <1>3 DEF Disagrees
  <2>2. Whole(n)
    BY <1>1, <2>1, KeptAdmitsDeclared DEF DeclaredIsKept
  <2> QED
    BY <1>3, <2>2 DEF Values
<1>4. CASE sorts[v] = "Bool"
  <2>1. constraint[v].kind = "boolean"
    BY <1>1, <1>2, <1>4 DEF Disagrees
  <2>2. PICK spec \in declared[v] : spec.kind = "boolean"
    BY <1>1, <2>1 DEF Kept, KeptOf, Kinds
  <2>3. n \in {0, 4}
    BY <2>2 DEF Declared, Means
  <2> QED
    BY <1>4, <2>3 DEF Values
<1>5. CASE sorts[v] = "Real"
  BY <1>5 DEF Values
<1> QED
  BY <1>1, <1>3, <1>4, <1>5

(* What SMT proves holds on all of a declared interval or Boolean domain,  *)
(* for any number of specs, bounds and variables.                          *)
THEOREM SmtProofsCoverTheDomain == SmtSpec => []ProofsCoverTheDomain
<1>1. ParserInit /\ SmtInit => KeptTypeOK /\ Kept /\ SmtInv
  BY KeptInit, SmtInitInv
<1>2. [SmtNext]_smt => [ParserNext]_parserVars
  BY DEF SmtNext, SmtStep, SmtOver, SortConflict, Malformed, Sat, Unsat, Unknown, Answer, smt
<1>3. SmtSpec => [](KeptTypeOK /\ Kept /\ SmtInv)
  BY <1>1, <1>2, KeptStep, SmtInvStep, PTL DEF SmtSpec
<1> QED
  BY <1>3, SmtInvCovers, PTL

-----------------------------------------------------------------------------
(* Sampling                                                                *)

Request == sampled \in SampleLists /\ samples \in SampleCounts

(* A request names at least one variable.                                  *)
LEMMA RequestNames ==
  ASSUME Request
  PROVE  /\ Len(sampled) \in Nat \ {0} /\ samples \in Nat \ {0}
         /\ sampled[1] \in Range(sampled) /\ Range(sampled) \subseteq Vars
<1>1. sampled \in Seq(Vars) /\ sampled # <<>> /\ samples \in Nat \ {0}
  BY SamplingAssumption DEF Request
<1>2. Len(sampled) \in Nat \ {0} /\ DOMAIN sampled = 1 .. Len(sampled)
  BY <1>1
<1>3. 1 \in DOMAIN sampled
  BY <1>2
<1> QED
  BY <1>1, <1>2, <1>3 DEF Range

(* The grid is asked for two points at least, and for GridCount at most.   *)
LEMMA SizeBounds == ASSUME Request PROVE Size \in Nat /\ 2 <= Size /\ Size <= GridCount
<1> DEFINE share == samples \div Len(sampled)
<1>1. share \in Int
  BY RequestNames
<1>2. GridCount \in Nat /\ 2 <= GridCount
  BY SamplingAssumption
<1> HIDE DEF share
<1>3. Size = IF share < 2 THEN 2 ELSE IF share > GridCount THEN GridCount ELSE share
  BY DEF Size, share
<1> QED
  BY <1>1, <1>2, <1>3

(* Ceiling and Floor go to the next whole number.                          *)
LEMMA RoundingToWhole ==
  ASSUME NEW n \in Int
  PROVE  Ceiling(n) \in Int /\ Floor(n) \in Int /\ n <= 4 * Ceiling(n) /\ 4 * Floor(n) <= n
  BY DEF Ceiling, Floor

(* The bounds that are used are floats, those nearest to the ones given or *)
(* those that stand for a missing one.                                     *)
LEMMA FloatBounds ==
  ASSUME KeptTypeOK, NEW v \in Vars
  PROVE  LET i == constraint[v].interval
         IN  /\ Low(v) \in Universe /\ Float[Low(v)] = Low(v)
             /\ High(v) \in Universe /\ Float[High(v)] = High(v)
             /\ i.lower \subseteq Universe /\ i.upper \subseteq Universe
             /\ i.lower = {} => Low(v) = -Reach
             /\ i.upper = {} => High(v) = Reach
             /\ \A l \in i.lower : Low(v) = Float[l]
             /\ \A u \in i.upper : High(v) = Float[u]
<1> DEFINE i == constraint[v].interval
<1>1. i \in Interval
  BY DEF KeptTypeOK, Constraints
<1>2. (i.lower = {} \/ \E b \in Bounds : i.lower = {b}) /\ (i.upper = {} \/ \E b \in Bounds : i.upper = {b})
  BY <1>1, OptionalParts DEF Interval
<1>3. /\ Float \in [Universe -> Universe] /\ Bounds \subseteq Universe
      /\ \A n \in Universe : Float[Float[n]] = Float[n]
      /\ -Reach \in Universe /\ Float[-Reach] = -Reach /\ Reach \in Universe /\ Float[Reach] = Reach
  BY FloatAssumption, ParserAssumption, SamplingAssumption
<1>4. /\ Low(v) \in Universe /\ Float[Low(v)] = Low(v) /\ i.lower \subseteq Universe
      /\ i.lower = {} => Low(v) = -Reach
      /\ \A l \in i.lower : Low(v) = Float[l]
  <2>1. CASE i.lower = {}
    BY <1>3, <2>1 DEF Low
  <2>2. ASSUME NEW b \in Bounds, i.lower = {b}
        PROVE  Low(v) = Float[b]
    BY <2>2 DEF Low
  <2> QED
    BY <1>2, <1>3, <2>1, <2>2
<1>5. /\ High(v) \in Universe /\ Float[High(v)] = High(v) /\ i.upper \subseteq Universe
      /\ i.upper = {} => High(v) = Reach
      /\ \A u \in i.upper : High(v) = Float[u]
  <2>1. CASE i.upper = {}
    BY <1>3, <2>1 DEF High
  <2>2. ASSUME NEW b \in Bounds, i.upper = {b}
        PROVE  High(v) = Float[b]
    BY <2>2 DEF High
  <2> QED
    BY <1>2, <1>3, <2>1, <2>2
<1> QED
  BY <1>4, <1>5

(* The whole numbers from LeastWhole on, Span of them, lie within.         *)
LEMMA SpanBounds ==
  ASSUME KeptTypeOK, NEW v \in Vars
  PROVE  /\ Low(v) \in Int /\ High(v) \in Int /\ LeastWhole(v) \in Int /\ Span(v) \in Int
         /\ Floor(High(v)) = LeastWhole(v) + Span(v)
         /\ Low(v) <= 4 * LeastWhole(v) /\ 4 * (LeastWhole(v) + Span(v)) <= High(v)
<1>1. Low(v) \in Int /\ High(v) \in Int
  BY FloatBounds, ParserAssumption
<1>2. LeastWhole(v) = Ceiling(Low(v)) /\ Span(v) = Floor(High(v)) - LeastWhole(v)
  BY DEF LeastWhole, Span
<1> QED
  BY <1>1, <1>2, RoundingToWhole

(* Made a float, each of them still does, and is still whole.              *)
LEMMA WholeFloats ==
  ASSUME KeptTypeOK, NEW v \in Vars, NEW k \in Int,
         LeastWhole(v) <= k, k <= LeastWhole(v) + Span(v)
  PROVE  /\ 4 * k \in Universe /\ Float[4 * k] \in Universe
         /\ Low(v) <= Float[4 * k] /\ Float[4 * k] <= High(v) /\ Whole(Float[4 * k])
<1>1. /\ Low(v) \in Universe /\ Float[Low(v)] = Low(v)
      /\ High(v) \in Universe /\ Float[High(v)] = High(v)
  BY FloatBounds
<1>2. k \in Ceiling(Low(v)) .. Floor(High(v))
  BY SpanBounds DEF LeastWhole
<1>3. 4 * k \in Universe
  BY <1>1, <1>2, FloatAssumption
<1>4. Low(v) <= 4 * k /\ 4 * k <= High(v)
  <2>1. 4 * LeastWhole(v) <= 4 * k /\ 4 * k <= 4 * (LeastWhole(v) + Span(v))
    BY SpanBounds
  <2> QED
    BY <2>1, SpanBounds
<1>5. Float[Low(v)] <= Float[4 * k] /\ Float[4 * k] <= Float[High(v)]
  BY <1>1, <1>3, <1>4, FloatAssumption
<1>6. Whole(4 * k)
  BY DEF Whole
<1> QED
  BY <1>1, <1>3, <1>5, <1>6, FloatAssumption

(* Steps of the size of Stride stay within the span, and are fewer than    *)
(* twice the intervals between the points that were asked for.             *)
LEMMA StrideFacts ==
  ASSUME Request, KeptTypeOK, NEW v \in Vars, 0 <= Span(v)
  PROVE  /\ Stride(v) \in Nat \ {0} /\ Span(v) \div Stride(v) \in Nat
         /\ Span(v) \div Stride(v) + 1 <= 2 * (Size - 1)
         /\ \A k \in Nat : k <= Span(v) \div Stride(v) => Stride(v) * k <= Span(v)
         /\ Span(v) + 1 <= Size => Stride(v) = 1 /\ Span(v) \div Stride(v) = Span(v)
<1> DEFINE s == Span(v)
           d == Size - 1
           t == Stride(v)
<1>1. s \in Nat /\ d \in Nat /\ d >= 1
  BY SizeBounds, SpanBounds
<1>2. t = IF s \div d > 1 THEN s \div d ELSE 1
  BY DEF Stride
<1> HIDE DEF s, d, t
<1>3. s \div d \in Nat /\ s < d * (s \div d + 1) /\ d * (s \div d) <= s
  BY <1>1
<1>4. t \in Nat /\ t >= 1
  BY <1>2, <1>3
<1>5. s \div t \in Nat /\ t * (s \div t) <= s /\ s < t * (s \div t + 1)
  BY <1>1, <1>4
<1>6. s < 2 * d * t
  <2>1. CASE s \div d > 1
    <3>1. t = s \div d /\ d * t >= d
      BY <1>1, <1>2, <1>3, <2>1
    <3>2. s < d * t + d
      BY <1>1, <1>3, <3>1
    <3> QED
      BY <1>1, <1>4, <3>1, <3>2
  <2>2. CASE ~(s \div d > 1)
    <3>1. t = 1 /\ s \div d <= 1
      BY <1>2, <1>3, <2>2
    <3>2. d * (s \div d + 1) <= 2 * d
      BY <1>1, <1>3, <3>1
    <3> QED
      BY <1>1, <1>3, <3>1, <3>2
  <2> QED
    BY <2>1, <2>2
<1>7. s \div t < 2 * d
  <2> SUFFICES ASSUME s \div t >= 2 * d PROVE FALSE
    BY <1>1, <1>5
  <2>1. t * (s \div t) >= t * (2 * d)
    BY <1>1, <1>4, <1>5
  <2>2. t * (2 * d) = 2 * d * t
    BY <1>1, <1>4
  <2> QED
    BY <1>1, <1>4, <1>5, <1>6, <2>1, <2>2
<1>8. ASSUME NEW k \in Nat, k <= s \div t PROVE t * k <= s
  <2>1. t * k <= t * (s \div t)
    BY <1>4, <1>5, <1>8
  <2> QED
    BY <1>1, <1>4, <1>5, <2>1
<1>9. s + 1 <= Size => t = 1 /\ s \div t = s
  <2>1. ASSUME s <= d PROVE s \div d <= 1
    BY <1>1, <1>3, <2>1
  <2>2. ASSUME s <= d PROVE t = 1
    BY <1>2, <1>3, <2>1, <2>2
  <2>3. s \div 1 = s
    BY <1>1
  <2>4. s + 1 <= Size => s <= d
    BY <1>1, SizeBounds DEF d
  <2> QED
    BY <2>2, <2>3, <2>4
<1> QED
  BY <1>1, <1>4, <1>5, <1>7, <1>8, <1>9 DEF s, d, t

(* The grid has no more points than twice its cap.                         *)
LEMMA GridPointsBounded ==
  ASSUME Request, KeptTypeOK
  PROVE  GridPoints(sampled[1]) \in Nat /\ GridPoints(sampled[1]) <= 2 * (GridCount - 1)
<1> DEFINE v == sampled[1]
<1>1. v \in Vars /\ Size \in Nat /\ 2 <= Size /\ Size <= GridCount /\ GridCount \in Nat
  BY RequestNames, SizeBounds, SamplingAssumption
<1>2. Span(v) \in Int
  BY <1>1, SpanBounds
<1>3. CASE ~IsInteger(v)
  BY <1>1, <1>3 DEF GridPoints
<1>4. CASE IsInteger(v) /\ Span(v) < 0
  BY <1>1, <1>4 DEF GridPoints
<1>5. CASE IsInteger(v) /\ ~(Span(v) < 0)
  <2>1. Span(v) \div Stride(v) \in Nat /\ Span(v) \div Stride(v) + 1 <= 2 * (Size - 1)
    BY <1>1, <1>2, <1>5, StrideFacts
  <2>2. GridPoints(v) = Span(v) \div Stride(v) + 1
    BY <1>5 DEF GridPoints
  <2> QED
    BY <1>1, <2>1, <2>2
<1> QED
  BY <1>3, <1>4, <1>5

InBounds(point) ==
  \A v \in Range(sampled) :
    LET i == constraint[v].interval
        slack == IF IsInteger(v) THEN 0 ELSE Spill
    IN  i.lower # {} /\ i.upper # {} =>
          /\ \A l \in i.lower : Float[l] <= point[v]
          /\ \A u \in i.upper : point[v] <= Float[u] + slack
          /\ IsInteger(v) => Whole(point[v])

(* Bounds given on both sides are in order, as floats too.                 *)
LEMMA BoundsInOrder ==
  ASSUME KeptTypeOK, Ordered, NEW v \in Vars,
         constraint[v].interval.lower # {}, constraint[v].interval.upper # {}
  PROVE  Low(v) <= High(v)
<1>1. PICK l \in constraint[v].interval.lower, u \in constraint[v].interval.upper : ~(l > u)
  BY DEF Ordered, IntervalConflict
<1>2. l \in Universe /\ u \in Universe /\ Low(v) = Float[l] /\ High(v) = Float[u]
  BY FloatBounds
<1>3. l <= u
  BY <1>1, <1>2, ParserAssumption
<1> QED
  BY <1>2, <1>3, FloatAssumption

(* The float the grid has for the whole number at an index.                *)
GridNumber(i) == Float[4 * (LeastWhole(sampled[1]) + Stride(sampled[1]) * i)]

(* What one variable may be given: a whole number among those that lie     *)
(* within, or a float that is not past the ends but for rounding.          *)
Fits(v, n) ==
  /\ n \in Int
  /\ IsInteger(v) => Low(v) <= n /\ n <= High(v) /\ Whole(n)
  /\ ~IsInteger(v) /\ Low(v) <= High(v) => Low(v) <= n /\ n <= High(v) + Spill

(* A point whose values all fit is within the bounds that were given.      *)
LEMMA FitsIsWithin ==
  ASSUME Request, KeptTypeOK, Ordered, NEW point \in [Range(sampled) -> Int],
         \A v \in Range(sampled) : Fits(v, point[v])
  PROVE  point \in Points /\ InBounds(point)
<1>1. point \in Points
  BY DEF Points
<1>2. ASSUME NEW v \in Range(sampled), constraint[v].interval.lower # {},
             constraint[v].interval.upper # {}
      PROVE  LET i == constraint[v].interval
                 slack == IF IsInteger(v) THEN 0 ELSE Spill
             IN  /\ \A l \in i.lower : Float[l] <= point[v]
                 /\ \A u \in i.upper : point[v] <= Float[u] + slack
                 /\ IsInteger(v) => Whole(point[v])
  <2>1. v \in Vars /\ Fits(v, point[v])
    BY RequestNames
  <2>2. Low(v) \in Int /\ High(v) \in Int /\ Low(v) <= High(v) /\ Spill \in Nat
    BY <1>2, <2>1, SpanBounds, BoundsInOrder, FloatAssumption
  <2>3. /\ \A l \in constraint[v].interval.lower : Low(v) = Float[l]
        /\ \A u \in constraint[v].interval.upper : High(v) = Float[u]
    BY <2>1, FloatBounds
  <2> QED
    BY <2>1, <2>2, <2>3 DEF Fits
<1> QED
  BY <1>1, <1>2 DEF InBounds

(* A float between the ends fits.                                          *)
LEMMA BlendFits ==
  ASSUME KeptTypeOK, NEW v \in Vars, ~IsInteger(v), NEW n \in Blend(v)
  PROVE  Fits(v, n)
  BY ParserAssumption DEF Blend, Fits

(* A value of the grid fits.                                               *)
LEMMA GridWithin ==
  ASSUME Request, KeptTypeOK, Ordered, Len(sampled) = 1, NEW k \in Nat,
         k < GridPoints(sampled[1]), NEW n \in GridValues(sampled[1], k)
  PROVE  [w \in Range(sampled) |-> n] \in Points /\ InBounds([w \in Range(sampled) |-> n])
<1> DEFINE v == sampled[1]
<1>1. v \in Vars /\ Range(sampled) = {v}
  <2>1. DOMAIN sampled = {1}
    BY SamplingAssumption DEF Request
  <2> QED
    BY <2>1, RequestNames DEF Range
<1>2. Low(v) \in Int /\ High(v) \in Int /\ LeastWhole(v) \in Int /\ Span(v) \in Int
  BY <1>1, SpanBounds
<1>3. ASSUME IsInteger(v) PROVE Fits(v, n)
  <2>1. 0 <= Span(v) /\ k < Span(v) \div Stride(v) + 1
    BY <1>2, <1>3 DEF GridPoints
  <2>2. Stride(v) \in Nat /\ Span(v) \div Stride(v) \in Nat
    BY <1>1, <2>1, StrideFacts
  <2>3. k <= Span(v) \div Stride(v)
    BY <2>1, <2>2
  <2>4. Stride(v) * k \in Nat /\ Stride(v) * k <= Span(v)
    BY <1>1, <2>1, <2>2, <2>3, StrideFacts
  <2> DEFINE m == LeastWhole(v) + Stride(v) * k
  <2>5. n = Float[4 * m]
    BY <1>3 DEF GridValues
  <2>6. m \in Int /\ LeastWhole(v) <= m /\ m <= LeastWhole(v) + Span(v)
    BY <1>2, <2>4
  <2> HIDE DEF m
  <2>7. n \in Int /\ Low(v) <= n /\ n <= High(v) /\ Whole(n)
    BY <1>1, <2>5, <2>6, WholeFloats, ParserAssumption
  <2> QED
    BY <1>3, <2>7 DEF Fits
<1>4. ASSUME ~IsInteger(v) PROVE Fits(v, n)
  <2>1. n = Low(v) \/ n \in Blend(v)
    BY <1>4 DEF GridValues
  <2>2. Fits(v, Low(v))
    BY <1>2, <1>4, FloatAssumption DEF Fits
  <2> QED
    BY <1>1, <1>4, <2>1, <2>2, BlendFits
<1>5. Fits(v, n)
  BY <1>3, <1>4
<1>6. n \in Int
  BY <1>5 DEF Fits
<1> HIDE DEF v
<1> QED
  BY <1>1, <1>5, <1>6, FitsIsWithin

(* So does a value drawn at random.                                        *)
LEMMA DrawnWithin ==
  ASSUME Request, KeptTypeOK, Ordered, NEW point \in [Range(sampled) -> Universe],
         \A v \in Range(sampled) : point[v] \in Drawable(v)
  PROVE  point \in Points /\ InBounds(point)
<1>1. point \in [Range(sampled) -> Int]
  BY ParserAssumption
<1>2. ASSUME NEW v \in Range(sampled) PROVE Fits(v, point[v])
  <2>1. v \in Vars /\ point[v] \in Drawable(v) /\ point[v] \in Int
    BY <1>1, RequestNames
  <2>2. CASE IsInteger(v)
    <3>1. PICK k \in LeastWhole(v) .. Floor(High(v)) : point[v] = Float[4 * k]
      BY <2>1, <2>2 DEF Drawable
    <3>2. k \in Int /\ LeastWhole(v) <= k /\ k <= LeastWhole(v) + Span(v)
      BY <2>1, SpanBounds
    <3>3. Low(v) <= point[v] /\ point[v] <= High(v) /\ Whole(point[v])
      BY <2>1, <3>1, <3>2, WholeFloats
    <3> QED
      BY <2>1, <2>2, <3>3 DEF Fits
  <2>3. CASE ~IsInteger(v)
    BY <2>1, <2>3, BlendFits DEF Drawable
  <2> QED
    BY <2>2, <2>3
<1> QED
  BY <1>1, <1>2, FitsIsWithin

(* While points are tried, and when none refuted the relation: the grid is *)
(* that of the request, and what it gave so far has passed.                *)
Trying == phase \in {"sweep", "random"} \/ outcome = "evidence"

Swept ==
  IsInteger(sampled[1]) => \A k \in Nat :
    k < used /\ k < gridSize => [w \in Range(sampled) |-> GridNumber(k)] \in passed

SampleInv ==
  /\ phase # "parse" => stage = "accepted"
  /\ phase = "parse" => passed = {} /\ used = 0 /\ gridSize = 0
  /\ phase # "done" => outcome = "none"
  /\ phase = "sweep" => used <= gridSize
  /\ phase = "random" => gridSize <= used
  /\ Trying => /\ gridSize = IF Len(sampled) > 1 THEN 0 ELSE GridPoints(sampled[1])
               /\ Swept

(* Nothing has been tried at the start.                                    *)
LEMMA SampleInitInv ==
  ParserInit /\ SampleInit => Request /\ SampleTypeOK /\ SampleInv /\ SampledWithinBounds /\ GridIsBounded
<1> SUFFICES ASSUME ParserInit, SampleInit
             PROVE  Request /\ SampleTypeOK /\ SampleInv /\ SampledWithinBounds /\ GridIsBounded
  OBVIOUS
<1>1. Request
  BY DEF SampleInit, Request
<1>2. SampleTypeOK /\ SampledWithinBounds
  BY <1>1 DEF SampleInit, Request, SampleTypeOK, SampledWithinBounds
<1>3. SampleInv
  BY DEF SampleInit, SampleInv, Trying
<1>4. GridIsBounded
  BY <1>1, RequestNames, SamplingAssumption DEF SampleInit, GridIsBounded
<1> QED
  BY <1>1, <1>2, <1>3, <1>4

(* Steps that keep the constraints and the request keep the bounds, the    *)
(* grid and what may be drawn.                                             *)
LEMMA RequestIsFrozen ==
  ASSUME UNCHANGED <<parserVars, sampled, samples>>
  PROVE  /\ Points' = Points
         /\ \A point : InBounds(point)' <=> InBounds(point)
         /\ GridPoints(sampled[1])' = GridPoints(sampled[1])
         /\ IsInteger(sampled[1])' <=> IsInteger(sampled[1])
         /\ \A k : GridNumber(k)' = GridNumber(k)
<1>1. constraint' = constraint /\ sampled' = sampled /\ samples' = samples
  BY DEF parserVars
<1>2. Size' = Size /\ Points' = Points
  BY <1>1 DEF Size, Points
<1>3. \A v : Low(v)' = Low(v) /\ High(v)' = High(v) /\ (IsInteger(v)' <=> IsInteger(v))
  BY <1>1 DEF Low, High, IsInteger
<1>4. \A v : LeastWhole(v)' = LeastWhole(v) /\ Span(v)' = Span(v)
  BY <1>3 DEF LeastWhole, Span
<1>5. \A v : Stride(v)' = Stride(v)
  BY <1>2, <1>4 DEF Stride
<1>6. \A point : InBounds(point)' <=> InBounds(point)
  BY <1>1, <1>3 DEF InBounds
<1>7. GridPoints(sampled[1])' = GridPoints(sampled[1])
  BY <1>1, <1>2, <1>3, <1>4, <1>5 DEF GridPoints
<1>8. \A k : GridNumber(k)' = GridNumber(k)
  BY <1>1, <1>4, <1>5 DEF GridNumber
<1> QED
  BY <1>1, <1>2, <1>3, <1>6, <1>7, <1>8

SampledInv == Request /\ SampleTypeOK /\ SampleInv /\ SampledWithinBounds /\ GridIsBounded

(* A point that is within the bounds is tried: whether it passes or not,   *)
(* all that was said of the points before holds of them all.               *)
LEMMA CheckKeeps ==
  ASSUME SampledInv, NEW point \in Points, InBounds(point), Check(point),
         UNCHANGED <<parserVars, sampled, samples, gridSize>>, phase \in {"sweep", "random"}
  PROVE  /\ Request' /\ SampleTypeOK' /\ SampledWithinBounds'
         /\ used' = used + 1 /\ gridSize' = gridSize /\ stage' = stage
         /\ \/ phase' = phase /\ outcome' = "none" /\ passed' = passed \cup {point}
            \/ phase' = "done" /\ outcome' = "disproved"
<1>1. /\ used' = used + 1
      /\ \/ passed' = passed \cup {point} /\ UNCHANGED <<phase, outcome, witness>>
         \/ phase' = "done" /\ outcome' = "disproved" /\ witness' = {point} /\ passed' = passed
  BY DEF Check, Conclude
<1>2. outcome = "none"
  BY DEF SampledInv, SampleInv
<1>3. Request'
  BY DEF SampledInv, Request
<1>4. \A q \in passed' \cup witness' : q \in Points' /\ InBounds(q)'
  <2>1. \A q \in passed \cup witness : q \in Points /\ InBounds(q)
    BY DEF SampledInv, SampleTypeOK, SampledWithinBounds, InBounds
  <2>2. passed' \cup witness' \subseteq passed \cup witness \cup {point}
    BY <1>1
  <2> QED
    BY <2>1, <2>2, RequestIsFrozen
<1>5. SampledWithinBounds'
  BY <1>4 DEF SampledWithinBounds, InBounds
<1>6. SampleTypeOK'
  BY <1>1, <1>2, <1>3, <1>4 DEF SampledInv, SampleTypeOK, Request
<1> QED
  BY <1>1, <1>2, <1>3, <1>5, <1>6 DEF parserVars

(* A step that tries no point and reaches no verdict on one.               *)
LEMMA NoPointKeeps ==
  ASSUME SampledInv, UNCHANGED <<parserVars, sampled, samples, passed, used>>,
         gridSize' \in Nat, phase' \in {"sweep", "random", "done"},
         outcome' \in {"none", "evidence", "PARSE_REJECTED", "BACKEND_INTERNAL_ERROR"}, witness' = {}
  PROVE  Request' /\ SampleTypeOK' /\ SampledWithinBounds'
<1>1. Request'
  BY DEF SampledInv, Request
<1>2. \A q \in passed' \cup witness' : q \in Points' /\ InBounds(q)'
  BY RequestIsFrozen DEF SampledInv, SampleTypeOK, SampledWithinBounds, InBounds
<1>3. SampledWithinBounds'
  BY <1>2 DEF SampledWithinBounds, InBounds
<1> QED
  BY <1>1, <1>2, <1>3 DEF SampledInv, SampleTypeOK, Request

(* Every step of sampling keeps the invariant.                             *)
LEMMA SampledStep ==
  KeptTypeOK /\ Ordered /\ SampledInv /\ [SampleNext]_sampling => SampledInv'
<1> SUFFICES ASSUME KeptTypeOK, Ordered, SampledInv, [SampleNext]_sampling PROVE SampledInv'
  OBVIOUS
<1>0. /\ used \in Nat /\ gridSize \in Nat /\ samples \in Nat /\ GridCount \in Nat
      /\ Len(sampled) \in Nat \ {0} /\ Request
  BY RequestNames, SamplingAssumption DEF SampledInv, SampleTypeOK
<1>1. CASE ParserNext /\ UNCHANGED sampleVars
  <2>1. phase = "parse"
    BY <1>1, ParseOnlyBefore DEF SampledInv, SampleInv
  <2>2. passed = {} /\ witness = {} /\ outcome = "none"
    BY <2>1 DEF SampledInv, SampleInv, SampleTypeOK
  <2> QED
    BY <1>1, <2>1, <2>2 DEF SampledInv, Request, SampleTypeOK, SampleInv, SampledWithinBounds,
       GridIsBounded, sampleVars, Points, Trying
<1>2. CASE CannotSample \/ UnknownRelation \/ SamplingFails
  <2>1. /\ UNCHANGED <<parserVars, sampled, samples, gridSize, passed, used>>
        /\ phase' = "done" /\ witness' = {}
        /\ outcome' \in {"PARSE_REJECTED", "BACKEND_INTERNAL_ERROR"}
        /\ stage = "accepted" /\ stage' = stage
    BY <1>2 DEF CannotSample, UnknownRelation, SamplingFails, Conclude, SampledInv, SampleInv,
                parserVars
  <2>2. Request' /\ SampleTypeOK' /\ SampledWithinBounds'
    BY <1>0, <2>1, NoPointKeeps
  <2>3. SampleInv'
    BY <2>1 DEF SampleInv, Trying
  <2>4. GridIsBounded'
    BY <2>1 DEF SampledInv, GridIsBounded
  <2> QED
    BY <2>2, <2>3, <2>4 DEF SampledInv
<1>3. CASE BeginSweep
  <2>1. /\ UNCHANGED <<parserVars, sampled, samples, passed, used, outcome, witness>>
        /\ phase = "parse" /\ phase' = "sweep" /\ stage = "accepted" /\ stage' = stage
        /\ gridSize' = IF Len(sampled) > 1 THEN 0 ELSE GridPoints(sampled[1])
    BY <1>3 DEF BeginSweep, parserVars
  <2>2. used = 0 /\ outcome = "none" /\ witness = {}
    BY <2>1 DEF SampledInv, SampleInv, SampleTypeOK
  <2>3. gridSize' \in Nat /\ gridSize' <= 2 * (GridCount - 1)
    BY <1>0, <2>1, GridPointsBounded, SamplingAssumption
  <2>4. Request' /\ SampleTypeOK' /\ SampledWithinBounds'
    BY <2>1, <2>2, <2>3, NoPointKeeps
  <2>5. Swept'
    BY <2>1, <2>2 DEF Swept
  <2>6. gridSize' = IF Len(sampled') > 1 THEN 0 ELSE GridPoints(sampled[1])'
    BY <2>1, RequestIsFrozen
  <2>7. SampleInv'
    BY <2>1, <2>2, <2>3, <2>5, <2>6 DEF SampleInv
  <2>8. GridIsBounded'
    BY <1>0, <2>1, <2>2, <2>3 DEF GridIsBounded
  <2> QED
    BY <2>4, <2>7, <2>8 DEF SampledInv
<1>4. ASSUME SweepPoint PROVE SampledInv'
  <2>1. PICK n \in GridValues(sampled[1], used) : Check([v \in Range(sampled) |-> n])
    BY <1>4 DEF SweepPoint
  <2> DEFINE point == [v \in Range(sampled) |-> n]
  <2>2. /\ UNCHANGED <<parserVars, sampled, samples, gridSize>>
        /\ phase = "sweep" /\ used < gridSize
    BY <1>4 DEF SweepPoint
  <2>3. /\ gridSize = IF Len(sampled) > 1 THEN 0 ELSE GridPoints(sampled[1])
        /\ Swept
    BY <2>2 DEF SampledInv, SampleInv, Trying
  <2>4. Len(sampled) = 1 /\ gridSize = GridPoints(sampled[1])
    <3> DEFINE points == GridPoints(sampled[1])
               length == Len(sampled)
    <3> HIDE DEF points, length
    <3>1. length \in Nat \ {0} /\ gridSize = IF length > 1 THEN 0 ELSE points
      BY <1>0, <2>3 DEF points, length
    <3>2. length = 1 /\ gridSize = points
      BY <1>0, <2>2, <3>1
    <3> QED
      BY <3>2 DEF points, length
  <2>5. point \in Points /\ InBounds(point)
    BY <1>0, <2>2, <2>4, GridWithin
  <2>6. /\ Request' /\ SampleTypeOK' /\ SampledWithinBounds'
        /\ used' = used + 1 /\ gridSize' = gridSize /\ stage' = stage
        /\ \/ phase' = phase /\ outcome' = "none" /\ passed' = passed \cup {point}
           \/ phase' = "done" /\ outcome' = "disproved"
    <3>1. Check(point) /\ phase \in {"sweep", "random"}
      BY <2>1, <2>2
    <3> HIDE DEF point
    <3> QED
      BY <2>2, <2>5, <3>1, CheckKeeps
  <2>7. ASSUME passed' = passed \cup {point} PROVE Swept'
    <3> SUFFICES ASSUME IsInteger(sampled[1])', NEW k \in Nat, k < used', k < gridSize'
                 PROVE  ([w \in Range(sampled) |-> GridNumber(k)] \in passed)'
      BY DEF Swept
    <3>1. IsInteger(sampled[1]) /\ GridNumber(k)' = GridNumber(k) /\ sampled' = sampled
      BY <2>2, RequestIsFrozen
    <3>2. CASE k < used
      BY <2>2, <2>3, <2>7, <3>1, <3>2 DEF Swept
    <3>3. CASE k = used
      <4>1. n = GridNumber(k)
        BY <3>1, <3>3 DEF GridValues, GridNumber
      <4> QED
        BY <2>7, <3>1, <4>1
    <3> QED
      BY <1>0, <2>6, <3>2, <3>3
  <2>8. gridSize' = IF Len(sampled') > 1 THEN 0 ELSE GridPoints(sampled[1])'
    BY <2>2, <2>3, RequestIsFrozen
  <2>9. SampleInv'
    <3>1. stage' = "accepted"
      BY <2>2, <2>6 DEF SampledInv, SampleInv
    <3>2. used' <= gridSize'
      BY <1>0, <2>2, <2>6
    <3> HIDE DEF point
    <3> QED
      BY <2>2, <2>6, <2>7, <2>8, <3>1, <3>2 DEF SampleInv, Trying
  <2>10. GridIsBounded'
    <3>1. used' <= samples + gridSize
      BY <1>0, <2>2, <2>6
    <3> QED
      BY <2>2, <2>6, <3>1 DEF SampledInv, GridIsBounded
  <2> QED
    BY <2>6, <2>9, <2>10 DEF SampledInv
<1>5. CASE SweepEnds
  <2>1. /\ UNCHANGED <<parserVars, sampled, samples, gridSize, passed, used, outcome, witness>>
        /\ phase = "sweep" /\ phase' = "random" /\ used = gridSize /\ stage' = stage
    BY <1>5 DEF SweepEnds, parserVars
  <2>2. outcome = "none" /\ witness = {}
    BY <2>1 DEF SampledInv, SampleInv, SampleTypeOK
  <2>3. Request' /\ SampleTypeOK' /\ SampledWithinBounds'
    BY <1>0, <2>1, <2>2, NoPointKeeps
  <2>4. Swept'
    BY <2>1, RequestIsFrozen DEF SampledInv, SampleInv, Trying, Swept
  <2>5. gridSize' = IF Len(sampled') > 1 THEN 0 ELSE GridPoints(sampled[1])'
    BY <2>1, RequestIsFrozen DEF SampledInv, SampleInv, Trying
  <2>6. SampleInv'
    BY <1>0, <2>1, <2>2, <2>4, <2>5 DEF SampledInv, SampleInv
  <2>7. GridIsBounded'
    BY <2>1 DEF SampledInv, GridIsBounded
  <2> QED
    BY <2>3, <2>6, <2>7 DEF SampledInv
<1>6. ASSUME NEW point \in [Range(sampled) -> Universe], RandomPoint(point) PROVE SampledInv'
  <2>1. /\ UNCHANGED <<parserVars, sampled, samples, gridSize>>
        /\ phase = "random" /\ used - gridSize < samples /\ Check(point)
        /\ \A v \in Range(sampled) : point[v] \in Drawable(v)
    BY <1>6 DEF RandomPoint, Drawn
  <2>2. point \in Points /\ InBounds(point)
    BY <1>0, <2>1, DrawnWithin
  <2>3. /\ Request' /\ SampleTypeOK' /\ SampledWithinBounds'
        /\ used' = used + 1 /\ gridSize' = gridSize /\ stage' = stage
        /\ \/ phase' = phase /\ outcome' = "none" /\ passed' = passed \cup {point}
           \/ phase' = "done" /\ outcome' = "disproved"
    BY <2>1, <2>2, CheckKeeps
  <2>4. /\ gridSize = IF Len(sampled) > 1 THEN 0 ELSE GridPoints(sampled[1])
        /\ Swept /\ gridSize <= used
    BY <2>1 DEF SampledInv, SampleInv, Trying
  <2>5. ASSUME passed' = passed \cup {point} PROVE Swept'
    <3> SUFFICES ASSUME IsInteger(sampled[1])', NEW k \in Nat, k < gridSize'
                 PROVE  ([w \in Range(sampled) |-> GridNumber(k)] \in passed)'
      BY DEF Swept
    <3>1. IsInteger(sampled[1]) /\ GridNumber(k)' = GridNumber(k) /\ sampled' = sampled
      BY <2>1, RequestIsFrozen
    <3>2. k < used /\ k < gridSize
      BY <1>0, <2>3, <2>4
    <3> QED
      BY <2>4, <2>5, <3>1, <3>2 DEF Swept
  <2>6. gridSize' = IF Len(sampled') > 1 THEN 0 ELSE GridPoints(sampled[1])'
    BY <2>1, <2>4, RequestIsFrozen
  <2>7. SampleInv'
    <3>1. stage' = "accepted"
      BY <2>1, <2>3 DEF SampledInv, SampleInv
    <3>2. gridSize' <= used'
      BY <1>0, <2>3, <2>4
    <3> QED
      BY <2>1, <2>3, <2>5, <2>6, <3>1, <3>2 DEF SampleInv, Trying
  <2>8. GridIsBounded'
    <3>1. used' <= samples + gridSize
      BY <1>0, <2>1, <2>3
    <3> QED
      BY <2>1, <2>3, <3>1 DEF SampledInv, GridIsBounded
  <2> QED
    BY <2>3, <2>7, <2>8 DEF SampledInv
<1>7. CASE SamplesEnd
  <2>1. /\ UNCHANGED <<parserVars, sampled, samples, gridSize, passed, used>>
        /\ phase = "random" /\ phase' = "done" /\ outcome' = "evidence" /\ witness' = {}
        /\ used - gridSize >= samples /\ stage' = stage
    BY <1>7 DEF SamplesEnd, Conclude, Drawn, parserVars
  <2>2. Request' /\ SampleTypeOK' /\ SampledWithinBounds'
    BY <1>0, <2>1, NoPointKeeps
  <2>3. Swept'
    BY <2>1, RequestIsFrozen DEF SampledInv, SampleInv, Trying, Swept
  <2>4. gridSize' = IF Len(sampled') > 1 THEN 0 ELSE GridPoints(sampled[1])'
    BY <2>1, RequestIsFrozen DEF SampledInv, SampleInv, Trying
  <2>5. SampleInv'
    BY <2>1, <2>3, <2>4 DEF SampledInv, SampleInv
  <2>6. used = samples + gridSize
    BY <1>0, <2>1 DEF SampledInv, GridIsBounded
  <2>7. GridIsBounded'
    BY <2>1, <2>6 DEF SampledInv, GridIsBounded
  <2> QED
    BY <2>2, <2>5, <2>7 DEF SampledInv
<1>8. CASE UNCHANGED sampling
  <2>1. UNCHANGED <<parserVars, sampled, samples, gridSize, passed, used, outcome, witness, phase>>
        /\ stage' = stage
    BY <1>8 DEF sampling, sampleVars, parserVars
  <2>2. Swept' <=> Swept
    BY <2>1, RequestIsFrozen DEF Swept
  <2>3. SampleInv'
    BY <2>1, <2>2, RequestIsFrozen DEF SampledInv, SampleInv, Trying
  <2>4. SampledWithinBounds'
    BY <2>1, RequestIsFrozen DEF SampledInv, SampledWithinBounds, InBounds
  <2>5. Request' /\ SampleTypeOK' /\ GridIsBounded'
    BY <2>1, RequestIsFrozen DEF SampledInv, Request, SampleTypeOK, GridIsBounded
  <2> QED
    BY <2>3, <2>4, <2>5 DEF SampledInv
<1> QED
  BY <1>1, <1>2, <1>3, <1>4, <1>5, <1>6, <1>7, <1>8 DEF SampleNext, SampleStep, SampleOver

(* The invariants hold together.                                           *)
LEMMA SampledAlways == SampleSpec => [](KeptTypeOK /\ Ordered /\ SampledInv)
<1>1. ParserInit /\ SampleInit => KeptTypeOK /\ Kept /\ Ordered /\ SampledInv
  BY KeptInit, OrderedInit, SampleInitInv DEF SampledInv
<1>2. [SampleNext]_sampling => [ParserNext]_parserVars
  BY DEF SampleNext, SampleStep, SampleOver, CannotSample, BeginSweep, SweepPoint, SweepEnds,
         RandomPoint, UnknownRelation, SamplingFails, SamplesEnd, sampling
<1> QED
  BY <1>1, <1>2, KeptStep, OrderedStep, SampledStep, PTL DEF SampleSpec

(* Type correctness of sampling.                                           *)
THEOREM SampleTypeCorrect == SampleSpec => []SampleTypeOK
  BY SampledAlways, PTL DEF SampledInv

(* Within bounds given on both sides no point beyond them is tried or      *)
(* shown, for any bounds, numbers of samples and lists of variables.       *)
THEOREM SamplingStaysWithinBounds == SampleSpec => []SampledWithinBounds
  BY SampledAlways, PTL DEF SampledInv

(* The number of evaluations is bounded by the request and the cap.        *)
THEOREM SamplingIsBounded == SampleSpec => []GridIsBounded
  BY SampledAlways, PTL DEF SampledInv

(* When nothing refuted the relation and the grid could take every whole   *)
(* number, it took them all.                                               *)
LEMMA SweptIsAll == KeptTypeOK /\ SampledInv => SmallDomainsAreSwept
<1> DEFINE v == sampled[1]
           i == constraint[v].interval
           lower == IF i.lower = {} THEN {-Reach} ELSE i.lower
           upper == IF i.upper = {} THEN {Reach} ELSE i.upper
<1> SUFFICES ASSUME KeptTypeOK, SampledInv, outcome = "evidence", Len(sampled) = 1,
                    IsInteger(v), Span(v) + 1 <= Size,
                    NEW n \in Universe, Whole(n), Float[n] = n,
                    \A l \in lower : l <= n, \A u \in upper : n <= u
             PROVE  [w \in {v} |-> n] \in passed
  BY DEF SmallDomainsAreSwept
<1>1. Request /\ v \in Vars /\ Range(sampled) = {v} /\ samples \in Nat /\ used \in Nat
  <2>1. Request
    BY DEF SampledInv
  <2>2. DOMAIN sampled = {1}
    BY <2>1, SamplingAssumption DEF Request
  <2> QED
    BY <2>1, <2>2, RequestNames DEF Range, SampledInv, SampleTypeOK
<1>2. /\ Low(v) \in Int /\ High(v) \in Int /\ LeastWhole(v) \in Int /\ Span(v) \in Int
      /\ LeastWhole(v) = Ceiling(Low(v)) /\ Floor(High(v)) = LeastWhole(v) + Span(v)
  BY <1>1, SpanBounds DEF LeastWhole
<1>3. Low(v) <= n /\ n <= High(v)
  <2>1. Low(v) <= n
    <3>1. CASE i.lower = {}
      BY <1>1, <3>1, FloatBounds
    <3>2. CASE i.lower # {}
      <4>1. PICK l \in i.lower : l <= n
        BY <3>2
      <4>2. l \in Universe /\ Low(v) = Float[l]
        BY <1>1, FloatBounds
      <4> QED
        BY <4>1, <4>2, FloatAssumption
    <3> QED
      BY <3>1, <3>2
  <2>2. n <= High(v)
    <3>1. CASE i.upper = {}
      BY <1>1, <3>1, FloatBounds
    <3>2. CASE i.upper # {}
      <4>1. PICK u \in i.upper : n <= u
        BY <3>2
      <4>2. u \in Universe /\ High(v) = Float[u]
        BY <1>1, FloatBounds
      <4> QED
        BY <4>1, <4>2, FloatAssumption
    <3> QED
      BY <3>1, <3>2
  <2> QED
    BY <2>1, <2>2
<1>4. PICK whole \in Int : /\ n = 4 * whole /\ LeastWhole(v) <= whole
                          /\ whole <= LeastWhole(v) + Span(v) /\ 0 <= Span(v)
  <2> DEFINE m == n \div 4
  <2>1. n \in Int /\ m \in Int /\ n = 4 * m
    BY ParserAssumption DEF Whole
  <2>2. Ceiling(Low(v)) <= m /\ m <= Floor(High(v))
    <3> HIDE DEF m
    <3> QED
      BY <1>2, <1>3, <2>1 DEF Ceiling, Floor
  <2> HIDE DEF m
  <2> QED
    BY <1>2, <2>1, <2>2
<1>5. Stride(v) = 1 /\ Span(v) \div Stride(v) = Span(v)
  BY <1>1, <1>4, StrideFacts
<1>6. gridSize = Span(v) + 1 /\ Swept
  <2>1. gridSize = GridPoints(v) /\ Swept
    BY DEF SampledInv, SampleInv, Trying
  <2> QED
    BY <1>2, <1>4, <1>5, <2>1 DEF GridPoints
<1>7. used = samples + gridSize
  BY DEF SampledInv, GridIsBounded
<1> DEFINE k == whole - LeastWhole(v)
<1>8. k \in Nat /\ k < gridSize /\ k < used
  BY <1>1, <1>2, <1>4, <1>6, <1>7
<1>9. GridNumber(k) = n
  <2>1. LeastWhole(v) + Stride(v) * k = whole
    BY <1>2, <1>4, <1>5
  <2> HIDE DEF k
  <2> QED
    BY <1>4, <2>1 DEF GridNumber
<1>10. [w \in Range(sampled) |-> GridNumber(k)] \in passed
  <2> HIDE DEF k
  <2> QED
    BY <1>6, <1>8 DEF Swept
<1> QED
  BY <1>1, <1>9, <1>10

(* Evidence on a small integer domain is exhaustive, for any bounds and    *)
(* any number of samples.                                                  *)
THEOREM SmallDomainsAreSweptAlways == SampleSpec => []SmallDomainsAreSwept
  BY SampledAlways, SweptIsAll, PTL

-----------------------------------------------------------------------------
(* Terms: the budgets of an AST and the screens of a text hold for every   *)
(* limit and every input. Each invariant needs the other parts of TermsInv:*)
(* a node's depth is known from the calls in progress, a call's depth from *)
(* its place among them, and the limits from what was counted so far.      *)

LEMMA FiveScreens == Len(Screens) = 5
  BY DEF Screens

(* Nothing was walked, and a text has passed no screen.                    *)
LEMMA InitHolds == TermsInit => TermsInv
<1> SUFFICES ASSUME TermsInit PROVE TermsInv
  OBVIOUS
<1> DEFINE root(roots) == [path |-> <<>>, depth |-> 0, next |-> 1, arity |-> roots]
<1>1. PICK roots \in 0 .. MaxRoots :
        stack = IF given \cap {"ast", "z3"} = {} THEN <<>> ELSE <<root(roots)>>
  BY DEF TermsInit
<1>2. root(roots) \in Frame
  BY EmptySeq, TermsAssumption DEF Frame, Paths
<1>3. /\ stack \in Seq(Frame) /\ Len(stack) <= 1
      /\ \A i \in DOMAIN stack : i = 1 /\ stack[i] = root(roots)
  BY <1>1, <1>2
<1>4. walked \in Seq(Paths) /\ Len(walked) = 0 /\ DOMAIN walked = {}
  BY EmptySeq DEF TermsInit
<1>5. TermsTypeOK
  <2>1. \A i \in DOMAIN stack : Len(stack[i].path) = i - 1 /\ stack[i].depth = i - 1
    BY <1>3
  <2>2. Len(stack) <= MaxDepth + 2
    BY <1>3, LenProperties, TermsAssumption
  <2>3. given \subseteq {"text", "ast", "z3"} /\ faults \subseteq TextFaults
    BY DEF TermsInit
  <2>4. screened \in 0 .. Len(Screens) /\ evaluated \in BOOLEAN
    <3>1. screened = 0 /\ evaluated = FALSE
      BY DEF TermsInit
    <3>2. screened \in 0 .. Len(Screens)
      BY <3>1, FiveScreens
    <3>3. QED
      BY <3>1, <3>2
  <2>5. counter \in 0 .. MaxNodes + 1
    BY TermsAssumption DEF TermsInit
  <2>6. unsound \subseteq Paths /\ term \in {"none", "accepted"}
    BY DEF TermsInit
  <2>7. QED
    BY <1>3, <1>4, <2>1, <2>2, <2>3, <2>4, <2>5, <2>6 DEF TermsTypeOK
<1>6. WalkIsCounted
  BY <1>4, TermsAssumption DEF TermsInit, WalkIsCounted, WithinLimits
<1>7. TextIsScreened
  BY <1>1 DEF TermsInit, TextIsScreened
<1>8. QED
  BY <1>5, <1>6, <1>7 DEF TermsInv

-----------------------------------------------------------------------------
(* The calls in progress                                                   *)

(* What is known of the innermost call, and of the operand it would walk   *)
(* next: the operand is one deeper than its path is long.                  *)
LEMMA InnermostCall ==
  ASSUME TermsTypeOK, stack # <<>>
  PROVE  /\ Len(stack) \in Nat \ {0}
         /\ Top \in Frame /\ Top.depth = Len(stack) - 1
         /\ Here \in Paths /\ Len(Here) = Len(stack)
<1>1. Len(stack) \in Nat \ {0} /\ Len(stack) \in DOMAIN stack /\ Top \in Frame
  BY EmptySeq, LenProperties, ElementOfSeq DEF TermsTypeOK, Top
<1>2. Top.depth = Len(stack) - 1 /\ Len(Top.path) = Len(stack) - 1
  BY <1>1 DEF TermsTypeOK, Top
<1>3. Top.path \in Paths /\ Top.next \in Nat \ {0}
  BY <1>1 DEF Frame
<1>4. Here \in Paths /\ Len(Here) = Len(Top.path) + 1
  BY <1>3 DEF Here, Paths
<1>5. QED
  BY <1>1, <1>2, <1>4

(* Going on with the next operand leaves paths and depths as they are.     *)
LEMMA AdvancedCalls ==
  ASSUME TermsTypeOK, stack # <<>>
  PROVE  /\ Advanced \in Seq(Frame) /\ Len(Advanced) = Len(stack)
         /\ \A i \in 1 .. Len(stack) :
              /\ Advanced[i].path = stack[i].path
              /\ Advanced[i].depth = stack[i].depth
<1> DEFINE f == [Top EXCEPT !.next = @ + 1]
<1>1. Len(stack) \in 1 .. Len(stack) /\ stack \in Seq(Frame)
  BY InnermostCall DEF TermsTypeOK
<1>2. f \in Frame /\ f.path = Top.path /\ f.depth = Top.depth
  BY InnermostCall DEF Frame
<1>3. Advanced = [stack EXCEPT ![Len(stack)] = f]
  BY <1>1, InnermostCall DEF Advanced, Top
<1> HIDE DEF f
<1>4. /\ Advanced \in Seq(Frame) /\ Len(Advanced) = Len(stack)
      /\ \A j \in 1 .. Len(stack) : Advanced[j] = IF j = Len(stack) THEN f ELSE stack[j]
  BY <1>1, <1>2, <1>3, ExceptSeq
<1>5. QED
  BY <1>2, <1>4 DEF Top

(* The operand is added to what was walked.                                *)
LEMMA Entered ==
  ASSUME TermsTypeOK, stack # <<>>, Enter
  PROVE  /\ walked' \in Seq(Paths) /\ Len(walked') = Len(walked) + 1
         /\ DOMAIN walked' = 1 .. Len(walked) + 1
         /\ Len(walked) \in Nat /\ DOMAIN walked = 1 .. Len(walked)
         /\ walked'[Len(walked) + 1] = Here
         /\ \A i \in 1 .. Len(walked) : walked'[i] = walked[i]
<1>1. walked \in Seq(Paths) /\ Here \in Paths /\ walked' = Append(walked, Here)
  BY InnermostCall DEF TermsTypeOK, Enter
<1>2. QED
  BY <1>1, LenProperties

(* The innermost call returned: the others are in progress still.          *)
LEMMA Returned ==
  ASSUME TermsTypeOK, stack # <<>>, stack' = SubSeq(stack, 1, Len(stack) - 1)
  PROVE  /\ stack' \in Seq(Frame) /\ Len(stack') = Len(stack) - 1
         /\ \A i \in DOMAIN stack' : i \in DOMAIN stack /\ stack'[i] = stack[i]
<1>1. Len(stack) \in Nat \ {0} /\ DOMAIN stack = 1 .. Len(stack)
  BY InnermostCall, LenProperties DEF TermsTypeOK
<1>2. \A i \in 1 .. Len(stack) - 1 : stack[i] \in Frame
  BY <1>1, ElementOfSeq DEF TermsTypeOK
<1>3. /\ stack' \in Seq(Frame) /\ Len(stack') = Len(stack) - 1
      /\ \A i \in 1 .. Len(stack) - 1 : stack'[i] = stack[i]
  BY <1>1, <1>2, SubSeqProperties
<1>4. DOMAIN stack' = 1 .. Len(stack) - 1
  BY <1>3, LenProperties
<1>5. QED
  BY <1>1, <1>3, <1>4

-----------------------------------------------------------------------------
(* The steps of the text leave the walk alone, and those of the AST leave  *)
(* the text alone.                                                         *)

LEMMA TextSteps ==
  ASSUME TermsInv, Missing \/ PassScreen \/ EvaluateText
  PROVE  TermsInv'
<1> USE DEF TermsInv
<1>1. /\ UNCHANGED <<given, faults, walk>> /\ term = "none"
      /\ term' \in {"none", "accepted", "PARSE_REJECTED"}
  BY DEF Missing, PassScreen, EvaluateText, ReadsText
<1>2. Len(Screens) \in Nat
  BY FiveScreens
<1>3. screened' \in 0 .. Len(Screens) /\ evaluated' \in BOOLEAN
  <2>1. screened' = screened \/ (screened < Len(Screens) /\ screened' = screened + 1)
    BY DEF Missing, PassScreen, EvaluateText, text
  <2>2. screened' \in 0 .. Len(Screens)
    BY <1>2, <2>1 DEF TermsTypeOK
  <2>3. evaluated' = evaluated \/ evaluated' = TRUE
    BY DEF Missing, PassScreen, EvaluateText, text
  <2>4. evaluated' \in BOOLEAN
    BY <2>3 DEF TermsTypeOK
  <2>5. QED
    BY <2>2, <2>4
<1>4. TermsTypeOK'
  <2>1. UNCHANGED <<given, faults, stack, counter, walked, unsound>>
    BY <1>1 DEF walk
  <2>2. (given \subseteq {"text", "ast", "z3"})' /\ (faults \subseteq TextFaults)'
    BY <2>1 DEF TermsTypeOK
  <2>3. (term \in {"none", "accepted"} \cup TermErrors)'
    BY <1>1 DEF TermErrors
  <2>4. /\ (stack \in Seq(Frame) /\ Len(stack) <= MaxDepth + 2)'
        /\ (\A i \in DOMAIN stack :
              Len(stack[i].path) = i - 1 /\ stack[i].depth = i - 1)'
        /\ (counter \in 0 .. MaxNodes + 1)'
        /\ (walked \in Seq(Paths))'
        /\ (unsound \subseteq Paths)'
    BY <2>1 DEF TermsTypeOK
  <2>5. (screened \in 0 .. Len(Screens))' /\ (evaluated \in BOOLEAN)'
    BY <1>3 DEF Screens
  <2>6. QED
    BY <2>2, <2>3, <2>4, <2>5 DEF TermsTypeOK
<1>5. WalkIsCounted'
  BY <1>1 DEF WalkIsCounted, WithinLimits, walk
<1>6. TextIsScreened'
  <2>1. CASE Missing
    BY <2>1, <1>1 DEF TextIsScreened, Missing, text, walk
  <2>2. CASE PassScreen
    <3>1. screened' \in {screened, screened + 1} /\ screened \in Nat
      BY <2>2, <1>2 DEF PassScreen, TermsTypeOK
    <3>2. \A i \in 1 .. screened' : Screens[i] \notin faults
      <4>1. screened' = screened + 1 => Screens[screened + 1] \notin faults
        BY <2>2, <3>1 DEF PassScreen
      <4>2. \A i \in 1 .. screened : Screens[i] \notin faults
        BY DEF TextIsScreened
      <4>3. \A i \in 1 .. screened' : i \in 1 .. screened \/ (screened' = screened + 1 /\ i = screened + 1)
        BY <3>1
      <4>4. QED
        BY <4>1, <4>2, <4>3
    <3>3. ~evaluated' /\ term' # "accepted"
      <4>1. screened # Len(Screens)
        BY <2>2, <1>2, <3>1 DEF PassScreen
      <4>2. evaluated' = evaluated /\ term' \in {term, "PARSE_REJECTED"}
        BY <2>2 DEF PassScreen
      <4>3. QED
        BY <1>1, <4>1, <4>2 DEF TextIsScreened
    <3>4. QED
      BY <1>1, <3>2, <3>3 DEF TextIsScreened, walk
  <2>3. CASE EvaluateText
    BY <2>3, <1>1 DEF TextIsScreened, EvaluateText, ReadsText, walk
  <2>4. QED
    BY <2>1, <2>2, <2>3
<1>7. QED
  BY <1>4, <1>5, <1>6

(* A step of a walk changes nothing that TextIsScreened speaks of but the  *)
(* calls in progress, which a text never has.                              *)
LEMMA WalkLeavesText ==
  ASSUME TermsInv, stack # <<>>, UNCHANGED <<given, faults, text>>
  PROVE  TextIsScreened'
<1>1. "text" \notin given \/ "ast" \in given
  BY DEF TermsInv, TextIsScreened
<1>2. UNCHANGED <<given, faults, screened, evaluated>>
  BY DEF text
<1>3. QED
  BY <1>1, <1>2 DEF TermsInv, TextIsScreened

(* The node that is met is within the limits, and has been counted.        *)
LEMMA WalkSteps ==
  ASSUME TermsInv, BeyondBudget \/ UnsoundNode \/ Leaf \/ Operator
  PROVE  TermsInv'
<1> USE DEF TermsInv
<1>1. /\ stack # <<>> /\ term = "none" /\ Enter /\ UNCHANGED <<given, faults, text>>
      /\ UNCHANGED <<screened, evaluated>>
  BY DEF BeyondBudget, UnsoundNode, Leaf, Operator, MayEnter, Walks, Enter, text
<1>2. TextIsScreened'
  BY <1>1, WalkLeavesText
<1>3. /\ unsound = {} /\ counter = Len(walked) /\ Len(walked) <= MaxNodes
      /\ \A i \in DOMAIN walked : Len(walked[i]) <= MaxDepth + 1
  BY <1>1 DEF WalkIsCounted, WithinLimits
<1>4. /\ walked' \in Seq(Paths) /\ Len(walked') = counter + 1 /\ counter \in Nat
      /\ DOMAIN walked' = 1 .. counter + 1
      /\ walked'[counter + 1] = Here
      /\ \A i \in 1 .. counter : walked'[i] = walked[i] /\ i \in DOMAIN walked
  BY <1>1, <1>3, Entered
<1>5. /\ Top.depth = Len(stack) - 1 /\ Len(stack) \in Nat /\ Here \in Paths
      /\ Len(Here) = Len(stack) /\ Top \in Frame
  BY <1>1, InnermostCall
<1>6. MayEnter => (\A i \in DOMAIN walked' : Len(walked'[i]) <= MaxDepth + 1) /\ counter + 1 <= MaxNodes
  <2>1. MayEnter => Len(Here) <= MaxDepth + 1 /\ counter + 1 <= MaxNodes
    BY <1>4, <1>5, TermsAssumption DEF MayEnter, TooDeep, TooMany, Counted
  <2>2. \A i \in 1 .. counter + 1 : i \in 1 .. counter \/ i = counter + 1
    BY <1>4
  <2>3. QED
    BY <1>3, <1>4, <2>1, <2>2
<1>7. CASE BeyondBudget
  <2>1. UNCHANGED <<stack, unsound>> /\ term' = "INVALID_AST"
    BY <1>7 DEF BeyondBudget
  <2>2. ~WithinLimits'
    <3>1. CASE TooDeep
      <4>1. Len(walked'[counter + 1]) > MaxDepth + 1 /\ counter + 1 \in DOMAIN walked'
        BY <3>1, <1>4, <1>5, TermsAssumption DEF TooDeep
      <4>2. QED
        BY <4>1, <1>4, <1>5, TermsAssumption DEF WithinLimits
    <3>2. CASE ~TooDeep
      BY <3>2, <1>4, <1>7, TermsAssumption DEF WithinLimits, BeyondBudget, TooMany, Counted
    <3>3. QED
      BY <3>1, <3>2
  <2>3. WalkIsCounted'
    BY <1>3, <1>4, <2>1, <2>2, TermsAssumption DEF WalkIsCounted
  <2>4. counter' \in {counter, counter + 1}
    BY <1>7 DEF BeyondBudget, Counted
  <2>5. counter' \in 0 .. MaxNodes + 1
    BY <2>4, <1>3, <1>4, TermsAssumption, <1>7 DEF BeyondBudget, Counted
  <2>6. TermsTypeOK'
    BY <1>1, <1>4, <2>1, <2>5 DEF TermsTypeOK, TermErrors, Screens
  <2>7. QED
    BY <1>2, <2>3, <2>6
<1>8. CASE UnsoundNode
  <2>1. /\ UNCHANGED stack /\ unsound' = {Here} /\ counter' = counter + 1 /\ MayEnter
        /\ term' \in {"INVALID_AST", "BACKEND_INTERNAL_ERROR"}
    BY <1>8 DEF UnsoundNode, Counted
  <2>2. ~WithinLimits'
    BY <2>1 DEF WithinLimits
  <2>3. WalkIsCounted'
    BY <1>4, <1>6, <2>1, <2>2, TermsAssumption DEF WalkIsCounted
  <2>4. TermsTypeOK'
    BY <1>1, <1>4, <1>5, <1>6, <2>1, TermsAssumption DEF TermsTypeOK, TermErrors, Screens
  <2>5. QED
    BY <1>2, <2>3, <2>4
<1>9. CASE Leaf \/ Operator
  <2>1. /\ UNCHANGED <<unsound, term>> /\ counter' = counter + 1 /\ MayEnter
    BY <1>9 DEF Leaf, Operator, Counted
  <2>2. WithinLimits'
    BY <1>3, <1>4, <1>6, <2>1 DEF WithinLimits
  <2>3. WalkIsCounted'
    BY <1>1, <1>4, <1>6, <2>1, <2>2, TermsAssumption DEF WalkIsCounted
  <2>4. /\ stack' \in Seq(Frame) /\ Len(stack') <= MaxDepth + 2
        /\ \A i \in DOMAIN stack' : Len(stack'[i].path) = i - 1 /\ stack'[i].depth = i - 1
    <3>1. /\ Advanced \in Seq(Frame) /\ Len(Advanced) = Len(stack)
          /\ DOMAIN Advanced = 1 .. Len(stack)
          /\ \A i \in 1 .. Len(stack) :
               Len(Advanced[i].path) = i - 1 /\ Advanced[i].depth = i - 1
      BY <1>1, AdvancedCalls, LenProperties DEF TermsTypeOK
    <3>2. CASE Leaf
      BY <3>1, <3>2, <1>5 DEF Leaf, TermsTypeOK
    <3>3. CASE Operator
      <4>1. PICK arity \in 0 .. MaxChildren :
              stack' = Append(Advanced,
                              [path |-> Here, depth |-> Top.depth + 1, next |-> 1, arity |-> arity])
        BY <3>3 DEF Operator
      <4> DEFINE f == [path |-> Here, depth |-> Top.depth + 1, next |-> 1, arity |-> arity]
      <4>2. /\ f \in Frame /\ Len(f.path) = Len(stack) /\ f.depth = Len(stack)
        BY <1>5, TermsAssumption DEF Frame
      <4> HIDE DEF f
      <4>3. stack' = Append(Advanced, f)
        BY <4>1 DEF f
      <4>4. /\ stack' \in Seq(Frame) /\ Len(stack') = Len(stack) + 1
            /\ DOMAIN stack' = 1 .. Len(stack) + 1
            /\ stack'[Len(stack) + 1] = f
            /\ \A i \in 1 .. Len(stack) : stack'[i] = Advanced[i]
        BY <3>1, <4>2, <4>3, <1>5, LenProperties
      <4>5. Len(stack) + 1 <= MaxDepth + 2
        BY <2>1, <1>5, TermsAssumption DEF MayEnter, TooDeep
      <4>6. \A i \in 1 .. Len(stack) + 1 : i \in 1 .. Len(stack) \/ i = Len(stack) + 1
        BY <1>5
      <4>7. QED
        BY <1>5, <3>1, <4>2, <4>4, <4>5, <4>6
    <3>4. QED
      BY <1>9, <3>2, <3>3
  <2>5. TermsTypeOK'
    BY <1>1, <1>4, <1>6, <2>1, <2>4, TermsAssumption DEF TermsTypeOK, TermErrors, Screens
  <2>6. QED
    BY <1>2, <2>3, <2>5
<1>10. QED
  BY <1>7, <1>8, <1>9

(* A call returns, or what it made of its operands is no term.             *)
LEMMA ReturnSteps ==
  ASSUME TermsInv, Combine \/ CannotCombine \/ Built \/ CannotDeclare
  PROVE  TermsInv'
<1> USE DEF TermsInv
<1>1. /\ UNCHANGED <<given, faults, text, counter, walked>> /\ term = "none"
      /\ UNCHANGED <<screened, evaluated>>
      /\ term' \in {"none", "accepted"} \cup TermErrors
  BY DEF Combine, CannotCombine, Built, CannotDeclare, Returns, text, TermErrors
<1>2. WithinLimits /\ counter = Len(walked)
  BY <1>1 DEF WalkIsCounted
<1>3. CASE Combine \/ Built
  <2>1. /\ stack # <<>> /\ stack' = SubSeq(stack, 1, Len(stack) - 1)
        /\ UNCHANGED unsound /\ term' \in {"none", "accepted", "PARSE_REJECTED"}
        /\ term' = "accepted" => Built
    BY <1>3, <1>1 DEF Combine, Built, Returns
  <2>2. /\ stack' \in Seq(Frame) /\ Len(stack') = Len(stack) - 1
        /\ \A i \in DOMAIN stack' : i \in DOMAIN stack /\ stack'[i] = stack[i]
    BY <2>1, Returned
  <2>3. (stack \in Seq(Frame) /\ Len(stack) <= MaxDepth + 2)'
    BY <2>2, InnermostCall, <2>1, TermsAssumption DEF TermsTypeOK
  <2>4. TermsTypeOK'
    BY <1>1, <2>1, <2>2, <2>3 DEF TermsTypeOK, Screens
  <2>5. WalkIsCounted'
    BY <1>1, <1>2, <2>1 DEF WalkIsCounted, WithinLimits
  <2>6. TextIsScreened'
    BY <1>1, <2>1, WalkLeavesText
  <2>7. QED
    BY <2>4, <2>5, <2>6
<1>4. CASE CannotCombine \/ CannotDeclare
  <2>1. /\ UNCHANGED stack /\ term' \in {"INVALID_AST", "BACKEND_INTERNAL_ERROR"}
        /\ \E path \in Paths : unsound' = {path}
    <3>1. CASE CannotCombine
      <4>1. stack # <<>> /\ unsound' = {Top.path}
        BY <3>1 DEF CannotCombine, Returns
      <4>2. Top.path \in Paths
        BY <4>1, InnermostCall DEF Frame
      <4>3. QED
        BY <3>1, <4>1, <4>2 DEF CannotCombine
    <3>2. CASE CannotDeclare
      BY <3>2, EmptySeq DEF CannotDeclare, Paths
    <3>3. QED
      BY <1>4, <3>1, <3>2
  <2>2. TermsTypeOK'
    BY <1>1, <2>1 DEF TermsTypeOK, Screens
  <2>3. WalkIsCounted'
    BY <1>1, <2>1 DEF WalkIsCounted, WithinLimits
  <2>4. TextIsScreened'
    BY <1>1, <2>1 DEF TextIsScreened
  <2>5. QED
    BY <2>2, <2>3, <2>4
<1>5. QED
  BY <1>3, <1>4

-----------------------------------------------------------------------------

(* What the limits and the screens rest on: along every walk the nodes met *)
(* are counted, and a call stands as deep as its place says.               *)
THEOREM TermsInductive == TermsSpec => []TermsInv
<1>1. TermsInit => TermsInv
  BY InitHolds
<1>2. TermsInv /\ [TermsNext]_termVars => TermsInv'
  <2> SUFFICES ASSUME TermsInv, [TermsNext]_termVars PROVE TermsInv'
    OBVIOUS
  <2>1. CASE UNCHANGED termVars
    BY <2>1 DEF termVars, TermsInv, TermsTypeOK, WalkIsCounted, TextIsScreened, WithinLimits,
                Screens
  <2>2. CASE TermsOver
    BY <2>1, <2>2 DEF TermsOver
  <2>3. CASE TermsStep
    BY <2>3, TextSteps, WalkSteps, ReturnSteps DEF TermsStep
  <2>4. QED
    BY <2>1, <2>2, <2>3 DEF TermsNext
<1>3. QED
  BY <1>1, <1>2, PTL DEF TermsSpec

(* The calls in progress are at most the limit of the depth and two, the   *)
(* loop and the call that is refused, so the walk stays in Python's stack. *)
THEOREM TermsTypeCorrect == TermsSpec => []TermsTypeOK
<1>1. TermsInv => TermsTypeOK
  BY DEF TermsInv
<1>2. QED
  BY <1>1, TermsInductive, PTL

(* Both limits hold exactly, over all the constraints of a request.        *)
THEOREM BudgetsHold == TermsSpec => []BudgetsAreExact
<1>1. TermsInv => BudgetsAreExact
  BY DEF TermsInv, WalkIsCounted, BudgetsAreExact
<1>2. QED
  BY <1>1, TermsInductive, PTL

(* Nothing that a screen rejects is evaluated, nor a text beside an AST.   *)
THEOREM ScreensComeFirst == TermsSpec => []OnlyScreenedTextIsEvaluated
<1>1. TermsInv => OnlyScreenedTextIsEvaluated
  <2> SUFFICES ASSUME TermsInv PROVE OnlyScreenedTextIsEvaluated
    OBVIOUS
  <2>1. evaluated => faults \cap ScreenFaults = {} /\ "ast" \notin given
    <3> SUFFICES ASSUME evaluated
                 PROVE  faults \cap ScreenFaults = {} /\ "ast" \notin given
      OBVIOUS
    <3>1. \A i \in 1 .. 5 : Screens[i] \notin faults
      BY FiveScreens DEF TermsInv, TextIsScreened
    <3>2. \A s \in ScreenFaults : \E i \in 1 .. 5 : Screens[i] = s
      BY DEF ScreenFaults, Screens
    <3>3. QED
      BY <3>1, <3>2 DEF TermsInv, TextIsScreened
  <2>2. term = "accepted" /\ given = {"text"} => evaluated /\ faults = {}
    <3> SUFFICES ASSUME term = "accepted", given = {"text"}
                 PROVE  evaluated /\ faults = {}
      OBVIOUS
    <3>1. evaluated /\ faults \cap {"evaluation", "undefined"} = {}
      BY DEF TermsInv, TextIsScreened
    <3>2. QED
      BY <2>1, <3>1 DEF TermsInv, TermsTypeOK, TextFaults
  <2>3. QED
    BY <2>1, <2>2 DEF OnlyScreenedTextIsEvaluated
<1>2. QED
  BY <1>1, TermsInductive, PTL
=============================================================================
