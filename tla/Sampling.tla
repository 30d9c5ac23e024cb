------------------------------- MODULE Sampling -------------------------------
(***************************************************************************)
(* sample_relation of mpmath_backend.py, with _sampled and                 *)
(* _sampling_outcome of verification.py: a relation is looked for a point  *)
(* where it fails, on a grid and then at random, within the float_bounds   *)
(* of the constraints that normalize accepted. The relation holds, fails   *)
(* or has no number at any point, the same each time it is asked.          *)
(*                                                                         *)
(* Bounds are rationals and points are floats: Float rounds one to the     *)
(* other, as float() does, and a number n is a float when Float[n] = n.    *)
(***************************************************************************)
EXTENDS DomainParser

CONSTANTS
  SampleLists,   \* the lists of variables a client sends, which may repeat one
  SampleCounts,  \* min(samples, max_samples)
  Reach,         \* the bound 10 that stands for a missing one, as a number
  GridCount,     \* the 21 that caps the size asked of the grid
  Float,         \* the float nearest to each number of the Universe
  Spill          \* how far arithmetic on floats may go past an end of an interval

(* math.ceil and math.floor, of numbers that stand for n / 4.              *)
Ceiling(n) == -((-n) \div 4)
Floor(n) == n \div 4

(* What rounding to floats keeps: order, floats themselves and wholeness.  *)
(* The Universe has every whole number between any two of its numbers.     *)
ASSUME FloatAssumption ==
  /\ Float \in [Universe -> Universe] /\ Spill \in Nat
  /\ \A a, b \in Universe : a <= b => Float[a] <= Float[b]
  /\ \A n \in Universe : Float[Float[n]] = Float[n] /\ (Whole(n) => Whole(Float[n]))
  /\ Float[-Reach] = -Reach /\ Float[Reach] = Reach
  /\ \A a, b \in Universe : \A k \in Ceiling(a) .. Floor(b) : 4 * k \in Universe

ASSUME SamplingAssumption ==
  /\ SampleLists \subseteq Seq(Vars) \ {<<>>}
  /\ SampleCounts \subseteq Nat \ {0}
  /\ Reach \in Nat /\ {-Reach, Reach} \subseteq Universe
  /\ GridCount \in Nat \ {0, 1}

VARIABLES
  phase,       \* "parse", "sweep", "random", "done"
  sampled,     \* the list of variables
  samples,     \* how many random points are to be tried
  gridSize,    \* how many points the grid had
  passed,      \* the points tried that did not refute the relation
  used,        \* samples_used
  outcome,     \* "none", "disproved", "evidence" or an error code
  witness      \* the point reported, if there is one

sampleVars == <<phase, sampled, samples, gridSize, passed, used, outcome, witness>>
sampling == <<parserVars, sampleVars>>

SampleInit ==
  /\ phase = "parse" /\ sampled \in SampleLists /\ samples \in SampleCounts
  /\ gridSize = 0 /\ passed = {} /\ used = 0
  /\ outcome = "none" /\ witness = {}

-----------------------------------------------------------------------------
(* float_bounds                                                            *)

(* The values of a finite domain, open ends and predicates play no part.   *)
Low(v) ==
  IF constraint[v].interval.lower = {} THEN -Reach
  ELSE Float[CHOOSE l \in constraint[v].interval.lower : TRUE]

High(v) ==
  IF constraint[v].interval.upper = {} THEN Reach
  ELSE Float[CHOOSE u \in constraint[v].interval.upper : TRUE]

IsInteger(v) == constraint[v].kind = "integer"

LeastWhole(v) == Ceiling(Low(v))
Span(v) == Floor(High(v)) - LeastWhole(v)

(* lo + (hi - lo) * t for t from 0 to 1: the floats from one argument to   *)
(* the other, whichever is the larger, and a little past the second.       *)
Blend(v) ==
  {n \in Universe :
     /\ Float[n] = n
     /\ IF Low(v) <= High(v) THEN Low(v) <= n /\ n <= High(v) + Spill
                             ELSE High(v) - Spill <= n /\ n <= Low(v)}

(* Mutation of Drawable: the whole numbers are drawn from the real bounds. *)
Drawable_AsReal(v) == Blend(v)

(* What a random point can have for v; randint has nothing to choose from  *)
(* when no whole number lies within the bounds. What it chose becomes a    *)
(* float.                                                                  *)
Drawable(v) ==
  IF IsInteger(v) THEN {Float[4 * k] : k \in LeastWhole(v) .. Floor(High(v))} ELSE Blend(v)

-----------------------------------------------------------------------------
Conclude(result, point) == phase' = "done" /\ outcome' = result /\ witness' = point

(* _sampled: a side does not parse, the relation or the variables are      *)
(* missing or of the wrong form.                                           *)
CannotSample ==
  /\ phase = "parse" /\ stage = "accepted"
  /\ \E error \in {"PARSE_REJECTED", "BACKEND_INTERNAL_ERROR"} : Conclude(error, {})
  /\ UNCHANGED <<parserVars, sampled, samples, gridSize, passed, used>>

(* grid_count.                                                             *)
Size ==
  LET share == samples \div Len(sampled)
  IN  IF share < 2 THEN 2 ELSE IF share > GridCount THEN GridCount ELSE share

(* The step of an integer grid.                                            *)
Stride(v) == IF Span(v) \div (Size - 1) > 1 THEN Span(v) \div (Size - 1) ELSE 1

(* Mutation of GridPoints: range without the + 1.                          *)
GridPoints_HalfOpen(v) ==
  IF ~IsInteger(v) THEN Size ELSE IF Span(v) < 0 THEN 0 ELSE Span(v) \div Stride(v)

(* How many points _grid_points makes.                                     *)
GridPoints(v) ==
  IF ~IsInteger(v) THEN Size ELSE IF Span(v) < 0 THEN 0 ELSE Span(v) \div Stride(v) + 1

(* The value of the grid at index i: each Stride-th whole number, made a   *)
(* float, or the ends of a real interval, open or not, the second up to    *)
(* rounding, and floats in between.                                        *)
GridValues(v, i) ==
  IF IsInteger(v) THEN {Float[4 * (LeastWhole(v) + Stride(v) * i)]}
  ELSE IF i = 0 THEN {Low(v)}
  ELSE IF i < Size - 1 THEN Blend(v)
  ELSE {n \in Blend(v) : High(v) - Spill <= n /\ n <= High(v) + Spill}

(* The grid is swept when one variable is listed, once.                    *)
BeginSweep ==
  /\ phase = "parse" /\ stage = "accepted"
  /\ phase' = "sweep"
  /\ gridSize' = IF Len(sampled) > 1 THEN 0 ELSE GridPoints(sampled[1])
  /\ UNCHANGED <<parserVars, sampled, samples, passed, used, outcome, witness>>

(* check of sample_relation: the point refutes the relation, or it does    *)
(* not, because the relation holds or a side has no number there.          *)
Check(point) ==
  /\ used' = used + 1
  /\ \/ passed' = passed \cup {point} /\ UNCHANGED <<phase, outcome, witness>>
     \/ /\ point \notin passed
        /\ Conclude("disproved", {point}) /\ UNCHANGED passed

SweepPoint ==
  /\ phase = "sweep" /\ used < gridSize
  /\ \E n \in GridValues(sampled[1], used) : Check([v \in Range(sampled) |-> n])
  /\ UNCHANGED <<parserVars, sampled, samples, gridSize>>

SweepEnds ==
  /\ phase = "sweep" /\ used = gridSize
  /\ phase' = "random"
  /\ UNCHANGED <<parserVars, sampled, samples, gridSize, passed, used, outcome, witness>>

(* Mutation of Drawn: the sweep is taken to count as samples.              *)
Drawn_All == used

(* The random points tried so far.                                         *)
Drawn == used - gridSize

RandomPoint(point) ==
  /\ phase = "random" /\ Drawn < samples
  /\ \A v \in Range(sampled) : point[v] \in Drawable(v)
  /\ Check(point)
  /\ UNCHANGED <<parserVars, sampled, samples, gridSize>>

(* _holds raises ValueError on a relation it does not know, as soon as     *)
(* both sides have a number.                                               *)
UnknownRelation ==
  /\ (phase = "sweep" /\ used < gridSize) \/ (phase = "random" /\ Drawn < samples)
  /\ Conclude("BACKEND_INTERNAL_ERROR", {})
  /\ UNCHANGED <<parserVars, sampled, samples, gridSize, passed, used>>

(* randint raises ValueError.                                              *)
SamplingFails ==
  /\ phase = "random" /\ Drawn < samples
  /\ \E v \in Range(sampled) : Drawable(v) = {}
  /\ Conclude("BACKEND_INTERNAL_ERROR", {})
  /\ UNCHANGED <<parserVars, sampled, samples, gridSize, passed, used>>

(* No point refuted the relation: evidence, never a proof.                 *)
SamplesEnd ==
  /\ phase = "random" /\ Drawn >= samples
  /\ Conclude("evidence", {})
  /\ UNCHANGED <<parserVars, sampled, samples, gridSize, passed, used>>

SampleStep ==
  \/ CannotSample \/ BeginSweep \/ SweepPoint \/ SweepEnds
  \/ \E point \in [Range(sampled) -> Universe] : RandomPoint(point)
  \/ UnknownRelation \/ SamplingFails \/ SamplesEnd

SampleOver ==
  /\ phase = "done" \/ stage \in {"rejected", "malformed"}
  /\ UNCHANGED sampling

SampleNext == (ParserNext /\ UNCHANGED sampleVars) \/ SampleStep \/ SampleOver

SampleSpec == ParserInit /\ SampleInit /\ [][SampleNext]_sampling

-----------------------------------------------------------------------------
(* Properties                                                              *)

Points == [Range(sampled) -> Int]

SampleTypeOK ==
  /\ phase \in {"parse", "sweep", "random", "done"}
  /\ sampled \in SampleLists /\ samples \in SampleCounts
  /\ \A point \in passed \cup witness : point \in Points
  /\ gridSize \in Nat /\ used \in Nat
  /\ outcome \in {"none", "disproved", "evidence", "PARSE_REJECTED", "BACKEND_INTERNAL_ERROR"}
  /\ outcome = "disproved" <=> witness # {}

(* A variable whose domain is bounded on both sides is given no value      *)
(* beyond the floats nearest to its bounds, on the grid or at random, but  *)
(* for the rounding of a real upper end, and only whole values when its    *)
(* kind is integer. Where the bounds are floats themselves, a              *)
(* counterexample to a claim on integers is one within the closed bounds.  *)
SampledWithinBounds ==
  \A point \in passed \cup witness, v \in Range(sampled) :
    LET i == constraint[v].interval
        slack == IF IsInteger(v) THEN 0 ELSE Spill
    IN  i.lower # {} /\ i.upper # {} =>
          /\ \A l \in i.lower : Float[l] <= point[v]
          /\ \A u \in i.upper : point[v] <= Float[u] + slack
          /\ IsInteger(v) => Whole(point[v])

(* Evidence on a small integer domain is as good as exhaustion, as far as  *)
(* floats reach: when the one variable has no more whole numbers between   *)
(* the floats of its bounds than the grid has points, no whole number      *)
(* within the bounds refutes the relation, if it is a float. Those that    *)
(* are none (from 2^53 on) are passed over, and evidence is told all the   *)
(* same.                                                                   *)
SmallDomainsAreSwept ==
  outcome = "evidence" /\ Len(sampled) = 1 /\ IsInteger(sampled[1]) =>
    LET v == sampled[1]
        i == constraint[v].interval
        lower == IF i.lower = {} THEN {-Reach} ELSE i.lower
        upper == IF i.upper = {} THEN {Reach} ELSE i.upper
    IN  Span(v) + 1 <= Size =>
          \A n \in Universe :
            (/\ Whole(n) /\ Float[n] = n
             /\ \A l \in lower : l <= n
             /\ \A u \in upper : n <= u)
            => [w \in {v} |-> n] \in passed

(* README.md:358: disproved means that a strict counterexample was found.  *)
(* Here: the point that is shown is one that the client declared, within   *)
(* every domain and with every assumption that was sent for its variables. *)
SampledWitnessIsDeclared ==
  \A point \in witness, v \in Range(sampled) : Declared(v, point[v])

(* The work is bounded, whatever the domain: the grid has less than twice  *)
(* as many points as its cap, and samples_used counts every evaluation,    *)
(* those of the grid and those at random.                                  *)
GridIsBounded ==
  /\ gridSize <= 2 * (GridCount - 1)
  /\ used <= samples + gridSize
  /\ outcome = "evidence" => used = samples + gridSize
=============================================================================
