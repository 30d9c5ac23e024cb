# math-mcp: a verification project in TLA+

`math-mcp` is a local MCP server: a client sends a mathematical operation, the
server validates it, runs a handler in a sandboxed worker process or in its own
thread, and returns one structured `ToolResult` that says how certain the answer
is. This directory models the parts of it that carry control and decide what a
client is told, checks them with TLC on small instances, and proves the main
results with TLAPS for every value of the constants.

Paths below are relative to `src/src/math_mcp/` unless they say otherwise.

## 1. The system: inventory

| Component | State it keeps | Operations | What is hard |
| --- | --- | --- | --- |
| Subprocess runner (`runtime/subprocess_runner.py`, `runtime/limits.py`) | the cached sandbox probe; one child process with two pipes and a deadline | probe, choose a command, spawn, communicate, kill the group, drain, interpret | the deadline races the answer; processes that outlive the call; a stale probe; two encodings of a signal |
| Worker (`runtime/worker.py`) | none | read a request, run a handler, write one line | it may stop at any point, by itself or by a limit |
| Configuration (`config.py`) | environment of the process | `allow_no_sandbox`, `force_inprocess`, forced platform | switches that remove protection |
| Dispatcher (`tools/dispatch.py`, `tools/base.py`) | the lazily filled handler table | `run_operation`: gates, alias, route, collect, assemble, `_error_result` | order of the gates; failures through four representations; the audit trace |
| Status and errors (`status.py`, `errors.py`, `schemas.py`) | none | certainty ladder, codes | proved and disproved share a rank |
| Backend caveats (`backend_caveats.py`) | a table | `enforce` | sampled results told as proved |
| Registry (`operation_registry.py`) | tables of 99 specs and 15 aliases | `get_spec`, `resolve_alias`, `suggest_operations` | promises about handlers in other files; aliases that know nothing of states |
| Capabilities (`tools/capabilities.py`) | none | `get_capabilities`, in two modes | what is listed is decided apart from what is admitted |
| Handlers (`tools/*.py`) | none | one function for each operation | which certainty and method each may report |
| Expression parsers (`parsing/sympy_parser.py`, `parsing/z3_ast.py`) | a counter of nodes | `load_expression`, `expr_from_ast`, `parse_expression`, `build_term` | one budget through a recursion; a text is parsed twice, the second time with evaluation |
| Domain parser (`parsing/domain_parser.py`) | one constraint per variable while it reads | `normalize` | specs of one variable override each other; conflicts missed or invented |
| Finite exhaustion (`tools/discrete.py`, `tools/logic.py`) | loop variables | `finite_enumeration`, `finite_quantifier_check` | truncation of rational bounds, open ends, repeated names; verdicts that are "proved" |
| Sampling (`backends/mpmath_backend.py`) | loop variables, a seeded generator | `sample_relation` | which bounds are kept; rational bounds made floats; the size of the grid; evidence from points that do not exist |
| SMT tools (`tools/z3_tools.py`, `backends/z3_backend.py`) | none | `z3_satisfiability`, `z3_find_counterexample` | the domains are compared with the sorts and then dropped |
| Identity verification (`tools/verification.py`, `tools/trigonometry.py`) | loop variables | `check_identity`, `check_identity_constrained`, `trig_identity_check` | three ways to decide, each with its own idea of the points in question |
| Schema check (`schema_check.py`) | none | `validate_payload` | not modelled, section 7 |
| Server (`server.py`) | none | one MCP tool per group, all calling `run_operation` | none: synchronous tools are run one after the other by the MCP library |

How they interact: `server` calls `run_operation` or `get_capabilities`; the
dispatcher calls the registry, the schema check, the domain parser and then
either the runner (which talks to a worker over stdin and stdout, one JSON
document each way) or the handler directly; the worker calls `normalize` and the
same handler table; a handler loads its expressions through the parsers; the
outcome goes through the caveats into a `ToolResult`. The only shared state
between calls is the cached probe and the processes and environment of the host.

What makes each part correct:

- runner: a call ends; when it has ended nothing of it is still running; an
  answer is a whole one; a resource death is called one; isolation is told as
  it was; without a sandbox and without the switch nothing runs;
- dispatcher: nothing runs that a gate refuses; a failure keeps its code; the
  trace agrees with the call; every request is answered;
- certainty: never raised on the way out; sampling is never proof;
- registry and capabilities: what is suggested can be called; what is listed is
  what runs; no result is stronger than its entry in the registry allows;
- expression parsers: the budgets hold exactly; what a screen would refuse is
  not evaluated;
- domain parser: what is kept admits all that was declared; a conflict has a cause;
- finite exhaustion: a "proved" leaves no declared point out; the counts are right;
- sampling: points stay between the floats of their bounds; the floats of a small
  domain are swept whole; what is shown as a counterexample is one;
- SMT: a proof ranges over the declared domain;
- identities: whichever way decides, the verdict is one on the same claim.

`PROJECT.json` lists the hazards behind these, each at its line.

## 2. Modules

```
ToolService   <--implements--  Dispatch  --EXTENDS-->  Certainty
CallService   <--implements--  SubprocessRunner
                  Dispatch   --INSTANCE (Runner)-->  CallService
MathServer    --EXTENDS-->  Dispatch,   --INSTANCE (Sub)-->  SubprocessRunner
Catalog       --EXTENDS-->  Dispatch
MCDispatch    --EXTENDS-->  Dispatch
MCMathServer  --EXTENDS-->  MathServer
MCCatalog     --EXTENDS-->  Catalog, OperationTable, Handlers

FiniteCheck, Sampling, Smt  --EXTENDS-->  DomainParser
MCDomainTools  --EXTENDS-->  FiniteCheck, Sampling, Smt, Terms
MCFiniteCheck  --EXTENDS-->  FiniteCheck
MCSampling     --EXTENDS-->  Sampling
ClaimVerdict  <--implements--  IdentityCheck  <--EXTENDS--  MCIdentityCheck

SubprocessRunnerProofs  over SubprocessRunner
DispatchProofs          over Dispatch
CatalogProofs           over Catalog and DispatchProofs
MathServerProofs        over MathServer and CatalogProofs, with an
                        INSTANCE (SubP) of SubprocessRunnerProofs
DomainParserProofs      over DomainParser
FiniteCheckProofs       over FiniteCheck and DomainParserProofs
DomainToolsProofs       over Sampling, Smt, Terms and DomainParserProofs
IdentityCheckProofs     over IdentityCheck
```

**`CallService`** is the abstract specification of the runner, what the
dispatcher counts on: one call at a time, one reply or the server's death, and
no unsandboxed answer unless the server was started with the escape hatch.

**`SubprocessRunner`** is `run_in_subprocess` statement by statement (`pc`), the
launcher (bwrap or python), the worker, its output as a reader of the pipe sees
it, the clock, the kernel (`DieWithParent`), the host (`HostChanges`: bubblewrap
missing, broken, passing the probe only, usable) and the death and restart of
the server. `cache` is the `lru_cache` of `sandbox_available`; `isolated` is the
local `network_isolated`; `rc` is `Popen.returncode`, where bwrap reports a
signal as 128 + n. `PipesClosed` is the condition under which `communicate`
returns: nobody holds the write ends. The child of a bwrap is in its own session
(`--new-session`), so `killpg` does not reach the worker, and the model leaves
it to `--die-with-parent`, as the code does. Python ignores SIGXFSZ, so that
limit shows as an `OSError` in the worker and not as a death by signal.

**`Certainty`** is `status.py` and `backend_caveats.py` as operators.

**`Dispatch`** is `run_operation` on top of an instance of `CallService`. A
request is a name and a set of flaws; `Gates` lists the checks in the order of
the code with the code each raises (`InvalidInput` carries
`BACKEND_INTERNAL_ERROR`); the three kinds of flaw that `normalize` finds come
in the order the client sent them. A handler, in either place, returns any of
`Outcomes`, raises any of `HandlerErrors`, or does not return. A result carries the
set of `limits` that its trace calls enforced; `InForce` is the set that the child
of the call really had, which lacks memory for the calls in `Uncapped`, those for
which the host refuses RLIMIT_AS and `limits.py:67` lets it pass. The server never
learns of `Uncapped`: it is a constant that `Trace` does not use.

**`ToolService`** is what a client may rely on, with no gate, route, handler or
worker in sight: one request at a time; when it comes in, its content and the
server's switches settle which results it may get; it gets one of them, once,
unless the server dies under it. `MayGet` of `Dispatch` says which those are: the
error of a first gate that the request does not pass; or an error of the handler,
or, on the way through the sandbox, of the runner; or a result no more certain
than an outcome of the operation, within the size limit, with the trace of its
route, and unisolated only where a switch allows it.

**`MathServer`** is the server as it runs: `run_operation` of `Dispatch` on the very
`run_in_subprocess` of `SubprocessRunner`, with its processes, clock and host, in
place of the promise of `CallService`. Dispatcher and runner are one thread: a
call is a step of both (`Calls`), while it is under way only the runner moves
(`Waits`), a death of the process ends both (`Dies`). `at` is where the runner
stands, `pc` where `run_operation` does. Here a property can speak of a result
and of the processes behind it at once.

**`Catalog`** puts the registry's promises beside the dispatcher that has to keep
them: `MathCapabilities` is `get_capabilities`, `RefuseByName` an error with
`suggest_operations`; difflib's opinion of which names resemble one another is
left open (`keys`, `ops`). `OperationTable` is the table of `_build_specs` and the
aliases, and `Handlers` the outcomes that the handler of each of the 99
operations can come to, read from its code: certainty, method, kind and backend
of every `return`.

**`DomainParser`** is `normalize`, one DomainSpec or AssumptionSpec a step. A
number n of the model is the rational n/4, enough for bounds that are not whole;
an optional bound is a set of at most one number; the values of a finite domain
are a list, since they may repeat. `rational` and `complex` domains are treated
by the code as `real` is and are not told apart. `declared` and `assumed` are
history variables: what the client said.

**`FiniteCheck`** runs the two exhaustive operations on the constraints that
`normalize` accepted. The predicate has any truth value at any assignment, the
same whenever it is asked. `names` is a list that may repeat a name for
`finite_enumeration`; the quantifiers make a set of it first. The order of the
combinations is left open.

**`Sampling`** is `sample_relation` on the same constraints: `float_bounds`, which
drops finite values, open ends and predicates; the grid of whole or evenly
spaced points with its floored stride; the random points; `samples_used`; and the
verdict that `_sampling_outcome` makes of it. The points are floats and the bounds
are not: `Float` maps each number to the float nearest to it, and is known only by
what rounding keeps (`FloatAssumption`): order, floats themselves, wholeness. A
bound goes through it, and so does each whole number of an integer grid or of
`randint`. A real point, on the grid or at random, is any float from one end to the
other (`Blend`), and past the second end by up to `Spill`, for
`lo + (hi - lo) * t` is rounded.

**`Smt`** compares the sorts of a request with the domains that `normalize` kept
and lets Z3 give any of its three answers that the sorts allow. Its `Malformed`
stands for all that `Terms` does to a z3 request.

**`Terms`** is how an input becomes a term: the screens of a text in the order of
`parse_expression`, and the walk through an AST, shared by `_ast_node` and
`build_term`, as a stack of the calls in progress. The AST is chosen as it is
walked, so every AST within the bounds on roots and operands is met. A node is
its path; the length of the path is the depth the properties speak of, the
number that the calls hand down is another.

**`IdentityCheck`** abstracts the two sides of an identity to the points where
they differ, the constraints to the points where they hold, and a
parameterization to the points its choices map to (`pointOf`); `mode` is which of
the three ways is taken. **`ClaimVerdict`** is what all of them promise.

Names of mutated operators (`KillGroup_Misses`, ...) belong to the project: each
is a plausible mistake in the code it is named after, and shows that a property
would notice.

## 3. Runs

| Run | Checks | Instance |
| --- | --- | --- |
| `runner_safety` | safety of the runner; that the thread, the clock and the kernel can each take its step where it is due (`NobodyWaitsInVain`); and where the claim of `runner_sandbox_claim` does hold (`SteadySandboxIsBuilt`) | 2 calls, 1 change of the host, 1 crash |
| `runner_live` | `EveryCallEnds`, `SandboxedOrphansDie`, and that the runner implements `CallService` with its liveness | 2 calls, 1 crash, a fixed host |
| `runner_sandbox_claim` | violation: a sandbox that passes the probe and cannot be built | 1 call |
| `dispatch_safety` | admission, trace, the runner's verdicts, the caveats (`CertaintyIsWarranted`), that its thread is never stuck (`ThreadIsNeverStuck`), `RoutedRequestsEnd`, and that the dispatcher implements `ToolService` (`AnswersAsPromised`) | 2 requests, 1 flaw each, 4 operations, an alias and an unknown name; four outcomes that differ in all the dispatcher looks at |
| `server_safety` | the server's inductive invariant, with those of dispatcher and runner in it; processes and results against each other (`ProcessesHaveTheirRequest`, `ResultsAreBacked`); that they do not hold each other up (`ServerIsNeverStuck`); and that the server implements the dispatcher's specification | 2 requests, 2 operations, one for each route; 1 crash, a fixed host |
| `catalog` | `SuggestedIsCallable`, `ListingMatchesTheDispatcher`, `MaxCertaintyIsKept`, `ProofModesAreDeclared` | the real registry, aliases and handlers, 4 mistaken names, 1 request |
| `domain_tools` | the domain parser with exhaustion, sampling and SMT, and where the claim of `shown_claim` does hold; the making of terms | variables x (up to 2 specs or 1 spec and 1 assumption) and y; bounds -3/2, 0, 2; a universe of halves and whole numbers from -2 to 5/2, of which some are no floats; `MaxSpace` 4; at most 4 nodes, depth 2, 2 constraints |
| `all_satisfy_claim`, `shown_claim`, `sampled_claim` | violations, section 6 | 1 variable |
| `identity` | the verdicts of the three ways, the inductive invariant, and that they implement `ClaimVerdict` | 3 points, 2 samples, points are alike (symmetry) |
| `identity_surface_claim` | violation: a proof on a part of the constraint surface | 3 points |

Why the bounds are enough to meet the cases. A second call is needed to reuse a
cached probe and to meet what a first one left behind; one change of the host
makes the cache stale; one crash orphans a worker and restarts the server with an
empty cache. Two requests meet each other only through the runner and its call
numbers; one flaw is enough for each gate, and which of two flaws wins is a
question about error texts. The excerpt of the registry in `dispatch_safety` has
one operation per route, backend and caveat the dispatcher tells apart; in
`catalog` the whole table is there, requests do not meet one another and one is
enough, and four operations are put in the states `disabled`, `experimental` and
`deprecated`, in which no operation is today, since the code has branches for
them. Domains of one variable do not interact with another's; two specs are
needed for an override, and bounds below, at and above zero, one of them not
whole, for truncation. The universe reaches past every bound and has a number
between any two; a grid of three points has an inside, and `Reach` 8 (the number
2) stands for the 10 that replaces a missing bound. `MCFloat` has the cases that
decide: the bound -3/2 is no float and rounds outwards to -2, nor is the whole
number -1 a float, and an upper end may be passed by a half (`Spill`). In the code
such whole numbers begin at 2^53; the model has them near zero. In `sampled_claim`
every number is a float, so that rounding plays no part in the counterexample. In
`dispatch_safety` and `server_safety` the host refuses RLIMIT_AS to the second call
and not to the first. The constraint `Explored` of `domain_tools` leaves out only
products of what is there on its own: two specs together with a predicate for
`exists`, a second variable with open ends, three random points in two variables.
It is a constraint on inputs, which never change once read. Four nodes and depth 2 are
the smallest limits at which each can be passed without the other, by one
constraint or by two together. Three points are needed for an image that is a
proper part of a surface and has a feasible and an infeasible point. What the
bounds leave open is settled by the proofs, which have none.

The run `server_safety` leaves the flaws of requests to the dispatcher's
(`MaxFlaws = 0`): a refused request calls no runner. `OneHandlerError` keeps one of
the error codes that only a handler raises, which are alike to the server, beside
those the runner raises as well. A change of the host is left to `runner_safety`
and the proofs.

The type invariants of the runner, the dispatcher and the identity checks are
conjuncts of the inductive invariants that `server_safety` (for the dispatcher and
the runner) and `identity` check. Those of the other modules, and `AnswersAreWhole`,
`LateAnswerNeverWins`, `NothingRunsBehindAResult` and
`ResourceDeathsReachTheClient` have a theorem and no run of their own.

Deadlock is checked in every run; the end of a behaviour is an explicit stuttering
action (`ClientIsDone`, `Over`, `SampleOver`, `SmtOver`, `TermsOver`).

## 4. Fairness

`SubprocessRunner`: weak fairness of the server thread once a call began (it is
an ordinary thread), of the clock (`DeadlinePasses`), and of `DieWithParent` (the
kernel delivers the parent-death signal). Nothing is assumed of the worker,
which may compute for ever, of bubblewrap, of the host, or of the client.
`EveryCallEnds` therefore holds because of the deadline and the kill alone. The
signal is fair for each call (`KernelKeepsItsWord`) and for the one in progress
(`CurrentDies`). The second says nothing new, since calls are bounded; it is there
for the proof, which cannot conclude from the many what holds of whichever is
current.

`Dispatch`: weak fairness of the dispatcher's own steps, and `CallsEnd` of the
runner, which `runner_live` shows the runner to provide. Nothing is assumed of a
handler that runs in the server's thread: the code gives it neither a timeout
nor a limit, and `RoutedRequestsEnd` does not speak of it.

`MathServer`: `ServerSpec` states the same of the server's one thread, in the
dispatcher and in the runner, of the clock and of the kernel's parent-death
signal. That the composed server keeps `CallsEnd` and `RoutedRequestsEnd` under it is
proved (`ServerCallsEnd`, `ServerRequestsEnd`); the runs check the one of the runner
and the other of the dispatcher with `CallsEnd`.

The other modules have safety properties only: their loops run in a worker, where
the deadline ends them, or in the server's thread, where nothing would.

## 5. Proofs

Every property of the passing runs is proved but three, which speak of ENABLED and
are the premises under which liveness is proved (below). All theorems are for any
values of the constants that satisfy the named assumptions of the modules
(positive bounds, a registry that is a function into specs, aliases that point to
operations and shadow none, bounds that are numbers of the universe, predicates
that are supported ones).

- **`SubprocessRunnerProofs`**: `IInv` is inductive. None of the properties is by
  itself: that no process outlives its call needs to know that a running process
  belongs to the call in progress or to a dead server, that a call about to be
  interpreted has closed pipes, and that a killed bwrap's worker is still counted
  as running until it died; that answers are whole needs the relation between the
  return code of the launcher and the death of the worker. From it follow
  `NoProcessOutlivesItsCall`, `IsolationIsTold`, `AnswersAreWhole`,
  `ResourceDeathsAreNamed`, `LateAnswerNeverWins`, and that the runner implements
  `Service!Safety` (`phase` is a function of `pc`; every step maps to a step of
  `CallService` or a stutter). `SteadySandboxBuilt` adds `Steady` to it: while
  bubblewrap has not changed, the cache is what a probe would answer today, and a
  bwrap that was started builds its sandbox.
- **`DispatchProofs`**: `IInv` says that dispatcher and runner agree on who is busy
  with which call (`InStep`), that the future is blank, and that a request went
  where the registry sent it (`Routed`). From it follow types, admission, the
  trace (`LimitsTold`: all three flags behind a call, none without one, whatever the
  set `Uncapped`) and the runner's verdicts. `CertaintyWarranted` rests on
  `WeakestExists` and `EnforceOnlyWeakens`, facts about the caveats for every set of
  them. `ServesClients` is the refinement of `ToolService`: a request that is not admissible meets a first gate
  (`RefusalExists`), so that there is always something it may get
  (`ThereIsAnAnswer`); that what is assembled was promised needs `Routed`, the
  runner's `Permitted`, and that the outcome is one of the operation that the
  request resolved to (`OutcomeIsReported`).
- **`MathServerProofs`** puts the two together. `ServerInv` is the invariant of the
  dispatcher, the invariant of the runner and their agreement on whether a call is
  under way. It is inductive because each half was: a step of the server is a step
  of the dispatcher (`DispatcherStep`), for which `Waits` needs that the runner
  implements `CallService`, and it is a step of the runner. The runner's lemmas are
  cited through an instance of their module, `SubP`; the lemmas `Same...` say that
  its definitions are those of `Sub`. `ServerImplementsDispatch` then carries what
  was proved of the dispatcher over to the server, `ServerServesClients` among it:
  the circle from a client's promise to processes and signals is closed with no
  promise left to assume. What relates results to processes follows from both
  halves (`NothingRunsBehind`, `ProcessesHaveRequests`, `ResultsBacked`,
  `ResourceDeathsReach`).
- **`CatalogProofs`**: every run of the catalog is one of the dispatcher
  (`CatalogImplementsDispatch`), so its invariant carries over and its promise to
  the client with it (`CatalogServesClients`). `SuggestionsCanBeCalled` and `ListingIsTrue` hold for
  any registry, in any states. `CertaintyStaysBounded` and
  `StrictVerdictsAreDeclared` have the premise `HandlersAreHonest`, that no handler
  returns more than its entry promises, and say that aliases, routes and caveats
  preserve it; that the handlers of this repository are honest is what the run
  `catalog` adds, on the real table. They are proved of the dispatcher
  (`PromiseIsKept`), so that `ServerKeepsItsRegistry` can say the same of the server
  with its processes.
- **`DomainParserProofs`**: `Kept` traces every part of a constraint to a spec that
  was declared, through any number of overrides; so whatever all specs allow is
  within what was kept (`NothingDeclaredIsLost`). In the other direction, `Sent`
  says that what is compared was sent, so a refusal has a cause
  (`NoConflictIsInvented`), with one lemma for each of the checks. The cause is not
  always that no value is left: for two specs of one variable, `MergedBounds` says
  which spec each kept bound and each kept end comes from, and `SpecConflict` that
  what they cannot share a value for is a difference in kind or an end opened by a
  spec that does not bound it. For signs over
  the reals the comparison misses nothing either: `Reconciled` says what each check
  has left of bounds and signs, and `RoomBetweenBounds` that a number fits between
  them (`SignConflictsAreFound`).
- **`FiniteCheckProofs`**: on top of it, a list built with `int()` and `range`
  contains every whole number between two rational bounds (`WholeNumbersComplete`),
  hence every declared assignment is one of the product (`DeclaredIsCombined`), and
  the loop evaluates all of the product before it ends without an answer:
  `ExhaustionLeavesNothingOut`. `EnumerationCountsAreExact` needs that the product
  is finite (`ListsAreFinite`, `ProductsAreFinite`) and has `total` elements.
  `InwardWitnessesAreDeclared` is the converse of `ExhaustionLeavesNothingOut`
  where it holds: bounds that are cut inwards (`WholeNumbersInward`) list only what
  was declared, so every witness is one.
- **`DomainToolsProofs`**: `SmtProofsCoverTheDomain` from `Kept` and the table of
  sorts. For sampling, `StrideFacts` bounds the floored stride, from which
  `GridPointsBounded` bounds the grid and `SweptIsAll` shows that a stride of one
  leaves no whole number out that is a float; `GridWithin` and `DrawnWithin` place
  every point. They use of floats what `FloatAssumption` states and no more:
  rounding keeps order, so a bound that became a float stays on its side of every
  float (`FloatBounds`), and keeps whole numbers whole (`RoundingToWhole`).
  For terms, `TermsInv` ties the depth that is handed down to the place of a call
  in the stack and to the length of its path, and the counter to the nodes met; the
  limits follow (`BudgetsHold`), and `ScreensComeFirst` from the screens passed so
  far.
- **`IdentityCheckProofs`**: `IdentityInv` says what each step may rely on and what
  a search has seen (`Searched`). From it follow `ProofsHold`, `EvidenceIsEarned`
  and that all three ways implement `ClaimVerdict` (`IdentityImplementsClaim`).

### Liveness

No prover here can work out what ENABLED means. Weak fairness is used in a proof
all the same: what it takes is that, while an actor is due, its step is enabled.
That is a state predicate, and TLC checks it as an invariant in every state of an
instance: `NobodyWaitsInVain` of the runner's thread, clock and kernel,
`ThreadIsNeverStuck` of the dispatcher's thread, `ServerIsNeverStuck` of the whole
server. The theorems of liveness have it as a premise, `[]NobodyWaitsInVain` and so
on, and prove the rest for every value of the constants:

- who is due: `NoCallIsStuck` says, with no premise, that while a call is under way
  the thread, the clock or the kernel owes it a step. `CallInv` is the invariant it
  needs: a deadline is set while `communicate` waits, and from the kill on the child
  is dead, so that what still holds a pipe is a worker in a sandbox that is to die;
- that each step leads on: `StageStep` says what any step can do to the stage of a
  call, and a lemma for each stage follows it until the next. `communicate` ends
  because the pipes close or the deadline passes, the drain because the kernel
  ends what the kill left;
- the chain of them: `CallsAlwaysEnd` and `OrphansDie`, and with
  `RunnerImplementsService` the whole of `CallService` (`RunnerKeepsItsPromise`).
  `RequestsEnd` is the same for the dispatcher, with the runner's promise for the
  stage in which it waits. In `MathServerProofs` that promise is no premise:
  `ServerCallsEnd` proves it of the composed server, for `ServerRequestsEnd`.

Model-checked only: the three premises about ENABLED, on the instances of their
runs. The mutants of the first and the last are a probe without its timeout, which
would hold up the server for ever.

## 6. What the checks found

Five runs end in a violation: the code does something else than a line of the
repository says.

1. `runner_sandbox_claim`: the probe asks less of bubblewrap than a call does. When
   the sandbox of a call cannot be built the client gets `BACKEND_INTERNAL_ERROR`,
   where `runtime/subprocess_runner.py:7-8` promises `SANDBOX_UNAVAILABLE`. Nothing
   runs unsandboxed: `IsolationIsTold` holds. A probe that tells the whole truth,
   on a host that stays as it is, keeps the promise: `SteadySandboxIsBuilt`.
2. `sampled_claim`: sampling takes two floats from the constraints and nothing else.
   A variable assumed positive is sampled on [-10, 10] and a claim about positive
   numbers is disproved at a negative one; so are claims about an open interval at
   its ends, and claims about listed values at numbers that are not listed. What
   does hold is `SampledWithinBounds`.
3. `all_satisfy_claim`: a name given twice makes `total` and the number of
   evaluations differ, and `all_satisfy` can be told when some failed.
4. `shown_claim`: a counterexample may lie outside the declared domain, because
   bounds are cut towards zero and open ends are ignored. The positive verdicts are
   not affected, which is `ExhaustionIsSound`; nor are witnesses within closed
   whole bounds or fractions on both sides of zero: `InwardShownIsDeclared`.
5. `identity_surface_claim`: the certificate of `tools/verification.py:313` speaks of
   the constraint surface, the proof is about the part of it that the substitution
   reaches. On that part it is right, which is `ProofHoldsOnImage`.

More that a reader should know, each stated in a property as an exception:

- `memory_limit_enforced` is told for every call, also where RLIMIT_AS was refused
  and that refusal suppressed (`runtime/limits.py:67-69`, `tools/dispatch.py:349`),
  though `src/README.md:402` promises the memory limit. `TraceIsTruthful` says that
  this flag, in this case, is the only one that tells what was not so.
- A spec replaces the openness of both ends, also of one it gives no bound for
  (`parsing/domain_parser.py:139-140`). The specs {lower 3} and then {upper 3, lower
  open} are refused though 3 satisfies both. `ConflictsAreReal` names this cause.
- The values of a finite domain are not compared with predicates: {-1} assumed
  positive passes, against the docstring of `parsing/domain_parser.py:186`. Bounds
  and signs over the reals are compared in full, but for `nonnegative` below an open
  zero: `SignsLeaveAValue`.
- `float()` moves bounds. On the integers from 9007199254740993 to 9007199254740995
  the points ...992, ...994 and ...996 are tested, two of them outside the domain, and
  the other two of the domain never; evidence is told all the same.
  `SampledWithinBounds` and `SmallDomainsAreSwept` hold of the floats of the bounds
  and of the whole numbers that are floats.
- One bound beyond 10 and the other missing give an empty or reversed interval,
  whose points lie outside the domain; `SampledWithinBounds` is about variables
  bounded on both sides.
- `_enforce_output_size` measures strings only, so what `MayGet` says of size it says
  of texts, and a structured result may be of any.

## 7. Not modelled, and why

- What SymPy, SciPy, NetworkX and Z3 compute, in the handlers and while a term is
  built: a handler is the set of its outcomes, Z3 any answer its sorts allow. In
  the AST form `sp.Pow` computes as it builds, before the screen of exponents; only
  the worker's limits bound that, which are the runner's.
- Tokenising and the character rules of a text: a fault of a text is a member of a
  set. In `FiniteCheck`, bounds that are no rationals.
- The schema check: one stateless recursion over a fixed table, for which a
  reference definition would be the same recursion. That it refuses, and where
  among the gates, is in `Dispatch`.
- The other metadata of errors (`operation_state` and the hints apart from
  suggestions), serialization, the stopwatch, version strings: wording.
- The lazy import of the tool modules: a failing import is a broken installation.
- Memory of the server. That a child is refused RLIMIT_CPU, RLIMIT_FSIZE or
  RLIMIT_NOFILE: it then does not start, which is a failed spawn.
- Bounds beyond the range of floats, whose conversion raises OverflowError: an
  internal error as in `CannotSample`. In `IntervalConflict`, `nsimplify` and the return
  on TypeError, which rational bounds do not reach. A witness is shown as the
  rational that `nsimplify` makes of each float, which the model takes for the float.
- The MCP protocol, which is the library's, and the tests, evaluations and
  benchmarks, which were read for what they expect.

What a next step could add: the metadata of errors in `Catalog`, with the lookup of
an aliased name in `_error_result`, and the predicates against the values of a finite
domain as a run of its own.
