------------------------------- MODULE Dispatch -------------------------------
(***************************************************************************)
(* run_operation, the one path every compute tool takes: validate, resolve *)
(* the name, route to a worker or to the server's own thread, turn what    *)
(* comes back into one structured ToolResult. Requests arrive one after    *)
(* the other; the runner is CallService, which SubprocessRunner implements.*)
(*                                                                         *)
(* A request is a name and the set of things that are wrong with it; a     *)
(* handler may return any outcome, raise any error, or never return.       *)
(***************************************************************************)
EXTENDS Certainty, Sequences

CONSTANTS
  MaxRequests,   \* bound on the requests of one behaviour
  MaxFlaws,      \* bound on how much is wrong with one request
  Registry,      \* operation name -> [backend, sub (runs_in_subprocess), state]
  Aliases,       \* alias -> operation name
  Names,         \* the names a client asks for
  Outcomes,      \* operation name -> the outcomes its handler may return
  Uncapped       \* the calls for whose child the host refuses RLIMIT_AS

Sizes    == {"fits", "long_text", "long_structure"}
Kinds    == {"value", "solution_set", "witness", "verification", "object", "none"}
Outcome  == [backend : Backends \cup {"none"}, method : Methods, kind : Kinds,
             certainty : Certainties, override : BOOLEAN, size : Sizes]
Specs    == [backend : Backends, sub : BOOLEAN,
             state : {"implemented", "deprecated", "experimental", "disabled"}]

(* _validate_aliases holds at import.                                      *)
ASSUME RegistryAssumption ==
  /\ MaxRequests \in Nat \ {0}
  /\ MaxFlaws \in Nat
  /\ Registry \in [DOMAIN Registry -> Specs]
  /\ Aliases \in [DOMAIN Aliases -> DOMAIN Registry]
  /\ DOMAIN Aliases \cap DOMAIN Registry = {}
  /\ Outcomes \in [DOMAIN Registry -> SUBSET Outcome]
  /\ Uncapped \subseteq 1 .. MaxRequests

VARIABLES
  force,    \* MATH_MCP_FORCE_INPROCESS
  pc,       \* where run_operation stands
  n,        \* the number of the current or last request
  request,  \* request[r]: what the client sent
  where,    \* where the handler of request r ran
  callOf,   \* the runner's number for request r, 0 if it was not called
  outcome,  \* what the handler of the current request returned
  result,   \* result[r]: the ToolResult, NoResult until it is returned
  allow, phase, calls, replies   \* the runner

Runner == INSTANCE CallService WITH
  MaxCalls <- MaxRequests, call <- calls, reply <- replies

runnerVars == <<allow, phase, calls, replies>>
vars == <<force, pc, n, request, where, callOf, outcome, result, runnerVars>>

Request == 1 .. MaxRequests

(* The gates in the order they are passed, with the error each raises. An  *)
(* InvalidInput carries BACKEND_INTERNAL_ERROR.                            *)
Gates == <<
  [flaw |-> "limits",      code |-> "INVALID_LIMITS"],
  [flaw |-> "payload",     code |-> "BACKEND_INTERNAL_ERROR"],
  [flaw |-> "domains",     code |-> "DOMAIN_UNSUPPORTED"],
  [flaw |-> "assumptions", code |-> "ASSUMPTION_UNSUPPORTED"],
  [flaw |-> "unknown",     code |-> "UNSUPPORTED_OPERATION"],
  [flaw |-> "disabled",    code |-> "UNSUPPORTED_OPERATION"],
  [flaw |-> "schema",      code |-> "BACKEND_INTERNAL_ERROR"],
  [flaw |-> "bound",       code |-> "PARSE_REJECTED"],
  [flaw |-> "conflict",    code |-> "CONSTRAINT_CONFLICT"],
  [flaw |-> "predicate",   code |-> "ASSUMPTION_UNSUPPORTED"] >>

ClientFlaws == {Gates[i].flaw : i \in DOMAIN Gates} \ {"unknown", "disabled"}
Requests == [name : Names, flaws : SUBSET ClientFlaws]

(* Errors a handler raises; an exception it does not expect is             *)
(* BACKEND_INTERNAL_ERROR.                                                 *)
HandlerErrors == {"PARSE_REJECTED", "INVALID_AST", "UNSUPPORTED_OPERATION",
  "DOMAIN_UNSUPPORTED", "CONSTRAINT_CONFLICT", "RESOURCE_LIMIT_EXCEEDED",
  "OUTPUT_TOO_LARGE", "NUMERIC_CONVERGENCE_FAILED", "BACKEND_INTERNAL_ERROR"}

(* ErrorCode: a ToolResult with another code does not validate.            *)
ErrorCodes == {"PARSE_REJECTED", "UNSUPPORTED_OPERATION", "DOMAIN_UNSUPPORTED",
  "ASSUMPTION_UNSUPPORTED", "CONSTRAINT_CONFLICT", "BACKEND_TIMEOUT",
  "OUTPUT_TOO_LARGE", "RESOURCE_LIMIT_EXCEEDED", "BACKEND_INTERNAL_ERROR",
  "INVALID_AST", "INVALID_LIMITS", "NUMERIC_CONVERGENCE_FAILED",
  "PLATFORM_UNSUPPORTED", "SANDBOX_UNAVAILABLE"}

(* What the trace can claim: that a limit was enforced, each by its flag.  *)
WorkerLimits == {"cpu", "memory", "file_size"}

NoRequest == [name |-> "", flaws |-> {}]
NoOutcome == [backend |-> "none", method |-> "none", kind |-> "none",
              certainty |-> "error", override |-> FALSE, size |-> "fits"]
NoResult  == [code |-> "none", certainty |-> "error", method |-> "none", kind |-> "none",
              limits |-> {}, isolated |-> FALSE, size |-> "fits"]
Results   == [code : {"ok"} \cup ErrorCodes, certainty : Certainties, method : Methods,
              kind : Kinds, limits : SUBSET WorkerLimits, isolated : BOOLEAN, size : Sizes]

TypeOK ==
  /\ force \in BOOLEAN
  /\ pc \in {"idle", "admit", "wait", "collect", "handler", "assemble", "down"}
  /\ n \in 0 .. MaxRequests
  /\ request \in [Request -> Requests \cup {NoRequest}]
  /\ where \in [Request -> {"nowhere", "server", "worker"}]
  /\ callOf \in [Request -> 0 .. MaxRequests]
  /\ outcome \in Outcome
  /\ result \in [Request -> Results \cup {NoResult}]
  /\ allow \in BOOLEAN /\ phase \in {"idle", "busy", "down"}
  /\ calls \in 0 .. MaxRequests
  /\ replies \in [Request -> Runner!Replies \cup {Runner!NoReply}]

Init ==
  /\ Runner!Init
  /\ force \in BOOLEAN
  /\ pc = "idle" /\ n = 0
  /\ request = [r \in Request |-> NoRequest]
  /\ where = [r \in Request |-> "nowhere"]
  /\ callOf = [r \in Request |-> 0]
  /\ outcome = NoOutcome
  /\ result = [r \in Request |-> NoResult]

-----------------------------------------------------------------------------
(* A real operation name wins; an alias counts only on a direct miss.      *)
Resolve(name) ==
  IF name \in DOMAIN Registry THEN {name}
  ELSE IF name \in DOMAIN Aliases THEN {Aliases[name]} ELSE {}

Flaws(req) == req.flaws
  \cup (IF Resolve(req.name) = {} THEN {"unknown"} ELSE {})
  \cup (IF \E op \in Resolve(req.name) : Registry[op].state = "disabled"
        THEN {"disabled"} ELSE {})

(* Mutation of Admissible: normalize is left to the worker.                *)
Admissible_ChecksLater(req) == Flaws(req) \subseteq {"bound", "conflict", "predicate"}

Admissible(req) == Flaws(req) = {}

(* The gates passed before gate j: normalize meets the last three kinds of *)
(* flaw in the order in which the client sent them.                        *)
Before(j) == {k \in DOMAIN Gates : k < j /\ k <= 7}

(* Mutation of Refusal: the error for an unknown name is built, not raised.*)
Refusal_UnknownNotRaised(req) ==
  {Gates[i].code : i \in {j \in DOMAIN Gates :
     /\ Gates[j].flaw \in Flaws(req) \ {"unknown"}
     /\ \A k \in Before(j) : Gates[k].flaw \notin Flaws(req)}}

(* The code of a first gate that req does not pass, if there is one.       *)
Refusal(req) ==
  {Gates[i].code : i \in {j \in DOMAIN Gates :
     /\ Gates[j].flaw \in Flaws(req)
     /\ \A k \in Before(j) : Gates[k].flaw \notin Flaws(req)}}

(* The operation of the current request, once it is admitted.              *)
Operation == CHOOSE op \in DOMAIN Registry : op \in Resolve(request[n].name)

(* _error_result.                                                          *)
Fail(code) ==
  /\ result' = [result EXCEPT ![n] = [NoResult EXCEPT !.code = code]]
  /\ pc' = "idle"

BeginRequest ==
  /\ pc = "idle" /\ n < MaxRequests
  /\ n' = n + 1
  /\ \E name \in Names, k \in 0 .. MaxFlaws : \E f \in [1 .. k -> ClientFlaws] :
       request' = [request EXCEPT ![n + 1] =
                     [name |-> name, flaws |-> {f[i] : i \in 1 .. k}]]
  /\ outcome' = NoOutcome
  /\ pc' = "admit"
  /\ UNCHANGED <<force, where, callOf, result, runnerVars>>

Refuse ==
  /\ pc = "admit"
  /\ \E code \in Refusal(request[n]) : Fail(code)
  /\ UNCHANGED <<force, n, request, where, callOf, outcome, runnerVars>>

(* Mutation of RouteToWorker: the development switch is not looked at.      *)
RouteToWorker_Always ==
  /\ pc = "admit" /\ Admissible(request[n])
  /\ Registry[Operation].sub
  /\ Runner!Accept
  /\ callOf' = [callOf EXCEPT ![n] = calls + 1]
  /\ where' = [where EXCEPT ![n] = "worker"]
  /\ pc' = "wait"
  /\ UNCHANGED <<force, n, request, outcome, result>>

(* runs_in_subprocess and not force_inprocess(): call the runner.          *)
RouteToWorker ==
  /\ pc = "admit" /\ Admissible(request[n])
  /\ Registry[Operation].sub /\ ~force
  /\ Runner!Accept
  /\ callOf' = [callOf EXCEPT ![n] = calls + 1]
  /\ where' = [where EXCEPT ![n] = "worker"]
  /\ pc' = "wait"
  /\ UNCHANGED <<force, n, request, outcome, result>>

(* Otherwise the handler runs in the server's thread: no timeout, no limit.*)
RouteToServer ==
  /\ pc = "admit" /\ Admissible(request[n])
  /\ ~Registry[Operation].sub \/ force
  /\ where' = [where EXCEPT ![n] = "server"]
  /\ pc' = "handler"
  /\ UNCHANGED <<force, n, request, callOf, outcome, result, runnerVars>>

(* What a handler comes to, in the worker or in the server.                *)
HandlerEnds ==
  \/ /\ outcome' \in Outcomes[Operation]
     /\ pc' = "assemble"
     /\ UNCHANGED result
  \/ /\ \E code \in HandlerErrors : Fail(code)
     /\ UNCHANGED outcome

HandlerReturns ==
  /\ pc = "handler"
  /\ HandlerEnds
  /\ UNCHANGED <<force, n, request, where, callOf, runnerVars>>

RunnerReplies ==
  /\ pc = "wait"
  /\ \E r \in Runner!Replies : Runner!Reply(r)
  /\ pc' = "collect"
  /\ UNCHANGED <<force, n, request, where, callOf, outcome, result>>

(* Mutation of Collect: an error of the runner is answered by running the  *)
(* handler in the server.                                                  *)
Collect_FallsBack ==
  /\ pc = "collect"
  /\ IF replies[callOf[n]].code = "answer"
     THEN HandlerEnds
     ELSE pc' = "handler" /\ UNCHANGED <<outcome, result>>
  /\ UNCHANGED <<force, n, request, where, callOf, runnerVars>>

(* The runner's errors pass; an answer is _outcome_from_raw's outcome or   *)
(* the worker's own error.                                                 *)
Collect ==
  /\ pc = "collect"
  /\ IF replies[callOf[n]].code = "answer"
     THEN HandlerEnds
     ELSE Fail(replies[callOf[n]].code) /\ UNCHANGED outcome
  /\ UNCHANGED <<force, n, request, where, callOf, runnerVars>>

(* _enforce_output_size looks at strings only.                             *)
OverLimit(size) == size = "long_text"

(* The limits that rlimit_preexec put on the child of call c, if there was *)
(* a call. A child that is refused one of the others does not start; that  *)
(* RLIMIT_AS is refused is suppressed.                                     *)
InForce(c) ==
  {limit \in WorkerLimits : c # 0 /\ (limit = "memory" => c \notin Uncapped)}

(* Mutation of Trace: the flags follow the registry, not the route.        *)
Trace_OfRegistry ==
  [limits |-> IF Registry[Operation].sub THEN WorkerLimits ELSE {},
   isolated |-> Registry[Operation].sub]

(* limits_applied of the trace: the three flags follow the route, and the  *)
(* server learns nothing of what the kernel took.                          *)
Trace ==
  [limits |-> IF where[n] = "worker" THEN WorkerLimits ELSE {},
   isolated |-> where[n] = "worker" /\ replies[callOf[n]].isolated]

(* Mutation of BackendOf: the registered backend is not looked up.         *)
BackendOf_AsReported(o) == o.backend

(* A handler that names no backend used the registered one.                *)
BackendOf(o) == IF o.backend # "none" THEN o.backend ELSE Registry[Operation].backend

Assemble ==
  /\ pc = "assemble"
  /\ LET o == outcome
         certainty == Enforce(BackendOf(o), Operation, o.method, o.certainty, o.override)
     IN  IF OverLimit(o.size) THEN Fail("OUTPUT_TOO_LARGE")
         ELSE /\ result' = [result EXCEPT ![n] =
                   [code |-> "ok", certainty |-> certainty, method |-> o.method,
                    kind |-> o.kind, size |-> o.size,
                    limits |-> Trace.limits, isolated |-> Trace.isolated]]
              /\ pc' = "idle"
  /\ UNCHANGED <<force, n, request, where, callOf, outcome, runnerVars>>

(* The server process dies: with a crash of an in-process handler, or      *)
(* because the client ends it.                                             *)
ServerDies ==
  /\ Runner!Die
  /\ pc' = "down"
  /\ UNCHANGED <<force, n, request, where, callOf, outcome, result>>

ServerStarts ==
  /\ Runner!Recover
  /\ pc' = "idle"
  /\ UNCHANGED <<force, n, request, where, callOf, outcome, result>>

(* The client sends nothing more: the model's bound on requests.           *)
ClientIsDone ==
  /\ pc = "idle" /\ n = MaxRequests
  /\ UNCHANGED vars

-----------------------------------------------------------------------------
Step ==
  Refuse \/ RouteToWorker \/ RouteToServer \/ Collect \/ Assemble

Next ==
  \/ BeginRequest \/ Step \/ HandlerReturns \/ RunnerReplies
  \/ ServerDies \/ ServerStarts \/ ClientIsDone

(* The server's thread runs and the runner keeps its promise. Nothing is   *)
(* assumed of a handler that runs in the server.                           *)
Safety == Init /\ [][Next]_vars

Spec == Safety /\ WF_vars(Step) /\ Runner!CallsEnd

-----------------------------------------------------------------------------
(* Properties                                                              *)

(* A request that any gate refuses reaches no handler and no sandbox: what *)
(* ran was well formed, known and enabled, and the runner was called for   *)
(* the admitted sandboxed requests only, once each and in their order.     *)
NothingRunsUnlessAdmitted ==
  /\ \A r \in Request : where[r] # "nowhere" =>
       /\ request[r].flaws = {}
       /\ \E op \in Resolve(request[r].name) : Registry[op].state # "disabled"
  /\ \A r \in Request : where[r] = "worker" <=> callOf[r] # 0
  /\ \A c \in 1 .. calls : \E r \in Request : callOf[r] = c
  /\ \A r, s \in Request : r < s /\ callOf[s] # 0 => callOf[r] < callOf[s]

(* The audit trace is true of the call behind the result, in all but one   *)
(* flag: the limits that the worker of that call had are claimed, and no   *)
(* others but for the memory of a worker that was refused its cap, which   *)
(* is claimed like the rest (memory_limit_enforced). Isolation is claimed  *)
(* exactly when that worker had it, and a result of a sandboxed operation  *)
(* that lacks it needs one of the two development switches.                *)
TraceIsTruthful ==
  \A r \in Request : result[r].code = "ok" =>
    /\ InForce(callOf[r]) \subseteq result[r].limits
    /\ result[r].limits \ InForce(callOf[r]) =
         IF callOf[r] \in Uncapped THEN {"memory"} ELSE {}
    /\ result[r].isolated <=> callOf[r] # 0 /\ replies[callOf[r]].isolated
    /\ \A op \in Resolve(request[r].name) :
         Registry[op].sub => result[r].isolated \/ allow \/ force

(* A timeout, a limit or a missing sandbox is what the client is told: no  *)
(* failure of the runner turns into a result, or into another failure.     *)
RunnerVerdictsReachTheClient ==
  \A r \in Request :
    callOf[r] # 0 /\ result[r] # NoResult =>
      \/ replies[callOf[r]].code = "answer"
      \/ result[r].code = replies[callOf[r]].code

(* No stronger than found, nor the opposite verdict in its place.          *)
ToldAsFound(r) ==
  /\ Rank[result'[r].certainty] >= Rank[outcome.certainty]
  /\ Rank[result'[r].certainty] = Rank[outcome.certainty] =>
       result'[r].certainty = outcome.certainty

(* Evidence at most, where the backend that the handler used, or the one   *)
(* of the registry entry, has a caveat that says so.                       *)
ToldAsSampled(r) ==
  /\ outcome.method \notin ProofMethods /\ ~outcome.override
  /\ \E op \in Resolve(request[r].name), c \in CAVEATS :
       c = Caveat(IF outcome.backend = "none" THEN Registry[op].backend
                  ELSE outcome.backend, op, "evidence")
  => Rank[result'[r].certainty] >= Rank["evidence"]

(* What a handler found is never told stronger than it was found, proved   *)
(* and disproved are never swapped, and what was sampled or searched for   *)
(* is evidence at most, unless it was found by a method of proof or its    *)
(* handler gave a reason to override the caveat.                           *)
CertaintyIsWarranted ==
  [][\A r \in Request :
       result[r] = NoResult /\ result'[r].code = "ok" => ToldAsFound(r) /\ ToldAsSampled(r)]_vars

(* Where the thread is to act it can: every flaw has its error, every name *)
(* its route, every reply and every outcome its result, and whenever the   *)
(* dispatcher calls the runner the runner takes the call.                  *)
ThreadIsNeverStuck ==
  pc \in {"admit", "collect", "assemble"} => ENABLED <<Step>>_vars

(* Every request that does not run in the server's own thread is answered, *)
(* or the server dies under it.                                            *)
RoutedRequestsEnd ==
  \A r \in Request :
    n = r /\ pc \in {"admit", "wait"} ~> result[r] # NoResult \/ pc \in {"handler", "down"}

(* What a request may get from a server with the switches it was started   *)
(* with. One that a gate refuses gets the error of such a gate, and no     *)
(* other. Another one gets an error that its handler raised or, if it is   *)
(* one for the sandbox, that the runner raised; or a result whose          *)
(* certainty, trace and size are warranted by an outcome of its operation. *)
Question(req, forced, allowed) == [req |-> req, forced |-> forced, allowed |-> allowed]

Errors(codes) == {[NoResult EXCEPT !.code = code] : code \in codes}

NoStronger(told, found) == Rank[told] > Rank[found] \/ told = found

WarrantedBy(o, sandboxed, allowed) ==
  {[code |-> "ok", certainty |-> told, method |-> o.method, kind |-> o.kind,
    limits |-> IF sandboxed THEN WorkerLimits ELSE {}, isolated |-> box, size |-> o.size] :
     told \in {c \in Certainties : NoStronger(c, o.certainty)},
     box \in {b \in BOOLEAN : IF sandboxed THEN b \/ allowed ELSE ~b}}

Warranted(op, sandboxed, allowed) ==
  UNION {WarrantedBy(o, sandboxed, allowed) : o \in {o \in Outcomes[op] : ~OverLimit(o.size)}}

Permissible(op, forced, allowed) ==
  LET sandboxed == Registry[op].sub /\ ~forced
  IN  Warranted(op, sandboxed, allowed) \cup Errors(HandlerErrors)
        \cup (IF sandboxed THEN Errors(Runner!Codes \ {"answer"}) ELSE {})

MayGet(q) ==
  IF ~Admissible(q.req) THEN Errors(Refusal(q.req))
  ELSE UNION {Permissible(op, q.forced, q.allowed) : op \in Resolve(q.req.name)}

Client == INSTANCE ToolService WITH
  Promised <- MayGet, phase <- IF pc \in {"idle", "down"} THEN pc ELSE "busy", asked <- n,
  question <- [r \in Request |-> Question(request[r], force, allow)], answered <- result

(* run_operation "always returns a structured ToolResult" (line 173), and  *)
(* one that was settled when the request came in: whatever the gates, the  *)
(* handler, the runner and the caveats do, and in whatever order failures  *)
(* arrive, each request is answered once, in its turn, by a result that    *)
(* its content and the two switches permit, and keeps it.                  *)
AnswersAsPromised == Client!ServiceSpec

-----------------------------------------------------------------------------
(* The inductive invariant, in parts                                       *)

(* The dispatcher and the runner agree on who is busy with what.           *)
InStep ==
  /\ pc = "wait" <=> phase = "busy"
  /\ pc = "down" <=> phase = "down"
  /\ pc \notin {"idle", "down"} => n \in Request /\ result[n] = NoResult
  /\ pc = "admit" => where[n] = "nowhere"
  /\ pc = "handler" => where[n] = "server"
  /\ pc = "assemble" => where[n] # "nowhere"
  /\ pc \in {"wait", "collect"} => where[n] = "worker"
  /\ pc \in {"wait", "collect"} => callOf[n] = calls
  /\ pc = "wait" => replies[calls] = Runner!NoReply
  /\ pc = "collect" => replies[calls] # Runner!NoReply
  /\ pc = "assemble" /\ where[n] = "worker" => replies[callOf[n]].code = "answer"

(* Nothing is known of a request that has not begun, or a call not made.   *)
FutureIsBlank ==
  /\ \A r \in Request : r > n => where[r] = "nowhere" /\ result[r] = NoResult
  /\ \A c \in Request : c > calls => replies[c] = Runner!NoReply

(* A handler ran where its registry entry and the switch send it, and a    *)
(* request that never got that far has no result but an error.             *)
Routed ==
  /\ \A r \in Request : callOf[r] <= calls
  /\ \A r \in Request : where[r] = "worker" =>
       ~force /\ \A op \in Resolve(request[r].name) : Registry[op].sub
  /\ \A r \in Request : where[r] = "server" =>
       force \/ \A op \in Resolve(request[r].name) : ~Registry[op].sub
  /\ \A r \in Request : result[r].code = "ok" => where[r] # "nowhere"
  /\ \A r \in Request : result[r].code = "ok" /\ where[r] = "worker" =>
       replies[callOf[r]].code = "answer"
  /\ \A c \in Request : Runner!Permitted(replies[c])

(* What is assembled is an outcome of the operation that was asked for.    *)
OutcomeIsReported == pc = "assemble" => outcome \in Outcomes[Operation]

(* The invariant the proofs use; its last three parts are not inductive    *)
(* without the others.                                                     *)
IInv ==
  /\ TypeOK /\ InStep /\ FutureIsBlank /\ Routed /\ OutcomeIsReported
  /\ NothingRunsUnlessAdmitted /\ TraceIsTruthful /\ RunnerVerdictsReachTheClient
=============================================================================
