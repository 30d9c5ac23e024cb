---------------------------- MODULE DispatchProofs ----------------------------
(***************************************************************************)
(* What the dispatcher may tell a client, proved for every registry, alias *)
(* table, outcome and number of requests: the caveat layer only weakens a  *)
(* certainty, and nothing after it changes what was told.                  *)
(***************************************************************************)
EXTENDS Dispatch, TLAPS

(* Among the downgrades there is a weakest one: the ranks are 0 .. 4.      *)
LEMMA WeakestExists ==
  ASSUME NEW S \in SUBSET Certainties, S # {}
  PROVE  \E r \in S : \A s \in S : Rank[s] <= Rank[r]
<1>1. /\ Rank["proved"] = 0 /\ Rank["disproved"] = 0 /\ Rank["exact"] = 1
      /\ Rank["evidence"] = 2 /\ Rank["unknown"] = 3 /\ Rank["error"] = 4
  BY DEF Rank, Certainties
<1>2. CASE "error" \in S
  BY <1>1, <1>2 DEF Certainties
<1>3. CASE "error" \notin S /\ "unknown" \in S
  BY <1>1, <1>3 DEF Certainties
<1>4. CASE "error" \notin S /\ "unknown" \notin S /\ "evidence" \in S
  BY <1>1, <1>4 DEF Certainties
<1>5. CASE "exact" \in S /\ S \subseteq {"proved", "disproved", "exact"}
  BY <1>1, <1>5
<1>6. CASE S \subseteq {"proved", "disproved"}
  <2>1. PICK r \in S : TRUE
    OBVIOUS
  <2>2. \A s \in S : Rank[s] = 0
    BY <1>1, <1>6
  <2> QED
    BY <2>1, <2>2
<1> QED
  BY <1>2, <1>3, <1>4, <1>5, <1>6 DEF Certainties

(* What strongest_downgrade returns is what it was given, or a strictly    *)
(* weaker certainty; and as weak as every caveat recommends.               *)
LEMMA DowngradeOnlyWeakens ==
  ASSUME NEW caveats, NEW current \in Certainties
  PROVE  LET new == StrongestDowngrade(caveats, current)
         IN  /\ new \in Certainties
             /\ new = current \/ Rank[new] > Rank[current]
             /\ \A c \in caveats : c.recommended \in Certainties =>
                  Rank[new] >= Rank[c.recommended]
<1> DEFINE down == Downgrades(caveats, current)
           new  == StrongestDowngrade(caveats, current)
<1>0. \A c \in Certainties : Rank[c] \in Nat
  BY DEF Rank, Certainties
<1>1. CASE down = {}
  <2>1. new = current
    BY <1>1 DEF StrongestDowngrade
  <2>2. \A c \in caveats : c.recommended \in Certainties =>
          ~(Rank[c.recommended] > Rank[current])
    BY <1>1 DEF Downgrades
  <2> QED
    BY <1>0, <2>1, <2>2
<1>2. CASE down # {}
  <2>1. new \in down /\ \A s \in down : Rank[s] <= Rank[new]
    BY <1>2, WeakestExists DEF StrongestDowngrade, Downgrades
  <2>2. new \in Certainties /\ Rank[new] > Rank[current]
    BY <2>1 DEF Downgrades
  <2>3. ASSUME NEW c \in caveats, c.recommended \in Certainties
        PROVE  Rank[new] >= Rank[c.recommended]
    <3>1. CASE Rank[c.recommended] > Rank[current]
      BY <1>0, <2>1, <2>2, <2>3, <3>1 DEF Downgrades
    <3>2. CASE ~(Rank[c.recommended] > Rank[current])
      BY <1>0, <2>2, <2>3, <3>2
    <3> QED
      BY <3>1, <3>2
  <2> QED
    BY <2>2, <2>3
<1> QED
  BY <1>1, <1>2

(* The whole caveat layer never raises a certainty, never swaps proved and *)
(* disproved, and applies every caveat that is active.                     *)
LEMMA EnforceOnlyWeakens ==
  ASSUME NEW b, NEW op, NEW m, NEW cert \in Certainties, NEW ov \in BOOLEAN
  PROVE  LET new == Enforce(b, op, m, cert, ov)
         IN  /\ new \in Certainties
             /\ new = cert \/ Rank[new] > Rank[cert]
             /\ m \notin ProofMethods /\ ~ov =>
                  \A c \in CaveatsFor(b, op) : c.recommended \in Certainties =>
                    Rank[new] >= Rank[c.recommended]
BY DowngradeOnlyWeakens DEF Enforce

-----------------------------------------------------------------------------
(* Every gate's error code is one a ToolResult may carry.                  *)
LEMMA RefusalType ==
  ASSUME NEW req, NEW code \in Refusal(req) PROVE code \in ErrorCodes
<1>1. PICK i \in DOMAIN Gates : code = Gates[i].code
  BY DEF Refusal
<1>2. DOMAIN Gates = 1 .. 10
  BY DEF Gates
<1> QED
  BY <1>1, <1>2 DEF Gates, ErrorCodes

(* Returning an error gives the current request a result of the type.      *)
LEMMA FailType ==
  ASSUME TypeOK, NEW code \in ErrorCodes, Fail(code)
  PROVE  /\ result' \in [Request -> Results \cup {NoResult}]
         /\ pc' = "idle"
<1>1. [NoResult EXCEPT !.code = code] \in Results
  BY DEF NoResult, Results, Certainties, Methods, Kinds, Sizes
<1> QED
  BY <1>1 DEF Fail, TypeOK

(* The initial states have the types.                                      *)
LEMMA InitType == Init => TypeOK
<1> SUFFICES ASSUME Init PROVE TypeOK
  OBVIOUS
<1> USE RegistryAssumption DEF RegistryAssumption
<1>1. outcome \in Outcome
  BY DEF Init, Outcome, NoOutcome, Certainties, Methods, Kinds, Sizes
<1>2. /\ allow \in BOOLEAN /\ phase = "idle" /\ calls \in 0 .. MaxRequests
      /\ replies \in [Request -> Runner!Replies \cup {Runner!NoReply}]
  BY DEF Init, Runner!Init, Runner!Call, Request
<1> QED
  BY <1>1, <1>2 DEF Init, TypeOK

(* A handler runs for an operation that is registered.                     *)
LEMMA OperationIsRegistered ==
  ASSUME IInv, pc \in {"handler", "collect", "assemble"} PROVE Operation \in DOMAIN Registry
<1>1. n \in Request /\ where[n] # "nowhere"
  BY DEF IInv, InStep
<1>2. PICK op \in Resolve(request[n].name) : TRUE
  BY <1>1 DEF IInv, NothingRunsUnlessAdmitted
<1>3. op \in DOMAIN Registry
  BY <1>2, RegistryAssumption DEF RegistryAssumption, Resolve
<1> QED
  BY <1>2, <1>3 DEF Operation

(* What a handler reports, and what ends its request, has the types.       *)
LEMMA HandlerEndsType ==
  ASSUME TypeOK, HandlerEnds, Operation \in DOMAIN Registry
  PROVE  /\ outcome' \in Outcome
         /\ result' \in [Request -> Results \cup {NoResult}]
         /\ pc' \in {"assemble", "idle"}
<1>1. CASE outcome' \in Outcomes[Operation] /\ pc' = "assemble" /\ UNCHANGED result
  BY <1>1, RegistryAssumption DEF RegistryAssumption, TypeOK
<1>2. ASSUME NEW code \in HandlerErrors, Fail(code), UNCHANGED outcome
      PROVE  /\ result' \in [Request -> Results \cup {NoResult}]
             /\ pc' = "idle" /\ outcome' \in Outcome
  BY <1>2, FailType DEF HandlerErrors, ErrorCodes, TypeOK
<1> QED
  BY <1>1, <1>2 DEF HandlerEnds

(* Every action keeps the types.                                           *)
LEMMA TypeStep ==
  ASSUME IInv, [Next]_vars PROVE TypeOK'
<1> USE RegistryAssumption DEF RegistryAssumption, runnerVars
<1>0. TypeOK
  BY DEF IInv
<1>1. CASE BeginRequest
  <2>1. PICK name \in Names, k \in 0 .. MaxFlaws : \E f \in [1 .. k -> ClientFlaws] :
          request' = [request EXCEPT ![n + 1] =
                        [name |-> name, flaws |-> {f[i] : i \in 1 .. k}]]
    BY <1>1 DEF BeginRequest
  <2>2. PICK f \in [1 .. k -> ClientFlaws] :
          request' = [request EXCEPT ![n + 1] =
                        [name |-> name, flaws |-> {f[i] : i \in 1 .. k}]]
    BY <2>1
  <2>3. [name |-> name, flaws |-> {f[i] : i \in 1 .. k}] \in Requests
    BY DEF Requests
  <2>4. request' \in [Request -> Requests \cup {NoRequest}]
    BY <1>0, <2>2, <2>3 DEF TypeOK
  <2>5. outcome' \in Outcome /\ n' \in 0 .. MaxRequests
    BY <1>0, <1>1 DEF BeginRequest, TypeOK, NoOutcome, Outcome, Certainties, Methods, Kinds, Sizes
  <2> QED
    BY <1>0, <1>1, <2>4, <2>5 DEF BeginRequest, TypeOK
<1>2. CASE Refuse
  <2>1. PICK code \in Refusal(request[n]) : Fail(code)
    BY <1>2 DEF Refuse
  <2> QED
    BY <1>0, <1>2, <2>1, RefusalType, FailType DEF Refuse, TypeOK
<1>3. CASE RouteToWorker
  <2>1. calls' \in 0 .. MaxRequests /\ phase' = "busy" /\ UNCHANGED <<allow, replies>>
    BY <1>0, <1>3 DEF RouteToWorker, TypeOK, Runner!Accept
  <2>2. callOf' \in [Request -> 0 .. MaxRequests]
    BY <1>0, <1>3, <2>1 DEF RouteToWorker, TypeOK, Runner!Accept
  <2> QED
    BY <1>0, <1>3, <2>1, <2>2 DEF RouteToWorker, TypeOK
<1>4. CASE RouteToServer
  BY <1>0, <1>4 DEF RouteToServer, TypeOK
<1>5. CASE HandlerReturns
  BY <1>0, <1>5, HandlerEndsType, OperationIsRegistered DEF HandlerReturns, TypeOK
<1>6. CASE RunnerReplies
  <2>1. PICK r \in Runner!Replies : Runner!Reply(r)
    BY <1>6 DEF RunnerReplies
  <2> QED
    BY <1>0, <1>6, <2>1 DEF RunnerReplies, TypeOK, Runner!Reply
<1>7. CASE Collect
  <2>1. CASE replies[callOf[n]].code = "answer"
    BY <1>0, <1>7, <2>1, HandlerEndsType, OperationIsRegistered DEF Collect, TypeOK
  <2>2. CASE replies[callOf[n]].code # "answer"
    <3>1. replies[callOf[n]] \in Runner!Replies /\ replies[callOf[n]] # Runner!NoReply
      BY <1>0, <1>7 DEF Collect, IInv, InStep, NothingRunsUnlessAdmitted, TypeOK, Request
    <3>2. replies[callOf[n]].code \in ErrorCodes
      BY <2>2, <3>1 DEF Runner!Replies, Runner!Codes, ErrorCodes
    <3> QED
      BY <1>0, <1>7, <2>2, <3>2, FailType DEF Collect, TypeOK
  <2> QED
    BY <2>1, <2>2
<1>8. CASE Assemble
  <2> DEFINE certainty == Enforce(BackendOf(outcome), Operation, outcome.method,
                                  outcome.certainty, outcome.override)
             told == [code |-> "ok", certainty |-> certainty, method |-> outcome.method,
                      kind |-> outcome.kind, size |-> outcome.size,
                      limits |-> Trace.limits, isolated |-> Trace.isolated]
  <2>1. CASE OverLimit(outcome.size)
    <3>1. Fail("OUTPUT_TOO_LARGE")
      BY <1>8, <2>1 DEF Assemble
    <3> QED
      BY <1>0, <1>8, <3>1, FailType DEF Assemble, TypeOK, ErrorCodes
  <2>2. CASE ~OverLimit(outcome.size)
    <3>1. certainty \in Certainties
      BY <1>0, EnforceOnlyWeakens DEF TypeOK, Outcome
    <3>2. Trace.limits \in SUBSET WorkerLimits /\ Trace.isolated \in BOOLEAN
      BY DEF Trace
    <3>3. told \in Results
      BY <1>0, <3>1, <3>2 DEF Results, TypeOK, Outcome
    <3>4. result' = [result EXCEPT ![n] = told] /\ pc' = "idle"
      BY <1>8, <2>2 DEF Assemble
    <3> QED
      BY <1>0, <1>8, <3>3, <3>4 DEF Assemble, TypeOK
  <2> QED
    BY <2>1, <2>2
<1>9. CASE ServerDies
  BY <1>0, <1>9 DEF ServerDies, TypeOK, Runner!Die
<1>10. CASE ServerStarts
  BY <1>0, <1>10 DEF ServerStarts, TypeOK, Runner!Recover
<1>11. CASE ClientIsDone \/ UNCHANGED vars
  BY <1>0, <1>11 DEF ClientIsDone, vars, TypeOK
<1> QED
  BY <1>1, <1>2, <1>3, <1>4, <1>5, <1>6, <1>7, <1>8, <1>9, <1>10, <1>11 DEF Next, Step

-----------------------------------------------------------------------------
(* The inductive invariant holds initially.                                *)
LEMMA InitInv == Init => IInv
<1> SUFFICES ASSUME Init PROVE IInv
  OBVIOUS
<1>1. TypeOK
  BY InitType
<1>2. replies = [c \in Request |-> Runner!NoReply] /\ calls = 0 /\ phase = "idle"
  BY DEF Init, Runner!Init, Runner!Call, Request
<1>3. InStep /\ FutureIsBlank /\ OutcomeIsReported
  BY <1>2 DEF Init, InStep, FutureIsBlank, OutcomeIsReported
<1>4. Routed
  BY <1>1, <1>2 DEF Init, Routed, NoResult, Runner!NoReply, Runner!Permitted, TypeOK
<1>5. NothingRunsUnlessAdmitted
  BY <1>1, <1>2 DEF Init, NothingRunsUnlessAdmitted, Request
<1>6. TraceIsTruthful /\ RunnerVerdictsReachTheClient
  BY <1>2 DEF Init, TraceIsTruthful, RunnerVerdictsReachTheClient, NoResult
<1> QED
  BY <1>1, <1>3, <1>4, <1>5, <1>6 DEF IInv

(* Program counter, current operation and runner stay in step.             *)
LEMMA InStepStep ==
  ASSUME IInv, TypeOK', [Next]_vars PROVE InStep'
<1> USE RegistryAssumption DEF RegistryAssumption, runnerVars, InStep
<1>0. TypeOK /\ InStep /\ FutureIsBlank
  BY DEF IInv
<1>1. CASE BeginRequest
  BY <1>0, <1>1 DEF BeginRequest, TypeOK, FutureIsBlank, Request
<1>2. CASE Refuse
  BY <1>0, <1>2 DEF Refuse, Fail
<1>3. CASE RouteToWorker
  BY <1>0, <1>3 DEF RouteToWorker, Runner!Accept, TypeOK, FutureIsBlank, Request
<1>4. CASE RouteToServer
  BY <1>0, <1>4 DEF RouteToServer, TypeOK
<1>5. CASE HandlerReturns
  BY <1>0, <1>5 DEF HandlerReturns, HandlerEnds, Fail
<1>6. CASE RunnerReplies
  BY <1>0, <1>6 DEF RunnerReplies, Runner!Reply, Runner!Replies, Runner!NoReply,
                    Runner!Codes, TypeOK, IInv, NothingRunsUnlessAdmitted, Request
<1>7. CASE Collect
  BY <1>0, <1>7 DEF Collect, HandlerEnds, Fail
<1>8. CASE Assemble
  BY <1>0, <1>8 DEF Assemble, Fail
<1>9. CASE ServerDies
  BY <1>0, <1>9 DEF ServerDies, Runner!Die
<1>10. CASE ServerStarts
  BY <1>0, <1>10 DEF ServerStarts, Runner!Recover
<1>11. CASE ClientIsDone \/ UNCHANGED vars
  BY <1>0, <1>11 DEF ClientIsDone, vars
<1> QED
  BY <1>1, <1>2, <1>3, <1>4, <1>5, <1>6, <1>7, <1>8, <1>9, <1>10, <1>11 DEF Next, Step

(* A request that has not begun has left no trace anywhere.                *)
LEMMA FutureStep ==
  ASSUME IInv, TypeOK', [Next]_vars PROVE FutureIsBlank'
<1> USE RegistryAssumption DEF RegistryAssumption, runnerVars, FutureIsBlank
<1>0. TypeOK /\ InStep /\ FutureIsBlank
  BY DEF IInv
<1>1. CASE BeginRequest
  BY <1>0, <1>1 DEF BeginRequest, TypeOK, Request
<1>2. CASE Refuse
  BY <1>0, <1>2 DEF Refuse, Fail, TypeOK, Request
<1>3. CASE RouteToWorker
  BY <1>0, <1>3 DEF RouteToWorker, Runner!Accept, TypeOK, Request
<1>4. CASE RouteToServer
  BY <1>0, <1>4 DEF RouteToServer, TypeOK, Request
<1>5. CASE HandlerReturns
  BY <1>0, <1>5 DEF HandlerReturns, HandlerEnds, Fail, TypeOK, Request
<1>6. CASE RunnerReplies
  BY <1>0, <1>6 DEF RunnerReplies, Runner!Reply, TypeOK, Request
<1>7. CASE Collect
  BY <1>0, <1>7 DEF Collect, HandlerEnds, Fail, TypeOK, Request
<1>8. CASE Assemble
  BY <1>0, <1>8 DEF Assemble, Fail, TypeOK, Request
<1>9. CASE ServerDies
  BY <1>0, <1>9 DEF ServerDies, Runner!Die
<1>10. CASE ServerStarts
  BY <1>0, <1>10 DEF ServerStarts, Runner!Recover
<1>11. CASE ClientIsDone \/ UNCHANGED vars
  BY <1>0, <1>11 DEF ClientIsDone, vars
<1> QED
  BY <1>1, <1>2, <1>3, <1>4, <1>5, <1>6, <1>7, <1>8, <1>9, <1>10, <1>11 DEF Next, Step

(* Only an admitted request reaches a handler, here or in a worker.        *)
LEMMA AdmissionStep ==
  ASSUME IInv, TypeOK', [Next]_vars PROVE NothingRunsUnlessAdmitted'
<1> USE RegistryAssumption DEF RegistryAssumption, runnerVars, NothingRunsUnlessAdmitted
<1>0. TypeOK /\ InStep /\ FutureIsBlank /\ Routed /\ NothingRunsUnlessAdmitted
  BY DEF IInv
<1>1. CASE BeginRequest
  BY <1>0, <1>1 DEF BeginRequest, TypeOK, FutureIsBlank, Request
<1>2. ASSUME Admissible(request[n])
      PROVE  /\ request[n].flaws = {}
             /\ \E op \in Resolve(request[n].name) : Registry[op].state # "disabled"
  BY <1>2 DEF Admissible, Flaws
<1>3. CASE RouteToWorker
  <2>1. /\ calls' = calls + 1 /\ calls \in Nat /\ n \in Request
        /\ request[n].flaws = {}
        /\ \E op \in Resolve(request[n].name) : Registry[op].state # "disabled"
        /\ callOf' = [callOf EXCEPT ![n] = calls + 1]
        /\ where' = [where EXCEPT ![n] = "worker"] /\ UNCHANGED request
    BY <1>0, <1>2, <1>3 DEF RouteToWorker, Runner!Accept, TypeOK, InStep
  <2>2. callOf[n] = 0 /\ \A r \in Request : r > n => callOf[r] = 0
    BY <1>0, <1>3, <2>1 DEF RouteToWorker, InStep, FutureIsBlank
  <2>3. \A r \in Request : callOf[r] \in Nat /\ callOf[r] <= calls
    BY <1>0 DEF TypeOK, Routed
  <2>4. \A c \in 1 .. calls' : \E r \in Request : callOf'[r] = c
    BY <1>0, <2>1, <2>2 DEF TypeOK
  <2>5. \A r, s \in Request : r < s /\ callOf'[s] # 0 => callOf'[r] < callOf'[s]
    BY <1>0, <2>1, <2>2, <2>3 DEF TypeOK, Request
  <2> QED
    BY <1>0, <2>1, <2>4, <2>5 DEF TypeOK
<1>4. CASE RouteToServer
  BY <1>0, <1>2, <1>4 DEF RouteToServer, TypeOK, InStep, Resolve
<1>5. CASE Refuse \/ HandlerReturns \/ RunnerReplies \/ Collect \/ Assemble
  BY <1>0, <1>5 DEF Refuse, HandlerReturns, RunnerReplies, Collect, Assemble, Runner!Reply
<1>6. CASE ServerDies \/ ServerStarts
  BY <1>0, <1>6 DEF ServerDies, ServerStarts, Runner!Die, Runner!Recover
<1>7. CASE ClientIsDone \/ UNCHANGED vars
  BY <1>0, <1>7 DEF ClientIsDone, vars
<1> QED
  BY <1>1, <1>3, <1>4, <1>5, <1>6, <1>7 DEF Next, Step

(* An error is never the code of a result that is ok.                      *)
LEMMA FailIsNotOk ==
  ASSUME TypeOK, n \in Request, NEW code \in ErrorCodes, Fail(code)
  PROVE  /\ result'[n].code = code /\ result'[n].code # "ok" /\ result'[n] # NoResult
         /\ \A r \in Request : r # n => result'[r] = result[r]
BY DEF Fail, TypeOK, NoResult, ErrorCodes

(* A step of a handler ends the request with an error or leaves it open.   *)
LEMMA HandlerEndsResult ==
  ASSUME TypeOK, n \in Request, HandlerEnds
  PROVE  /\ \A r \in Request : r # n => result'[r] = result[r]
         /\ result'[n] = result[n] \/ result'[n].code \in HandlerErrors
<1>1. ASSUME NEW code \in HandlerErrors, Fail(code)
      PROVE  /\ \A r \in Request : r # n => result'[r] = result[r]
             /\ result'[n].code \in HandlerErrors
  BY <1>1, FailIsNotOk DEF HandlerErrors, ErrorCodes
<1> QED
  BY <1>1 DEF HandlerEnds

(* The results of a step: an old one, an error, or one told truthfully.    *)
LEMMA ResultStep ==
  ASSUME IInv, [Next]_vars, NEW r \in Request
  PROVE  \/ result'[r] = result[r]
         \/ /\ r = n /\ result[r] = NoResult /\ result'[r].code # "ok"
            /\ \/ pc = "admit"
               \/ pc = "handler"
               \/ pc = "assemble"
               \/ pc = "collect" /\ replies[callOf[r]].code = "answer"
               \/ pc = "collect" /\ result'[r].code = replies[callOf[r]].code
         \/ /\ Assemble /\ r = n /\ result[r] = NoResult
            /\ result'[r].certainty = Enforce(BackendOf(outcome), Operation,
                  outcome.method, outcome.certainty, outcome.override)
            /\ result'[r].limits = Trace.limits
            /\ result'[r].isolated = Trace.isolated
<1> USE DEF runnerVars
<1>0. TypeOK /\ InStep
  BY DEF IInv
<1>1. CASE Refuse
  <2>1. PICK code \in Refusal(request[n]) : Fail(code)
    BY <1>1 DEF Refuse
  <2> QED
    BY <1>0, <1>1, <2>1, RefusalType, FailIsNotOk DEF InStep, Refuse
<1>2. CASE HandlerReturns
  BY <1>0, <1>2, HandlerEndsResult DEF HandlerReturns, InStep, HandlerErrors
<1>3. CASE Collect
  <2>1. CASE replies[callOf[n]].code = "answer"
    BY <1>0, <1>3, <2>1, HandlerEndsResult DEF Collect, InStep, HandlerErrors
  <2>2. CASE replies[callOf[n]].code # "answer"
    <3>1. replies[callOf[n]] \in Runner!Replies
      BY <1>0, <1>3 DEF Collect, IInv, InStep, NothingRunsUnlessAdmitted, TypeOK, Request
    <3>2. replies[callOf[n]].code \in ErrorCodes
      BY <2>2, <3>1 DEF Runner!Replies, Runner!Codes, ErrorCodes
    <3> QED
      BY <1>0, <1>3, <2>2, <3>2, FailIsNotOk DEF Collect, InStep
  <2> QED
    BY <2>1, <2>2
<1>4. CASE Assemble
  <2>1. CASE OverLimit(outcome.size)
    <3>1. Fail("OUTPUT_TOO_LARGE") /\ n \in Request /\ result[n] = NoResult /\ pc = "assemble"
      BY <1>0, <1>4, <2>1 DEF Assemble, InStep
    <3> QED
      BY <1>0, <3>1, FailIsNotOk DEF ErrorCodes
  <2>2. CASE ~OverLimit(outcome.size)
    <3>1. n \in Request /\ result[n] = NoResult
      BY <1>0, <1>4 DEF Assemble, InStep
    <3> QED
      BY <1>0, <1>4, <2>2, <3>1 DEF Assemble, TypeOK
  <2> QED
    BY <2>1, <2>2
<1>5. CASE BeginRequest \/ RouteToWorker \/ RouteToServer \/ RunnerReplies
  BY <1>5 DEF BeginRequest, RouteToWorker, RouteToServer, RunnerReplies
<1>6. CASE ServerDies \/ ServerStarts \/ ClientIsDone \/ UNCHANGED vars
  BY <1>6 DEF ServerDies, ServerStarts, ClientIsDone, vars
<1> QED
  BY <1>1, <1>2, <1>3, <1>4, <1>5, <1>6 DEF Next, Step

(* The history of a request whose handler has run or that is over does not *)
(* change any more, and neither does a reply of the runner.                *)
LEMMA HistoryStep ==
  ASSUME IInv, [Next]_vars, NEW r \in Request
  PROVE  /\ UNCHANGED <<force, allow>>
         /\ r <= n => request'[r] = request[r]
         /\ r # n \/ pc # "admit" => where'[r] = where[r] /\ callOf'[r] = callOf[r]
         /\ replies[r] # Runner!NoReply => replies'[r] = replies[r]
         /\ pc = "assemble" \/ pc = "collect" => UNCHANGED runnerVars \/ result'[r] = result[r]
<1> USE DEF runnerVars
<1>0. TypeOK /\ InStep
  BY DEF IInv
<1>1. CASE BeginRequest
  BY <1>0, <1>1 DEF BeginRequest, TypeOK, Request
<1>2. CASE RouteToWorker
  BY <1>0, <1>2 DEF RouteToWorker, Runner!Accept, TypeOK
<1>3. CASE RouteToServer
  BY <1>0, <1>3 DEF RouteToServer, TypeOK
<1>4. CASE RunnerReplies
  BY <1>0, <1>4 DEF RunnerReplies, Runner!Reply, TypeOK, Runner!Replies, Runner!NoReply,
                    Runner!Codes, InStep
<1>5. CASE Refuse \/ HandlerReturns \/ Collect \/ Assemble
  BY <1>5 DEF Refuse, HandlerReturns, Collect, Assemble
<1>6. CASE ServerDies \/ ServerStarts
  BY <1>6 DEF ServerDies, ServerStarts, Runner!Die, Runner!Recover
<1>7. CASE ClientIsDone \/ UNCHANGED vars
  BY <1>7 DEF ClientIsDone, vars
<1> QED
  BY <1>1, <1>2, <1>3, <1>4, <1>5, <1>6, <1>7 DEF Next, Step

(* Routing: calls are counted, and a handler is where it was sent.         *)
LEMMA RouteStep ==
  ASSUME IInv, TypeOK', [Next]_vars, NEW r \in Request
  PROVE  /\ callOf'[r] <= calls'
         /\ where'[r] = "worker" =>
              ~force' /\ \A op \in Resolve(request'[r].name) : Registry[op].sub
         /\ where'[r] = "server" =>
              force' \/ \A op \in Resolve(request'[r].name) : ~Registry[op].sub
<1> USE RegistryAssumption DEF RegistryAssumption, runnerVars
<1>0. TypeOK /\ InStep /\ FutureIsBlank /\ Routed
  BY DEF IInv
<1>1. CASE BeginRequest
  <2>1. CASE r = n + 1
    <3>1. UNCHANGED <<where, callOf, calls>>
      BY <1>1 DEF BeginRequest
    <3>2. r > n
      BY <1>0, <2>1 DEF TypeOK
    <3>3. where[r] = "nowhere"
      BY <1>0, <3>2 DEF FutureIsBlank
    <3> QED
      BY <1>0, <3>1, <3>3 DEF Routed
  <2>2. CASE r # n + 1
    BY <1>0, <1>1, <2>2 DEF BeginRequest, Routed, TypeOK, Request
  <2> QED
    BY <2>1, <2>2
<1>2. ASSUME Admissible(request[n])
      PROVE  Resolve(request[n].name) = {Operation}
  BY <1>2 DEF Admissible, Flaws, Resolve, Operation
<1>3. CASE RouteToWorker
  <2>1. /\ calls' = calls + 1 /\ calls \in Nat /\ ~force /\ UNCHANGED <<force, request>>
        /\ \A op \in Resolve(request[n].name) : Registry[op].sub
        /\ callOf' = [callOf EXCEPT ![n] = calls + 1]
        /\ where' = [where EXCEPT ![n] = "worker"]
    BY <1>0, <1>2, <1>3 DEF RouteToWorker, Runner!Accept, TypeOK
  <2>2. callOf[r] \in Nat /\ callOf[r] <= calls
    BY <1>0 DEF Routed, TypeOK
  <2>3. CASE r = n
    BY <1>0, <2>1, <2>3 DEF TypeOK
  <2>4. CASE r # n
    BY <1>0, <2>1, <2>2, <2>4 DEF TypeOK, Routed
  <2> QED
    BY <2>3, <2>4
<1>4. CASE RouteToServer
  BY <1>0, <1>2, <1>4 DEF RouteToServer, Routed, TypeOK
<1>5. CASE Refuse \/ HandlerReturns \/ RunnerReplies \/ Collect \/ Assemble
  BY <1>0, <1>5 DEF Refuse, HandlerReturns, RunnerReplies, Collect, Assemble,
                    Runner!Reply, Routed
<1>6. CASE ServerDies \/ ServerStarts
  BY <1>0, <1>6 DEF ServerDies, ServerStarts, Runner!Die, Runner!Recover, Routed
<1>7. CASE ClientIsDone \/ UNCHANGED vars
  BY <1>0, <1>7 DEF ClientIsDone, vars, Routed
<1> QED
  BY <1>1, <1>3, <1>4, <1>5, <1>6, <1>7 DEF Next, Step

(* No step makes the runner answer what it may not.                        *)
LEMMA PermittedStep ==
  ASSUME IInv, [Next]_vars, NEW c \in Request
  PROVE  Runner!Permitted(replies[c])'
<1> USE DEF runnerVars
<1>0. TypeOK /\ Runner!Permitted(replies[c])
  BY DEF IInv, Routed
<1>1. CASE RunnerReplies
  <2>1. PICK s \in Runner!Replies : Runner!Reply(s)
    BY <1>1 DEF RunnerReplies
  <2>2. replies'[c] = s \/ replies'[c] = replies[c]
    BY <1>0, <2>1 DEF Runner!Reply, TypeOK
  <2> QED
    BY <1>0, <2>1, <2>2 DEF Runner!Reply, Runner!Permitted
<1>2. CASE BeginRequest \/ Refuse \/ RouteToServer \/ HandlerReturns \/ Collect \/ Assemble
  BY <1>0, <1>2 DEF BeginRequest, Refuse, RouteToServer, HandlerReturns, Collect, Assemble,
                    Runner!Permitted
<1>3. CASE RouteToWorker
  BY <1>0, <1>3 DEF RouteToWorker, Runner!Accept, Runner!Permitted
<1>4. CASE ServerDies \/ ServerStarts
  BY <1>0, <1>4 DEF ServerDies, ServerStarts, Runner!Die, Runner!Recover, Runner!Permitted
<1>5. CASE ClientIsDone \/ UNCHANGED vars
  BY <1>0, <1>5 DEF ClientIsDone, vars, Runner!Permitted
<1> QED
  BY <1>1, <1>2, <1>3, <1>4, <1>5 DEF Next, Step

(* TraceIsTruthful asks that all three flags be up behind a call and down  *)
(* without one.                                                            *)
LEMMA LimitsTold ==
  ASSUME NEW c \in 0 .. MaxRequests, NEW told \in SUBSET WorkerLimits
  PROVE  /\ InForce(c) \subseteq told
         /\ told \ InForce(c) = IF c \in Uncapped THEN {"memory"} ELSE {}
    <=>  told = IF c # 0 THEN WorkerLimits ELSE {}
<1>1. Uncapped \subseteq 1 .. MaxRequests
  BY RegistryAssumption DEF RegistryAssumption
<1>2. CASE c = 0
  <2>1. InForce(c) = {} /\ c \notin Uncapped
    BY <1>1, <1>2 DEF InForce
  <2> QED
    BY <1>2, <2>1
<1>3. CASE c # 0 /\ c \in Uncapped
  <2>1. InForce(c) = {"cpu", "file_size"}
    BY <1>3 DEF InForce, WorkerLimits
  <2> QED
    BY <1>3, <2>1 DEF WorkerLimits
<1>4. CASE c # 0 /\ c \notin Uncapped
  <2>1. InForce(c) = WorkerLimits
    BY <1>4 DEF InForce
  <2> QED
    BY <1>4, <2>1
<1> QED
  BY <1>2, <1>3, <1>4

(* What was told of a request stays true of it.                            *)
LEMMA ToldStep ==
  ASSUME IInv, TypeOK', NothingRunsUnlessAdmitted', [Next]_vars,
         NEW r \in Request, result'[r].code = "ok"
  PROVE  /\ where'[r] # "nowhere"
         /\ where'[r] = "worker" => replies'[callOf'[r]].code = "answer"
         /\ result'[r].limits = IF where'[r] = "worker" THEN WorkerLimits ELSE {}
         /\ result'[r].isolated <=> where'[r] = "worker" /\ replies'[callOf'[r]].isolated
<1>0. TypeOK /\ InStep /\ FutureIsBlank /\ Routed /\ NothingRunsUnlessAdmitted /\ TraceIsTruthful
  BY DEF IInv
<1>1. CASE result'[r] = result[r]
  <2>1. pc = "admit" => r # n
    BY <1>0, <1>1 DEF InStep, NoResult
  <2>2. where'[r] = where[r] /\ callOf'[r] = callOf[r]
    BY <2>1, HistoryStep
  <2>3. where[r] = "worker" => callOf[r] \in Request
    BY <1>0 DEF NothingRunsUnlessAdmitted, TypeOK, Request
  <2>4. where[r] = "worker" => replies'[callOf[r]] = replies[callOf[r]]
    BY <1>0, <1>1, <2>3, HistoryStep DEF Routed, Runner!NoReply
  <2>5. callOf[r] \in 0 .. MaxRequests /\ result[r].limits \in SUBSET WorkerLimits
    BY <1>0 DEF TypeOK, Results, NoResult
  <2>6. result[r].limits = IF callOf[r] # 0 THEN WorkerLimits ELSE {}
    <3> DEFINE c == callOf[r]
               limits == result[r].limits
    <3>1. /\ InForce(c) \subseteq limits
          /\ limits \ InForce(c) = IF c \in Uncapped THEN {"memory"} ELSE {}
      BY <1>0, <1>1 DEF TraceIsTruthful
    <3>2. c \in 0 .. MaxRequests /\ limits \in SUBSET WorkerLimits
      BY <2>5
    <3> HIDE DEF c, limits
    <3>3. limits = IF c # 0 THEN WorkerLimits ELSE {}
      BY <3>1, <3>2, LimitsTold
    <3> QED
      BY <3>3 DEF c, limits
  <2>7. where[r] = "worker" <=> callOf[r] # 0
    BY <1>0 DEF NothingRunsUnlessAdmitted, TypeOK
  <2> QED
    BY <1>0, <1>1, <2>2, <2>3, <2>4, <2>6, <2>7 DEF Routed, TraceIsTruthful, NothingRunsUnlessAdmitted
<1>2. CASE Assemble /\ r = n /\ result'[r].limits = Trace.limits
                   /\ result'[r].isolated = Trace.isolated
  <2>1. UNCHANGED <<where, callOf, runnerVars>> /\ pc = "assemble"
    BY <1>2 DEF Assemble
  <2> QED
    BY <1>0, <1>2, <2>1 DEF InStep, Trace, runnerVars
<1> QED
  BY <1>1, <1>2, ResultStep

(* What is recorded of a routed request stays true of it.                  *)
LEMMA RoutedStep ==
  ASSUME IInv, TypeOK', NothingRunsUnlessAdmitted', [Next]_vars PROVE Routed'
BY RouteStep, PermittedStep, ToldStep DEF Routed

(* The metadata of a result agrees with the call that was made.            *)
LEMMA TraceStep ==
  ASSUME IInv, TypeOK', NothingRunsUnlessAdmitted', Routed', [Next]_vars
  PROVE  TraceIsTruthful'
<1> SUFFICES ASSUME NEW r \in Request, result'[r].code = "ok"
             PROVE  /\ InForce(callOf'[r]) \subseteq result'[r].limits
                    /\ result'[r].limits \ InForce(callOf'[r]) =
                         IF callOf'[r] \in Uncapped THEN {"memory"} ELSE {}
                    /\ result'[r].isolated <=> callOf'[r] # 0 /\ replies'[callOf'[r]].isolated
                    /\ \A op \in Resolve(request'[r].name) :
                         Registry[op].sub => result'[r].isolated \/ allow' \/ force'
  BY DEF TraceIsTruthful
<1>1. /\ where'[r] # "nowhere"
      /\ where'[r] = "worker" => replies'[callOf'[r]].code = "answer"
      /\ result'[r].limits = IF where'[r] = "worker" THEN WorkerLimits ELSE {}
      /\ result'[r].isolated <=> where'[r] = "worker" /\ replies'[callOf'[r]].isolated
  BY ToldStep
<1>2. /\ where'[r] = "worker" <=> callOf'[r] # 0
      /\ where'[r] = "worker" => callOf'[r] \in Request
  BY DEF NothingRunsUnlessAdmitted, TypeOK, Request
<1>3. where'[r] = "worker" \/ where'[r] = "server"
  BY <1>1 DEF TypeOK
<1>4. ASSUME where'[r] = "worker", ~result'[r].isolated PROVE allow'
  BY <1>1, <1>2, <1>4 DEF Routed, Runner!Permitted
<1>5. callOf'[r] \in 0 .. MaxRequests /\ result'[r].limits \in SUBSET WorkerLimits
  BY DEF TypeOK, Results, NoResult
<1>6. result'[r].limits = IF callOf'[r] # 0 THEN WorkerLimits ELSE {}
  BY <1>1, <1>2
<1>7. /\ InForce(callOf'[r]) \subseteq result'[r].limits
      /\ result'[r].limits \ InForce(callOf'[r]) =
           IF callOf'[r] \in Uncapped THEN {"memory"} ELSE {}
  BY <1>5, <1>6, LimitsTold
<1> QED
  BY <1>1, <1>2, <1>3, <1>4, <1>7 DEF Routed

(* No verdict of the runner but an answer turns into a success.            *)
LEMMA VerdictStep ==
  ASSUME IInv, TypeOK', NothingRunsUnlessAdmitted', Routed', [Next]_vars
  PROVE  RunnerVerdictsReachTheClient'
<1> SUFFICES ASSUME NEW r \in Request, callOf'[r] # 0, result'[r] # NoResult
             PROVE  \/ replies'[callOf'[r]].code = "answer"
                    \/ result'[r].code = replies'[callOf'[r]].code
  BY DEF RunnerVerdictsReachTheClient
<1>0. TypeOK /\ InStep /\ FutureIsBlank /\ Routed /\ NothingRunsUnlessAdmitted
      /\ RunnerVerdictsReachTheClient
  BY DEF IInv
<1>1. CASE result'[r] = result[r]
  <2>1. callOf'[r] = callOf[r]
    BY <1>0, <1>1, HistoryStep DEF InStep
  <2>2. callOf[r] \in Request
    BY <1>0, <2>1 DEF TypeOK, Request
  <2>3. replies[callOf[r]].code = "answer" \/ result[r].code = replies[callOf[r]].code
    BY <1>0, <1>1, <2>1 DEF RunnerVerdictsReachTheClient
  <2>4. replies'[callOf[r]] = replies[callOf[r]]
    <3>1. CASE replies[callOf[r]] # Runner!NoReply
      BY <2>2, <3>1, HistoryStep
    <3>2. CASE replies[callOf[r]] = Runner!NoReply
      <4>1. result[r].code = "none"
        BY <2>3, <3>2 DEF Runner!NoReply
      <4>2. result[r] \in Results
        BY <1>0, <1>1 DEF TypeOK
      <4> QED
        BY <4>1, <4>2 DEF Results, ErrorCodes
    <3> QED
      BY <3>1, <3>2
  <2> QED
    BY <1>1, <2>1, <2>3, <2>4
<1>2. CASE result'[r] # result[r]
  <2>1. r = n /\ n \in Request /\ result[r] = NoResult
    BY <1>2, ResultStep
  <2>2. CASE pc = "admit"
    <3>1. Refuse
      BY <1>0, <1>2, <2>2, ResultStep DEF Next, Step, BeginRequest, RouteToWorker,
         RouteToServer, HandlerReturns, RunnerReplies, Collect, Assemble, ServerDies,
         ServerStarts, ClientIsDone, vars
    <3> QED
      BY <1>0, <2>1, <2>2, <3>1 DEF Refuse, InStep, NothingRunsUnlessAdmitted
  <2>3. CASE pc # "admit"
    <3>1. callOf'[r] = callOf[r] /\ where'[r] = where[r]
      BY <2>3, HistoryStep
    <3>2. where[r] = "worker" /\ callOf[r] \in Request
      <4>1. callOf[r] # 0
        BY <3>1
      <4>2. where[r] = "worker"
        BY <1>0, <4>1 DEF NothingRunsUnlessAdmitted
      <4>3. callOf[r] \in 0 .. MaxRequests
        BY <1>0 DEF TypeOK
      <4> QED
        BY <4>1, <4>2, <4>3 DEF Request
    <3>3. pc \in {"assemble", "collect"}
      BY <1>0, <1>2, <2>1, <2>3, <3>2, ResultStep DEF InStep, Assemble
    <3>4. UNCHANGED replies
      BY <1>2, <3>3, HistoryStep DEF runnerVars
    <3>5. CASE pc = "assemble"
      BY <1>0, <2>1, <3>1, <3>2, <3>4, <3>5 DEF InStep
    <3>6. CASE pc = "collect"
      BY <1>2, <3>1, <3>4, <3>6, ResultStep DEF Assemble
    <3> QED
      BY <3>3, <3>5, <3>6
  <2> QED
    BY <2>2, <2>3
<1> QED
  BY <1>1, <1>2

(* Only a handler's return brings an outcome to be assembled.              *)
LEMMA OutcomeStep ==
  ASSUME IInv, [Next]_vars PROVE OutcomeIsReported'
<1> USE DEF OutcomeIsReported, Operation, runnerVars
<1>0. OutcomeIsReported
  BY DEF IInv
<1>1. CASE BeginRequest \/ RouteToWorker \/ RouteToServer \/ RunnerReplies
  BY <1>1 DEF BeginRequest, RouteToWorker, RouteToServer, RunnerReplies
<1>2. CASE Refuse
  BY <1>2 DEF Refuse, Fail
<1>3. CASE HandlerReturns
  BY <1>3 DEF HandlerReturns, HandlerEnds, Fail
<1>4. CASE Collect
  BY <1>4 DEF Collect, HandlerEnds, Fail
<1>5. CASE Assemble
  BY <1>5 DEF Assemble, Fail
<1>6. CASE ServerDies \/ ServerStarts
  BY <1>6 DEF ServerDies, ServerStarts
<1>7. CASE ClientIsDone \/ UNCHANGED vars
  BY <1>0, <1>7 DEF ClientIsDone, vars
<1> QED
  BY <1>1, <1>2, <1>3, <1>4, <1>5, <1>6, <1>7 DEF Next, Step

LEMMA InvStep == IInv /\ [Next]_vars => IInv'
<1> SUFFICES ASSUME IInv, [Next]_vars PROVE IInv'
  OBVIOUS
<1>1. TypeOK'
  BY TypeStep
<1>2. NothingRunsUnlessAdmitted'
  BY <1>1, AdmissionStep
<1>3. Routed'
  BY <1>1, <1>2, RoutedStep
<1> QED
  BY <1>1, <1>2, <1>3, InStepStep, FutureStep, OutcomeStep, TraceStep, VerdictStep DEF IInv

-----------------------------------------------------------------------------
(* IInv is inductive: it holds at the start and every step keeps it.       *)
THEOREM InductiveInvariant == Spec => []IInv
BY InitInv, InvStep, PTL DEF Spec, Safety

(* The state of the dispatcher always has its type: every answer carries a *)
(* code of the ErrorCode enumeration and is one a ToolResult can be.       *)
THEOREM TypeCorrect == Spec => []TypeOK
BY InductiveInvariant, PTL DEF IInv

(* Nothing that a gate refuses reaches a handler, a worker or a sandbox,   *)
(* whatever the registry, the aliases and the client.                      *)
THEOREM AdmittedOnly == Spec => []NothingRunsUnlessAdmitted
<1>1. IInv => NothingRunsUnlessAdmitted
  BY DEF IInv
<1> QED
  BY <1>1, InductiveInvariant, PTL

(* Every result claims the limits in force for its own call, and memory    *)
(* besides where that cap was refused; isolation as its call had it; and   *)
(* only the two switches let a sandboxed operation do without.             *)
THEOREM TruthfulTrace == Spec => []TraceIsTruthful
<1>1. IInv => TraceIsTruthful
  BY DEF IInv
<1> QED
  BY <1>1, InductiveInvariant, PTL

(* Every failure of the runner is what the client is told.                 *)
THEOREM VerdictsReachTheClient == Spec => []RunnerVerdictsReachTheClient
<1>1. IInv => RunnerVerdictsReachTheClient
  BY DEF IInv
<1> QED
  BY <1>1, InductiveInvariant, PTL

LEMMA ToldFromOutcome ==
  ASSUME IInv, [Next]_vars, NEW r \in Request, result[r] = NoResult, result'[r].code = "ok"
  PROVE  /\ Assemble /\ r = n
         /\ result'[r].certainty = Enforce(BackendOf(outcome), Operation,
               outcome.method, outcome.certainty, outcome.override)
         /\ outcome.certainty \in Certainties /\ outcome.override \in BOOLEAN
<1>1. outcome.certainty \in Certainties /\ outcome.override \in BOOLEAN
  BY DEF IInv, TypeOK, Outcome
<1> QED
  BY <1>1, ResultStep DEF NoResult

(* No result is told with more certainty than its handler found, the two   *)
(* opposite verdicts are never swapped, and a caveat is never lost: what   *)
(* an operation with a caveat against its backend found without a method   *)
(* of proof is told as evidence at most.                                   *)
THEOREM CertaintyWarranted == Spec => CertaintyIsWarranted
<1>1. IInv /\ [Next]_vars =>
        [\A r \in Request :
           result[r] = NoResult /\ result'[r].code = "ok" =>
             ToldAsFound(r) /\ ToldAsSampled(r)]_vars
  <2> SUFFICES ASSUME IInv, [Next]_vars, NEW r \in Request,
                      result[r] = NoResult, result'[r].code = "ok"
               PROVE  ToldAsFound(r) /\ ToldAsSampled(r)
    OBVIOUS
  <2>1. /\ Assemble /\ r = n
        /\ result'[r].certainty = Enforce(BackendOf(outcome), Operation,
              outcome.method, outcome.certainty, outcome.override)
        /\ outcome.certainty \in Certainties /\ outcome.override \in BOOLEAN
    BY ToldFromOutcome
  <2>2. ToldAsFound(r)
    <3>1. /\ result'[r].certainty \in Certainties
          /\ result'[r].certainty = outcome.certainty
               \/ Rank[result'[r].certainty] > Rank[outcome.certainty]
      BY <2>1, EnforceOnlyWeakens
    <3>2. \A c \in Certainties : Rank[c] \in Nat
      BY DEF Rank, Certainties
    <3> QED
      BY <2>1, <3>1, <3>2 DEF ToldAsFound
  <2>3. ToldAsSampled(r)
    <3> SUFFICES ASSUME outcome.method \notin ProofMethods, ~outcome.override,
                        NEW op \in Resolve(request[r].name), NEW c \in CAVEATS,
                        c = Caveat(IF outcome.backend = "none" THEN Registry[op].backend
                                   ELSE outcome.backend, op, "evidence")
                 PROVE  Rank[result'[r].certainty] >= Rank["evidence"]
      BY DEF ToldAsSampled
    <3>1. op = Operation
      BY <2>1, RegistryAssumption DEF RegistryAssumption, Resolve, Operation
    <3>2. c \in CaveatsFor(BackendOf(outcome), Operation) /\ c.recommended = "evidence"
      BY <3>1 DEF CaveatsFor, Caveat, BackendOf
    <3> QED
      BY <2>1, <3>2, EnforceOnlyWeakens DEF Certainties
  <2> QED
    BY <2>2, <2>3
<1> QED
  BY <1>1, InductiveInvariant, PTL DEF Spec, Safety, CertaintyIsWarranted
-----------------------------------------------------------------------------
(* The promise to the client                                               *)

(* Of the gates that a request does not pass, one is met first.            *)
LEMMA FirstGateExists ==
  ASSUME NEW S \in SUBSET (1 .. 10), S # {}
  PROVE  \E j \in S : \A k \in 1 .. 10 : k < j /\ k <= 7 => k \notin S
<1>1. CASE \A k \in S : k > 7
  <2>1. PICK j \in S : TRUE
    OBVIOUS
  <2>2. \A k \in 1 .. 10 : k < j /\ k <= 7 => k \notin S
    BY <1>1
  <2> QED
    BY <2>1, <2>2
<1>2. CASE \E k \in S : k <= 7
  <2>1. CASE 1 \in S
    BY <2>1
  <2>2. CASE 1 \notin S /\ 2 \in S
    BY <2>2
  <2>3. CASE {1, 2} \cap S = {} /\ 3 \in S
    BY <2>3
  <2>4. CASE {1, 2, 3} \cap S = {} /\ 4 \in S
    BY <2>4
  <2>5. CASE {1, 2, 3, 4} \cap S = {} /\ 5 \in S
    BY <2>5
  <2>6. CASE {1, 2, 3, 4, 5} \cap S = {} /\ 6 \in S
    BY <2>6
  <2>7. CASE {1, 2, 3, 4, 5, 6} \cap S = {} /\ 7 \in S
    BY <2>7
  <2> QED
    BY <1>2, <2>1, <2>2, <2>3, <2>4, <2>5, <2>6, <2>7
<1> QED
  BY <1>1, <1>2

(* There is a gate for everything that can be wrong with a request.        *)
LEMMA EveryFlawHasAGate ==
  ASSUME NEW req \in Requests, NEW flaw \in Flaws(req)
  PROVE  \E j \in 1 .. 10 : Gates[j].flaw = flaw
<1>1. DOMAIN Gates = 1 .. 10
  BY DEF Gates
<1>2. Gates[5].flaw = "unknown" /\ Gates[6].flaw = "disabled"
  BY DEF Gates
<1>3. flaw \in ClientFlaws \/ flaw = "unknown" \/ flaw = "disabled"
  BY DEF Flaws, Requests
<1>4. ASSUME flaw \in ClientFlaws PROVE \E j \in 1 .. 10 : Gates[j].flaw = flaw
  BY <1>1, <1>4 DEF ClientFlaws
<1> QED
  BY <1>2, <1>3, <1>4

(* So a request that is not admissible is refused with some error.         *)
LEMMA RefusalExists ==
  ASSUME NEW req \in Requests, ~Admissible(req) PROVE Refusal(req) # {}
<1> DEFINE S == {j \in 1 .. 10 : Gates[j].flaw \in Flaws(req)}
<1>1. DOMAIN Gates = 1 .. 10
  BY DEF Gates
<1>2. S # {}
  BY EveryFlawHasAGate DEF Admissible
<1>3. PICK j \in S : \A k \in 1 .. 10 : k < j /\ k <= 7 => k \notin S
  <2> HIDE DEF S
  <2>1. S \in SUBSET (1 .. 10)
    BY DEF S
  <2> QED
    BY <1>2, <2>1, FirstGateExists
<1>4. \A k \in Before(j) : Gates[k].flaw \notin Flaws(req)
  BY <1>1, <1>3 DEF Before
<1>5. Gates[j].code \in Refusal(req)
  BY <1>1, <1>3, <1>4 DEF Refusal
<1> QED
  BY <1>5

(* The errors for a set of codes are results, each with its own code.      *)
LEMMA ErrorsAreResults ==
  ASSUME NEW codes \in SUBSET ErrorCodes PROVE Errors(codes) \subseteq Results
BY DEF Errors, NoResult, Results, Certainties, Methods, Kinds, Sizes

(* An admissible request names exactly the operation it resolves to.       *)
LEMMA AdmissibleResolves ==
  ASSUME NEW req, Admissible(req)
  PROVE  \E op \in DOMAIN Registry : Resolve(req.name) = {op}
BY RegistryAssumption DEF RegistryAssumption, Admissible, Flaws, Resolve

(* What may be told of an outcome of a registered operation is a result.   *)
LEMMA PermissibleResults ==
  ASSUME NEW op \in DOMAIN Registry, NEW forced \in BOOLEAN, NEW allowed \in BOOLEAN
  PROVE  /\ Permissible(op, forced, allowed) \subseteq Results
         /\ Permissible(op, forced, allowed) # {}
<1> DEFINE boxed == Registry[op].sub /\ ~forced
<1>1. Errors(HandlerErrors) \subseteq Results
  BY ErrorsAreResults DEF HandlerErrors, ErrorCodes
<1>2. Errors(Runner!Codes \ {"answer"}) \subseteq Results
  BY ErrorsAreResults DEF Runner!Codes, ErrorCodes
<1>3. Warranted(op, boxed, allowed) \subseteq Results
  <2>1. Outcomes[op] \subseteq Outcome /\ boxed \in BOOLEAN
    BY RegistryAssumption DEF RegistryAssumption, Specs
  <2>2. ASSUME NEW o \in Outcome PROVE WarrantedBy(o, boxed, allowed) \subseteq Results
    BY <2>1, <2>2 DEF WarrantedBy, Outcome, Results
  <2> QED
    BY <2>1, <2>2 DEF Warranted
<1>4. [NoResult EXCEPT !.code = "PARSE_REJECTED"] \in Errors(HandlerErrors)
  BY DEF Errors, HandlerErrors
<1> QED
  BY <1>1, <1>2, <1>3, <1>4 DEF Permissible

(* Whatever the request, there is a result it may get.                     *)
LEMMA ThereIsAnAnswer ==
  ASSUME NEW req \in Requests, NEW forced \in BOOLEAN, NEW allowed \in BOOLEAN
  PROVE  /\ MayGet(Question(req, forced, allowed)) \subseteq Results
         /\ MayGet(Question(req, forced, allowed)) # {}
<1> USE DEF Question
<1>1. CASE Admissible(req)
  <2>1. PICK op \in DOMAIN Registry : Resolve(req.name) = {op}
    BY <1>1, AdmissibleResolves
  <2>2. MayGet(Question(req, forced, allowed)) = Permissible(op, forced, allowed)
    BY <1>1, <2>1 DEF MayGet
  <2> QED
    BY <2>2, PermissibleResults
<1>2. CASE ~Admissible(req)
  <2>1. Refusal(req) \subseteq ErrorCodes
    BY RefusalType
  <2>2. PICK code \in Refusal(req) : TRUE
    BY <1>2, RefusalExists
  <2>3. [NoResult EXCEPT !.code = code] \in Errors(Refusal(req))
    BY DEF Errors
  <2>4. Errors(Refusal(req)) \subseteq Results
    BY <2>1, ErrorsAreResults
  <2> QED
    BY <1>2, <2>3, <2>4 DEF MayGet
<1> QED
  BY <1>1, <1>2

(* The current request runs for the one operation that it resolves to, and *)
(* may get what that operation permits.                                    *)
LEMMA RunningIsPromised ==
  ASSUME IInv, pc \in {"handler", "collect", "assemble"}
  PROVE  /\ n \in Request /\ result[n] = NoResult
         /\ Operation \in Resolve(request[n].name)
         /\ MayGet(Question(request[n], force, allow)) = Permissible(Operation, force, allow)
         /\ where[n] = "worker" <=> Registry[Operation].sub /\ ~force
<1>1. /\ n \in Request /\ where[n] # "nowhere" /\ result[n] = NoResult
      /\ request[n].flaws = {} /\ where[n] \in {"server", "worker"}
  BY DEF IInv, InStep, NothingRunsUnlessAdmitted, TypeOK
<1>2. PICK op \in Resolve(request[n].name) : Registry[op].state # "disabled"
  BY <1>1 DEF IInv, NothingRunsUnlessAdmitted
<1>3. op \in DOMAIN Registry /\ Resolve(request[n].name) = {op}
  BY <1>2, RegistryAssumption DEF RegistryAssumption, Resolve
<1>4. Operation = op
  BY <1>2, <1>3 DEF Operation
<1>5. Admissible(request[n])
  BY <1>1, <1>2, <1>3 DEF Admissible, Flaws
<1>6. MayGet(Question(request[n], force, allow)) = Permissible(op, force, allow)
  BY <1>3, <1>5 DEF MayGet, Question
<1>7. where[n] = "worker" <=> Registry[op].sub /\ ~force
  BY <1>1, <1>2, <1>3 DEF IInv, Routed
<1> QED
  BY <1>1, <1>2, <1>4, <1>6, <1>7

(* An error that the request may get answers it as promised.               *)
LEMMA FailAnswers ==
  ASSUME IInv, pc \notin {"idle", "down"}, NEW code, Fail(code),
         [NoResult EXCEPT !.code = code] \in MayGet(Question(request[n], force, allow)),
         UNCHANGED <<force, allow, n, request>>
  PROVE  Client!Answer
<1> DEFINE question == [r \in Request |-> Question(request[r], force, allow)]
           res == [NoResult EXCEPT !.code = code]
<1>1. n \in Request /\ result[n] = NoResult
  BY DEF IInv, InStep
<1>2. res \in MayGet(question[n]) /\ result' = [result EXCEPT ![n] = res] /\ pc' = "idle"
  BY <1>1 DEF Fail
<1>3. question' = question
  OBVIOUS
<1> QED
  BY <1>1, <1>2, <1>3 DEF Client!Answer

(* What a handler comes to answers its request or leaves it open.          *)
LEMMA HandlerEndsServes ==
  ASSUME IInv, pc \in {"handler", "collect"}, HandlerEnds,
         UNCHANGED <<force, allow, n, request>>
  PROVE  [Client!ServiceNext]_(Client!serviceVars)
<1>1. CASE pc' = "assemble" /\ UNCHANGED result
  BY <1>1 DEF Client!serviceVars
<1>2. ASSUME NEW code \in HandlerErrors, Fail(code) PROVE Client!Answer
  <2>1. [NoResult EXCEPT !.code = code] \in Permissible(Operation, force, allow)
    BY <1>2 DEF Permissible, Errors
  <2> QED
    BY <1>2, <2>1, RunningIsPromised, FailAnswers
<1> QED
  BY <1>1, <1>2 DEF HandlerEnds, Client!ServiceNext

(* A runner that does not answer raises an error that was promised.        *)
LEMMA CollectServes ==
  ASSUME IInv, Collect PROVE [Client!ServiceNext]_(Client!serviceVars)
<1> USE DEF runnerVars
<1>1. pc = "collect" /\ UNCHANGED <<force, allow, n, request>>
  BY DEF Collect
<1>2. CASE replies[callOf[n]].code = "answer"
  BY <1>1, <1>2, HandlerEndsServes DEF Collect
<1>3. CASE replies[callOf[n]].code # "answer"
  <2>1. replies[callOf[n]] \in Runner!Replies
    BY <1>1 DEF IInv, InStep, NothingRunsUnlessAdmitted, TypeOK, Request
  <2>2. where[n] = "worker"
    BY <1>1 DEF IInv, InStep
  <2>3. replies[callOf[n]].code \in Runner!Codes \ {"answer"}
    BY <1>3, <2>1 DEF Runner!Replies
  <2>4. [NoResult EXCEPT !.code = replies[callOf[n]].code]
          \in Errors(Runner!Codes \ {"answer"})
    BY <2>3 DEF Errors
  <2>5. [NoResult EXCEPT !.code = replies[callOf[n]].code]
          \in MayGet(Question(request[n], force, allow))
    BY <1>1, <2>2, <2>4, RunningIsPromised DEF Permissible
  <2>6. Fail(replies[callOf[n]].code)
    BY <1>3 DEF Collect
  <2>7. Client!Answer
    BY <1>1, <2>5, <2>6, FailAnswers
  <2> QED
    BY <2>7 DEF Client!ServiceNext
<1> QED
  BY <1>2, <1>3

(* An assembled result is warranted by the outcome it tells.               *)
LEMMA AssembleServes ==
  ASSUME IInv, Assemble PROVE Client!Answer
<1> DEFINE certainty == Enforce(BackendOf(outcome), Operation, outcome.method,
                                outcome.certainty, outcome.override)
           told == [code |-> "ok", certainty |-> certainty, method |-> outcome.method,
                    kind |-> outcome.kind, size |-> outcome.size,
                    limits |-> Trace.limits, isolated |-> Trace.isolated]
           boxed == Registry[Operation].sub /\ ~force
<1> USE DEF runnerVars
<1>1. pc = "assemble" /\ UNCHANGED <<force, allow, n, request>>
  BY DEF Assemble
<1>2. CASE OverLimit(outcome.size)
  <2>1. [NoResult EXCEPT !.code = "OUTPUT_TOO_LARGE"] \in Errors(HandlerErrors)
    BY DEF Errors, HandlerErrors
  <2>2. [NoResult EXCEPT !.code = "OUTPUT_TOO_LARGE"] \in MayGet(Question(request[n], force, allow))
    BY <1>1, <2>1, RunningIsPromised DEF Permissible
  <2>3. Fail("OUTPUT_TOO_LARGE")
    BY <1>2 DEF Assemble
  <2> QED
    BY <1>1, <2>2, <2>3, FailAnswers
<1>3. CASE ~OverLimit(outcome.size)
  <2>1. result' = [result EXCEPT ![n] = told] /\ pc' = "idle"
    BY <1>3 DEF Assemble
  <2>2. /\ n \in Request /\ result[n] = NoResult
        /\ MayGet(Question(request[n], force, allow)) = Permissible(Operation, force, allow)
        /\ where[n] = "worker" <=> boxed
    BY <1>1, RunningIsPromised
  <2>3. certainty \in Certainties /\ NoStronger(certainty, outcome.certainty)
    BY EnforceOnlyWeakens DEF IInv, TypeOK, Outcome, NoStronger
  <2>4. /\ Trace.limits = (IF boxed THEN WorkerLimits ELSE {}) /\ Trace.isolated \in BOOLEAN
        /\ IF boxed THEN Trace.isolated \/ allow ELSE ~Trace.isolated
    <3>1. where[n] = "worker" => callOf[n] \in Request /\ replies[callOf[n]].code = "answer"
      BY <1>1, <2>2 DEF IInv, InStep, NothingRunsUnlessAdmitted, TypeOK, Request
    <3>2. where[n] = "worker" => Runner!Permitted(replies[callOf[n]])
      BY <3>1 DEF IInv, Routed
    <3>3. /\ Trace.limits = IF where[n] = "worker" THEN WorkerLimits ELSE {}
          /\ Trace.isolated = (where[n] = "worker" /\ replies[callOf[n]].isolated)
      BY DEF Trace
    <3>4. boxed \in BOOLEAN
      BY <1>1, OperationIsRegistered, RegistryAssumption DEF RegistryAssumption, Specs
    <3>5. where[n] = "worker" => replies[callOf[n]].isolated \in BOOLEAN
      BY <3>1 DEF IInv, TypeOK, Runner!Replies, Runner!NoReply
    <3>6. Trace.limits = IF boxed THEN WorkerLimits ELSE {}
      BY <2>2, <3>3
    <3> HIDE DEF boxed
    <3>7. /\ Trace.isolated \in BOOLEAN
          /\ IF boxed THEN Trace.isolated \/ allow ELSE ~Trace.isolated
      BY <2>2, <3>1, <3>2, <3>3, <3>4, <3>5 DEF Runner!Permitted
    <3> QED
      BY <3>6, <3>7
  <2>5. told \in WarrantedBy(outcome, boxed, allow)
    <3> DEFINE kept == IF boxed THEN WorkerLimits ELSE {}
               bare == Trace.isolated
    <3>1. /\ certainty \in {c \in Certainties : NoStronger(c, outcome.certainty)}
          /\ bare \in {b \in BOOLEAN : IF boxed THEN b \/ allow ELSE ~b}
      BY <2>3, <2>4
    <3>2. told = [code |-> "ok", certainty |-> certainty, method |-> outcome.method,
                  kind |-> outcome.kind, limits |-> kept, isolated |-> bare,
                  size |-> outcome.size]
      BY <2>4
    <3> HIDE DEF certainty, bare, told, boxed
    <3> QED
      BY <3>1, <3>2 DEF WarrantedBy
  <2>6. told \in Warranted(Operation, boxed, allow)
    BY <1>1, <1>3, <2>5 DEF Warranted, IInv, OutcomeIsReported
  <2>7. told \in MayGet(Question(request[n], force, allow))
    BY <2>2, <2>6 DEF Permissible
  <2> HIDE DEF told
  <2> DEFINE question == [r \in Request |-> Question(request[r], force, allow)]
  <2>8. told \in MayGet(question[n])
    BY <2>2, <2>7
  <2>9. question' = question
    BY <1>1
  <2> QED
    BY <1>1, <2>1, <2>2, <2>8, <2>9 DEF Client!Answer
<1> QED
  BY <1>2, <1>3

(* Every step of the dispatcher is one of the service, or none.            *)
LEMMA ServiceStep ==
  ASSUME IInv, TypeOK', [Next]_vars PROVE [Client!ServiceNext]_(Client!serviceVars)
<1> USE DEF runnerVars
<1>0. TypeOK /\ InStep
  BY DEF IInv
<1> DEFINE question == [r \in Request |-> Question(request[r], force, allow)]
<1>1. CASE BeginRequest
  <2>1. /\ pc = "idle" /\ pc' = "admit" /\ n < MaxRequests /\ n' = n + 1
        /\ UNCHANGED <<result, force, allow>>
    BY <1>1 DEF BeginRequest
  <2>2. n + 1 \in Request /\ n \in Nat
    BY <1>0, <2>1, RegistryAssumption DEF TypeOK, RegistryAssumption, Request
  <2>3. request'[n + 1] \in Requests
    <3>1. PICK name \in Names, k \in 0 .. MaxFlaws : \E f \in [1 .. k -> ClientFlaws] :
            request' = [request EXCEPT ![n + 1] =
                          [name |-> name, flaws |-> {f[i] : i \in 1 .. k}]]
      BY <1>1 DEF BeginRequest
    <3>2. PICK f \in [1 .. k -> ClientFlaws] :
            request' = [request EXCEPT ![n + 1] =
                          [name |-> name, flaws |-> {f[i] : i \in 1 .. k}]]
      BY <3>1
    <3> QED
      BY <1>0, <2>2, <3>2 DEF TypeOK, Requests
  <2>4. MayGet(question'[n + 1]) # {}
    <3>1. force' \in BOOLEAN /\ allow' \in BOOLEAN
      BY DEF TypeOK
    <3>2. question'[n + 1] = Question(request'[n + 1], force', allow')
      BY <2>2
    <3>3. MayGet(Question(request'[n + 1], force', allow')) # {}
      BY <2>3, <3>1, ThereIsAnAnswer
    <3> QED
      BY <3>2, <3>3
  <2>5. \A r \in 1 .. n : question'[r] = question[r]
    <3>1. ASSUME NEW r \in 1 .. n PROVE r \in Request /\ request'[r] = request[r]
      <4>1. r \in Request /\ r <= n
        BY <2>1, <2>2, RegistryAssumption DEF RegistryAssumption, Request
      <4> QED
        BY <4>1, HistoryStep
    <3> QED
      BY <2>1, <3>1
  <2> HIDE DEF question
  <2>6. Client!Ask
    BY <2>1, <2>4, <2>5 DEF Client!Ask, question
  <2> QED
    BY <2>6 DEF Client!ServiceNext
<1>2. CASE Refuse
  <2>1. PICK code \in Refusal(request[n]) : Fail(code)
    BY <1>2 DEF Refuse
  <2>2. ~Admissible(request[n])
    BY <2>1 DEF Refusal, Admissible
  <2>3. [NoResult EXCEPT !.code = code] \in MayGet(Question(request[n], force, allow))
    BY <2>1, <2>2 DEF MayGet, Question, Errors
  <2>4. Client!Answer
    BY <1>2, <2>1, <2>3, FailAnswers DEF Refuse
  <2> QED
    BY <2>4 DEF Client!ServiceNext
<1>3. CASE RouteToWorker
  BY <1>3 DEF RouteToWorker, Runner!Accept, Client!serviceVars
<1>4. CASE RouteToServer
  BY <1>4 DEF RouteToServer, Client!serviceVars
<1>5. CASE HandlerReturns
  BY <1>5, HandlerEndsServes DEF HandlerReturns
<1>6. CASE RunnerReplies
  BY <1>6 DEF RunnerReplies, Runner!Reply, Client!serviceVars
<1>7. CASE Collect
  BY <1>7, CollectServes
<1>8. CASE Assemble
  BY <1>8, AssembleServes DEF Client!ServiceNext
<1>9. CASE ServerDies
  <2>1. Client!Die
    BY <1>0, <1>9 DEF ServerDies, Runner!Die, Client!Die, InStep
  <2> QED
    BY <2>1 DEF Client!ServiceNext
<1>10. CASE ServerStarts
  <2>1. Client!Recover
    BY <1>0, <1>10 DEF ServerStarts, Runner!Recover, Client!Recover, InStep
  <2> QED
    BY <2>1 DEF Client!ServiceNext
<1>11. CASE ClientIsDone \/ UNCHANGED vars
  BY <1>11 DEF ClientIsDone, vars, Client!serviceVars
<1> QED
  BY <1>1, <1>2, <1>3, <1>4, <1>5, <1>6, <1>7, <1>8, <1>9, <1>10, <1>11 DEF Next, Step

(* The dispatcher implements the service its clients see: each request is  *)
(* answered in its turn, at most once, and by a result it may get.         *)
THEOREM ServesClients == Safety => AnswersAsPromised
<1>1. Init => Client!ServiceInit
  BY DEF Init, Client!ServiceInit, Request
<1>2. IInv /\ [Next]_vars => [Client!ServiceNext]_(Client!serviceVars)
  BY TypeStep, ServiceStep
<1> QED
  BY <1>1, <1>2, InitInv, InvStep, PTL DEF Safety, AnswersAsPromised, Client!ServiceSpec

-----------------------------------------------------------------------------
(* Liveness. That the thread can take its step where it is to act is what  *)
(* ENABLED says, of which no prover here knows anything; TLC checks it, as *)
(* ThreadIsNeverStuck. From that, from the fairness of the thread and from *)
(* the runner's promise that calls end, every request that does not run in *)
(* the server's own thread is answered, or the server dies under it.       *)

(* What may happen to a request that the dispatcher is about to serve.     *)
LEMMA ServingStep ==
  ASSUME IInv, [Next]_vars, pc \in {"admit", "wait", "collect", "assemble"}
  PROVE  \/ UNCHANGED <<pc, n>>
         \/ <<Step>>_vars
         \/ pc = "wait" /\ pc' = "collect" /\ n' = n
         \/ pc' = "down"
<1>1. phase # "down"
  BY DEF IInv, InStep
<1>2. CASE Step
  BY <1>2 DEF vars
<1>3. CASE RunnerReplies \/ ServerDies \/ UNCHANGED vars
  BY <1>3 DEF RunnerReplies, ServerDies, vars
<1> QED
  BY <1>1, <1>2, <1>3 DEF Next, BeginRequest, HandlerReturns, ServerStarts, Runner!Recover,
     ClientIsDone

(* An error is a result.                                                   *)
LEMMA ErrorIsAResult ==
  ASSUME TypeOK, NEW r \in Request, n = r, NEW code \in ErrorCodes, Fail(code)
  PROVE  result'[r] # NoResult
<1>1. result'[r].code = code
  BY DEF Fail, TypeOK, NoResult
<1> QED
  BY <1>1 DEF NoResult, ErrorCodes

(* What a step of the dispatcher does to the request that it serves.       *)
LEMMA StepServes ==
  ASSUME IInv, Step, NEW r \in Request, n = r
  PROVE  /\ n' = r
         /\ \/ result'[r] # NoResult
            \/ pc = "admit" /\ pc' \in {"wait", "handler"}
            \/ pc = "collect" /\ pc' = "assemble"
<1>0. TypeOK /\ InStep
  BY DEF IInv
<1>1. CASE Refuse
  BY <1>0, <1>1, RefusalType, ErrorIsAResult DEF Refuse
<1>2. CASE RouteToWorker \/ RouteToServer
  BY <1>2 DEF RouteToWorker, RouteToServer
<1>3. CASE Collect
  <2>1. CASE replies[callOf[n]].code = "answer"
    <3>1. pc' = "assemble" \/ \E code \in ErrorCodes : Fail(code)
      BY <1>3, <2>1 DEF Collect, HandlerEnds, HandlerErrors, ErrorCodes
    <3> QED
      BY <1>0, <1>3, <3>1, ErrorIsAResult DEF Collect
  <2>2. CASE replies[callOf[n]].code # "answer"
    <3>1. replies[callOf[n]].code \in ErrorCodes
      <4>1. replies[calls] \in Runner!Replies /\ callOf[n] = calls
        BY <1>3 DEF Collect, IInv, InStep, TypeOK, NothingRunsUnlessAdmitted, Request
      <4> QED
        BY <2>2, <4>1 DEF Runner!Replies, Runner!Codes, ErrorCodes
    <3> QED
      BY <1>0, <1>3, <2>2, <3>1, ErrorIsAResult DEF Collect
  <2> QED
    BY <2>1, <2>2
<1>4. CASE Assemble
  <2>1. CASE OverLimit(outcome.size)
    <3>1. Fail("OUTPUT_TOO_LARGE") /\ n' = n
      BY <1>4, <2>1 DEF Assemble
    <3> QED
      BY <1>0, <3>1, ErrorIsAResult DEF ErrorCodes
  <2>2. CASE ~OverLimit(outcome.size)
    <3>1. result'[r].code = "ok" /\ n' = n
      BY <1>0, <1>4, <2>2 DEF Assemble, TypeOK
    <3> QED
      BY <3>1 DEF NoResult
  <2> QED
    BY <2>1, <2>2
<1> QED
  BY <1>1, <1>2, <1>3, <1>4 DEF Step

(* Every routed request is answered, unless the server dies under it.      *)
THEOREM RequestsEnd == Spec /\ []ThreadIsNeverStuck => RoutedRequestsEnd
<1> DEFINE Done(r) == result[r] # NoResult \/ pc \in {"handler", "down"}
           In(r, stage) == n = r /\ pc = stage
<1>1. ASSUME NEW r \in Request
      PROVE  Spec /\ []ThreadIsNeverStuck => (n = r /\ pc \in {"admit", "wait"} ~> Done(r))
  <2>1. IInv /\ In(r, "admit") /\ <<Step>>_vars => In(r, "wait")' \/ Done(r)'
    BY StepServes
  <2>2. IInv /\ In(r, "admit") /\ [Next]_vars => In(r, "admit")' \/ In(r, "wait")' \/ Done(r)'
    BY <2>1, ServingStep
  <2>3. IInv /\ In(r, "wait") /\ [Next]_vars => In(r, "wait")' \/ In(r, "collect")' \/ Done(r)'
    BY ServingStep, StepServes
  <2>4. IInv => (In(r, "wait") => phase = "busy") /\ (phase # "busy" => ~In(r, "wait"))
    BY DEF IInv, InStep
  <2>5. IInv /\ In(r, "collect") /\ <<Step>>_vars => In(r, "assemble")' \/ Done(r)'
    BY StepServes
  <2>6. IInv /\ In(r, "collect") /\ [Next]_vars => In(r, "collect")' \/ In(r, "assemble")' \/ Done(r)'
    BY <2>5, ServingStep
  <2>7. IInv /\ In(r, "assemble") /\ <<Step>>_vars => Done(r)'
    BY StepServes
  <2>8. IInv /\ In(r, "assemble") /\ [Next]_vars => In(r, "assemble")' \/ Done(r)'
    BY <2>7, ServingStep
  <2>9. ThreadIsNeverStuck =>
          (In(r, "admit") \/ In(r, "collect") \/ In(r, "assemble") => ENABLED <<Step>>_vars)
    BY DEF ThreadIsNeverStuck
  <2>10. n = r /\ pc \in {"admit", "wait"} => In(r, "admit") \/ In(r, "wait")
    OBVIOUS
  <2> QED
    BY <2>1, <2>2, <2>3, <2>4, <2>5, <2>6, <2>7, <2>8, <2>9, <2>10, InductiveInvariant, PTL
       DEF Spec, Safety, Runner!CallsEnd
<1> QED
  BY <1>1 DEF RoutedRequestsEnd
=============================================================================
