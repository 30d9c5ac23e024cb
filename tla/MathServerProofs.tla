--------------------------- MODULE MathServerProofs ---------------------------
(***************************************************************************)
(* Dispatcher and runner put together. The dispatcher was proved correct   *)
(* with the promise of CallService in place of the runner, and the runner  *)
(* without a dispatcher; here what was proved of each is used, by name, to *)
(* prove that the server keeps the promise and what follows from both.     *)
(***************************************************************************)
EXTENDS MathServer, CatalogProofs

SubP == INSTANCE SubprocessRunnerProofs WITH
  MaxCalls <- MaxRequests, pc <- at, call <- calls, reply <- replies

-----------------------------------------------------------------------------
(* SubP is the runner of the server, with what was proved about it: its    *)
(* definitions are those of Sub.                                           *)

LEMMA SameThread == Sub!Server <=> SubP!Server
BY DEF Sub!Server, SubP!Server, Sub!Goto, SubP!Goto, Sub!Return, SubP!Return,
  Sub!Raise, SubP!Raise, Sub!hostVars, SubP!hostVars, Sub!procVars, SubP!procVars,
  Sub!BeginCall, SubP!BeginCall, Sub!EnsureLinux, SubP!EnsureLinux,
  Sub!ProbeAnswers, SubP!ProbeAnswers, Sub!SandboxAvailable, SubP!SandboxAvailable,
  Sub!SelectCommand, SubP!SelectCommand, Sub!Spawn, SubP!Spawn,
  Sub!SpawnFails, SubP!SpawnFails, Sub!PipesClosed, SubP!PipesClosed,
  Sub!CommunicateReturns, SubP!CommunicateReturns, Sub!TimeoutExpired, SubP!TimeoutExpired,
  Sub!KillGroup, SubP!KillGroup, Sub!Drain, SubP!Drain, Sub!Interpret, SubP!Interpret,
  Sub!Interpretation, SubP!Interpretation, Sub!ResourceCodes, SubP!ResourceCodes

LEMMA SameSurroundings ==
  /\ \A c : Sub!Process(c) <=> SubP!Process(c)
  /\ \A c : Sub!DieWithParent(c) <=> SubP!DieWithParent(c)
  /\ Sub!DeadlinePasses <=> SubP!DeadlinePasses
  /\ Sub!Crash <=> SubP!Crash
  /\ Sub!Restart <=> SubP!Restart
  /\ Sub!HostChanges <=> SubP!HostChanges
  /\ Sub!ClientIsDone <=> SubP!ClientIsDone
BY DEF Sub!Process, SubP!Process, Sub!BwrapFails, SubP!BwrapFails,
  Sub!BwrapStartsWorker, SubP!BwrapStartsWorker, Sub!WorkerWrites, SubP!WorkerWrites,
  Sub!WorkerExits, SubP!WorkerExits, Sub!ReturnCode, SubP!ReturnCode,
  Sub!BwrapReports, SubP!BwrapReports, Sub!DieWithParent, SubP!DieWithParent,
  Sub!ParentIsDead, SubP!ParentIsDead, Sub!Deaths, SubP!Deaths, Sub!Call, SubP!Call,
  Sub!DeadlinePasses, SubP!DeadlinePasses, Sub!Crash, SubP!Crash, Sub!Goto, SubP!Goto,
  Sub!Restart, SubP!Restart, Sub!HostChanges, SubP!HostChanges,
  Sub!BwrapStates, SubP!BwrapStates, Sub!ClientIsDone, SubP!ClientIsDone,
  Sub!vars, SubP!vars, Sub!hostVars, SubP!hostVars, Sub!serverVars, SubP!serverVars,
  Sub!procVars, SubP!procVars

LEMMA SameSteps ==
  /\ Sub!Init <=> SubP!Init
  /\ [Sub!Next]_(Sub!vars) <=> [SubP!Next]_(SubP!vars)
<1>1. Sub!Init <=> SubP!Init
  BY DEF Sub!Init, SubP!Init, Sub!Call, SubP!Call, Sub!NoReply, SubP!NoReply,
    Sub!Service!NoReply, SubP!Service!NoReply, Sub!BwrapStates, SubP!BwrapStates,
    Sub!NoCode, SubP!NoCode
<1>2. Sub!vars = SubP!vars /\ Sub!vars' = SubP!vars' /\ Sub!Call = SubP!Call
  BY DEF Sub!vars, SubP!vars, Sub!hostVars, SubP!hostVars, Sub!serverVars, SubP!serverVars,
    Sub!procVars, SubP!procVars, Sub!Call, SubP!Call
<1> QED
  BY <1>1, <1>2, SameThread, SameSurroundings DEF Sub!Next, SubP!Next

LEMMA SameInvariant == Sub!IInv <=> SubP!IInv
BY DEF Sub!IInv, SubP!IInv, Sub!TypeOK, SubP!TypeOK,
  Sub!Call, SubP!Call, Sub!BwrapStates, SubP!BwrapStates, Sub!PCs, SubP!PCs,
  Sub!Phases, SubP!Phases, Sub!Deaths, SubP!Deaths, Sub!NoCode, SubP!NoCode,
  Sub!ReturnCodes, SubP!ReturnCodes, Sub!ResourceCodes, SubP!ResourceCodes,
  Sub!NoReply, SubP!NoReply, Sub!Service!NoReply, SubP!Service!NoReply,
  Sub!Service!Replies, SubP!Service!Replies, Sub!Service!Codes, SubP!Service!Codes,
  Sub!Busy, SubP!Busy, Sub!PipesClosed, SubP!PipesClosed,
  Sub!FutureCallsAreBlank, SubP!FutureCallsAreBlank,
  Sub!CurrentCallIsOpen, SubP!CurrentCallIsOpen,
  Sub!OnlyTheCurrentCallRuns, SubP!OnlyTheCurrentCallRuns,
  Sub!OrphansGetNoReply, SubP!OrphansGetNoReply,
  Sub!IsolationIsDecided, SubP!IsolationIsDecided,
  Sub!LivesAreCoherent, SubP!LivesAreCoherent, Sub!IsolationIsTold, SubP!IsolationIsTold,
  Sub!AnswersAreWhole, SubP!AnswersAreWhole,
  Sub!ResourceDeathsAreNamed, SubP!ResourceDeathsAreNamed

-----------------------------------------------------------------------------
(* What was proved about the runner, for the runner of the server          *)

(* The bounds of the server are bounds of its runner.                      *)
LEMMA RunnerBounds == SubP!BoundsAssumption
BY RegistryAssumption, ServerAssumption DEF RegistryAssumption, SubP!BoundsAssumption

LEMMA RunnerInit == Sub!Init => Sub!IInv
BY RunnerBounds, SameSteps, SameInvariant, SubP!InitInv

LEMMA RunnerStep == Sub!IInv /\ [Sub!Next]_(Sub!vars) => Sub!IInv'
<1>1. Sub!IInv <=> SubP!IInv
  BY SameInvariant
<1>2. Sub!IInv' <=> SubP!IInv'
  BY <1>1, PTL
<1> QED
  BY <1>1, <1>2, RunnerBounds, SameSteps, SubP!InvStep

(* Inside a call: it goes on unseen, or ends with a permitted reply.       *)
LEMMA RunnerThread ==
  ASSUME Sub!IInv, Sub!Server, at \notin {"idle", "down"}
  PROVE  /\ UNCHANGED <<allow, calls>>
         /\ \/ at' \notin {"idle", "down"} /\ UNCHANGED replies
            \/ /\ at' = "idle" /\ replies[calls] = Runner!NoReply
               /\ \E r \in Runner!Replies :
                    Runner!Permitted(r) /\ replies' = [replies EXCEPT ![calls] = r]
<1>1. SubP!IInv /\ SubP!Server /\ SubP!Busy
  BY SameInvariant, SameThread DEF SubP!Busy
<1> QED
  BY <1>1, RunnerBounds, SubP!ThreadStep DEF SubP!Busy, SubP!NoReply, SubP!Service!NoReply,
     SubP!Service!Replies, SubP!Service!Codes, SubP!Service!Permitted,
     Runner!NoReply, Runner!Replies, Runner!Codes, Runner!Permitted

(* Outside the thread: the dispatcher sees nothing.                        *)
LEMMA RunnerSurroundings ==
  ASSUME \/ \E c \in Request : Sub!Process(c) \/ Sub!DieWithParent(c)
         \/ Sub!DeadlinePasses \/ Sub!HostChanges
  PROVE  UNCHANGED <<at, allow, calls, replies>>
BY RunnerBounds, SameSurroundings, SubP!SurroundingStep DEF SubP!Call, Request

-----------------------------------------------------------------------------
(* The server                                                              *)

LEMMA ServerInitHolds == ServerInit => ServerInv
<1> SUFFICES ASSUME ServerInit PROVE ServerInv
  OBVIOUS
<1>1. IInv
  BY InitInv DEF ServerInit
<1>2. Sub!IInv
  BY RunnerInit DEF ServerInit
<1>3. phase = PhaseOf(at)
  BY DEF ServerInit, Init, Runner!Init, Sub!Init, PhaseOf
<1> QED
  BY <1>1, <1>2, <1>3 DEF ServerInv

(* Every step of the server is one that the dispatcher takes with the      *)
(* service it was promised, or one that it does not see.                   *)
LEMMA DispatcherStep ==
  ASSUME ServerInv, [ServerNext]_serverVars PROVE [Next]_vars
<1>0. InStep /\ phase = PhaseOf(at)
  BY DEF ServerInv, IInv
<1>1. CASE Dispatches
  BY <1>1 DEF Dispatches, Next, Step
<1>2. CASE Calls
  BY <1>2 DEF Calls, Next, Step
<1>3. CASE Waits
  <2>1. pc = "wait" /\ phase = "busy" /\ at \notin {"idle", "down"}
    BY <1>0, <1>3 DEF Waits, InStep, PhaseOf
  <2>2. Sub!Server /\ Sub!IInv /\ phase' = PhaseOf(at')
        /\ pc' = (IF at' = "idle" THEN "collect" ELSE pc)
        /\ UNCHANGED <<force, n, request, where, callOf, outcome, result>>
    BY <1>3 DEF Waits, ServerInv
  <2>3. CASE at' \notin {"idle", "down"} /\ UNCHANGED <<allow, calls, replies>>
    BY <2>1, <2>2, <2>3 DEF PhaseOf, vars, runnerVars
  <2>4. CASE /\ UNCHANGED <<allow, calls>> /\ at' = "idle" /\ replies[calls] = Runner!NoReply
             /\ \E r \in Runner!Replies :
                  Runner!Permitted(r) /\ replies' = [replies EXCEPT ![calls] = r]
    <3>1. \E r \in Runner!Replies : Runner!Reply(r)
      BY <2>1, <2>2, <2>4 DEF Runner!Reply, PhaseOf
    <3>2. RunnerReplies
      BY <2>1, <2>2, <2>4, <3>1 DEF RunnerReplies
    <3> QED
      BY <3>2 DEF Next
  <2> QED
    BY <2>1, <2>2, <2>3, <2>4, RunnerThread
<1>4. CASE Deadline \/ (\E c \in Request : Kernel(c)) \/ Around
  <2>1. UNCHANGED <<dispatchVars, phase>>
    BY <1>4 DEF Deadline, Kernel, Around
  <2>2. UNCHANGED <<at, allow, calls, replies>>
    BY <1>4, RunnerSurroundings DEF Deadline, Kernel, Around
  <2> QED
    BY <2>1, <2>2 DEF dispatchVars, vars, runnerVars
<1>5. CASE Dies
  <2>1. at # "down" /\ UNCHANGED <<allow, calls, replies>>
    BY <1>5 DEF Dies, Sub!Crash, Sub!hostVars
  <2>2. ServerDies
    BY <1>0, <1>5, <2>1 DEF Dies, ServerDies, Runner!Die, PhaseOf
  <2> QED
    BY <2>2 DEF Next
<1>6. CASE Starts
  <2>1. at = "down" /\ UNCHANGED <<allow, calls, replies>>
    BY <1>6 DEF Starts, Sub!Restart, Sub!hostVars
  <2>2. ServerStarts
    BY <1>0, <1>6, <2>1 DEF Starts, ServerStarts, Runner!Recover, PhaseOf
  <2> QED
    BY <2>2 DEF Next
<1>7. CASE Rests
  BY <1>7 DEF Rests, Next
<1>8. CASE UNCHANGED serverVars
  BY <1>8 DEF serverVars
<1> QED
  BY <1>1, <1>2, <1>3, <1>4, <1>5, <1>6, <1>7, <1>8 DEF ServerNext

(* It is a step of the runner, too, or one that the runner does not see.   *)
LEMMA RunnersStep ==
  ASSUME [ServerNext]_serverVars PROVE [Sub!Next]_(Sub!vars)
<1>1. ASSUME UNCHANGED innerVars, UNCHANGED runnerVars PROVE UNCHANGED Sub!vars
  BY <1>1 DEF innerVars, runnerVars, Sub!vars, Sub!hostVars, Sub!serverVars, Sub!procVars
<1>2. CASE Dispatches
  <2>1. UNCHANGED runnerVars
    BY <1>2 DEF Dispatches, BeginRequest, Refuse, RouteToServer, HandlerReturns, Collect, Assemble
  <2> QED
    BY <1>1, <1>2, <2>1 DEF Dispatches
<1>3. CASE Calls \/ Waits
  BY <1>3 DEF Calls, Waits, Sub!Next, Sub!Server
<1>4. CASE Deadline \/ (\E c \in Request : Kernel(c)) \/ Around
  BY <1>4 DEF Deadline, Kernel, Around, Sub!Next, Sub!Call, Request
<1>5. CASE Dies \/ Starts
  BY <1>5 DEF Dies, Starts, Sub!Next
<1>6. CASE Rests \/ UNCHANGED serverVars
  <2>1. UNCHANGED <<vars, innerVars>>
    BY <1>6 DEF Rests, ClientIsDone, serverVars
  <2> QED
    BY <1>1, <2>1 DEF vars
<1> QED
  BY <1>2, <1>3, <1>4, <1>5, <1>6 DEF ServerNext

(* Dispatcher and runner go on agreeing on whether a call is under way.    *)
LEMMA PhaseStep ==
  ASSUME ServerInv, [ServerNext]_serverVars PROVE phase' = PhaseOf(at')
<1>0. phase = PhaseOf(at)
  BY DEF ServerInv
<1>1. CASE Dispatches \/ Rests \/ UNCHANGED serverVars
  <2>1. UNCHANGED <<phase, at>>
    BY <1>1 DEF Dispatches, Rests, ClientIsDone, BeginRequest, Refuse, RouteToServer, HandlerReturns,
                Collect, Assemble, innerVars, serverVars, vars, runnerVars
  <2> QED
    BY <1>0, <2>1
<1>2. CASE Calls
  BY <1>2 DEF Calls, RouteToWorker, Runner!Accept, Sub!BeginCall, Sub!Goto, PhaseOf
<1>3. CASE Waits
  BY <1>3 DEF Waits
<1>4. CASE Deadline \/ (\E c \in Request : Kernel(c)) \/ Around
  BY <1>0, <1>4, RunnerSurroundings DEF Deadline, Kernel, Around
<1>5. CASE Dies \/ Starts
  BY <1>5 DEF Dies, Starts, Sub!Crash, Sub!Restart, Sub!Goto, PhaseOf
<1> QED
  BY <1>1, <1>2, <1>3, <1>4, <1>5 DEF ServerNext

LEMMA ServerInvStep == ServerInv /\ [ServerNext]_serverVars => ServerInv'
<1> SUFFICES ASSUME ServerInv, [ServerNext]_serverVars PROVE ServerInv'
  OBVIOUS
<1>1. IInv'
  BY DispatcherStep, InvStep DEF ServerInv
<1>2. Sub!IInv'
  BY RunnersStep, RunnerStep DEF ServerInv
<1> QED
  BY <1>1, <1>2, PhaseStep DEF ServerInv

(* The reply of the call that a result was made from.                      *)
LEMMA BehindAResult ==
  ASSUME ServerInv, NEW r \in Request, callOf[r] # 0, result[r] # NoResult
  PROVE  /\ callOf[r] \in Request /\ replies[callOf[r]].code # "none"
         /\ \/ replies[callOf[r]].code = "answer"
            \/ result[r].code = replies[callOf[r]].code
<1>1. TypeOK /\ RunnerVerdictsReachTheClient
  BY DEF ServerInv, IInv
<1>2. callOf[r] \in Request
  BY <1>1, RegistryAssumption DEF RegistryAssumption, TypeOK, Request
<1>3. replies[callOf[r]].code = "answer" \/ result[r].code = replies[callOf[r]].code
  BY <1>1 DEF RunnerVerdictsReachTheClient
<1>4. result[r].code # "none"
  <2>1. result[r] \in Results
    BY <1>1 DEF TypeOK
  <2> QED
    BY <2>1 DEF Results, ErrorCodes
<1> QED
  BY <1>2, <1>3, <1>4

-----------------------------------------------------------------------------
(* ServerInv holds in every reachable state: what is known of dispatcher   *)
(* and runner, each alone, holds of the two together.                      *)
THEOREM ServerInductive == ServerSpec => []ServerInv
BY ServerInitHolds, ServerInvStep, PTL DEF ServerSpec

(* The server keeps, with processes, what the dispatcher was promised: all *)
(* that was proved of the dispatcher alone holds of the server.            *)
THEOREM ServerImplementsDispatch == ServerSpec => ImplementsDispatch
<1>1. ServerInit => Init
  BY DEF ServerInit
<1>2. ServerInv /\ [ServerNext]_serverVars => [Next]_vars
  BY DispatcherStep
<1> QED
  BY <1>1, <1>2, ServerInductive, PTL DEF ServerSpec, ImplementsDispatch, Safety

(* So the whole server serves its clients as the dispatcher alone does:    *)
(* whatever its processes, its sandbox and the kernel do, each request is  *)
(* answered in its turn, at most once, and by a result it may get.         *)
THEOREM ServerServesClients == ServerSpec => AnswersAsPromised
BY ServerImplementsDispatch, ServesClients DEF ImplementsDispatch

(* With processes that time out, run out of memory and die, and a server   *)
(* that restarts, no result is told with more certainty than its registry  *)
(* entry allows, nor a strict verdict by a method that it does not declare.*)
THEOREM ServerKeepsItsRegistry ==
  ASSUME HandlersAreHonest
  PROVE  ServerSpec => [](MaxCertaintyIsKept /\ ProofModesAreDeclared)
BY ServerImplementsDispatch, PromiseIsKept, PTL DEF ImplementsDispatch, PromiseInv

(* No process of a request that was answered runs, nor, while no call is   *)
(* under way, any but those a dead server left.                            *)
THEOREM NothingRunsBehind == ServerSpec => []NothingRunsBehindAResult
<1>1. ServerInv => NothingRunsBehindAResult
  <2> SUFFICES ASSUME ServerInv PROVE NothingRunsBehindAResult
    OBVIOUS
  <2>1. Sub!OnlyTheCurrentCallRuns /\ Sub!OrphansGetNoReply /\ Sub!CurrentCallIsOpen
    BY DEF ServerInv, Sub!IInv
  <2>2. pc = "wait" <=> at \notin {"idle", "down"}
    BY DEF ServerInv, IInv, InStep, PhaseOf
  <2>3. ASSUME NEW c \in Request, launcher[c] = "running" \/ worker[c] = "running"
        PROVE  (c = calls /\ pc = "wait") \/ orphan[c]
    BY <2>1, <2>2, <2>3 DEF Sub!OnlyTheCurrentCallRuns, Sub!Call, Request
  <2>4. ASSUME NEW c \in Request, replies[c].code # "none"
        PROVE  ~orphan[c] /\ (pc = "wait" => c # calls)
    BY <2>1, <2>2, <2>4 DEF Sub!OrphansGetNoReply, Sub!CurrentCallIsOpen, Sub!Busy, Sub!Call,
       Sub!NoReply, Sub!Service!NoReply, Request
  <2>5. ASSUME NEW r \in Request, callOf[r] # 0, result[r] # NoResult
        PROVE  launcher[callOf[r]] # "running" /\ worker[callOf[r]] # "running"
    BY <2>3, <2>4, <2>5, BehindAResult
  <2> QED
    BY <2>3, <2>5 DEF NothingRunsBehindAResult
<1> QED
  BY <1>1, ServerInductive, PTL

(* No process is started but for one admitted request.                     *)
THEOREM ProcessesHaveRequests == ServerSpec => []ProcessesHaveTheirRequest
<1>1. ServerInv => ProcessesHaveTheirRequest
  <2> SUFFICES ASSUME ServerInv, NEW c \in Request,
                      launcher[c] # "absent" \/ worker[c] # "absent"
               PROVE  /\ ~force
                      /\ \E r \in Request :
                           /\ {s \in Request : callOf[s] = c} = {r}
                           /\ request[r].flaws = {}
                           /\ \E op \in Resolve(request[r].name) :
                                Registry[op].sub /\ Registry[op].state # "disabled"
    BY DEF ProcessesHaveTheirRequest
  <2>1. TypeOK /\ NothingRunsUnlessAdmitted /\ Routed
    BY DEF ServerInv, IInv
  <2>2. c \in 1 .. calls
    BY <2>1 DEF ServerInv, Sub!IInv, Sub!FutureCallsAreBlank, Sub!Call, Request, TypeOK
  <2>3. PICK r \in Request : callOf[r] = c
    BY <2>1, <2>2 DEF NothingRunsUnlessAdmitted
  <2>4. \A s \in Request : callOf[s] = c => s = r
    <3> SUFFICES ASSUME NEW s \in Request, callOf[s] = c, s # r PROVE FALSE
      OBVIOUS
    <3>1. c # 0 /\ ~(c < c) /\ (s < r \/ r < s)
      BY RegistryAssumption DEF RegistryAssumption, Request
    <3> QED
      BY <2>1, <2>3, <3>1 DEF NothingRunsUnlessAdmitted
  <2>5. where[r] = "worker"
    BY <2>1, <2>3 DEF NothingRunsUnlessAdmitted, Request
  <2>6. PICK op \in Resolve(request[r].name) : Registry[op].state # "disabled"
    BY <2>1, <2>5 DEF NothingRunsUnlessAdmitted
  <2>7. request[r].flaws = {} /\ ~force /\ Registry[op].sub
    BY <2>1, <2>5 DEF NothingRunsUnlessAdmitted, Routed
  <2> QED
    BY <2>3, <2>4, <2>6, <2>7
<1> QED
  BY <1>1, ServerInductive, PTL

(* What the trace of a result claims of its computation is so.             *)
THEOREM ResultsBacked == ServerSpec => []ResultsAreBacked
<1>1. ServerInv => ResultsAreBacked
  <2> SUFFICES ASSUME ServerInv, NEW r \in Request, result[r].code = "ok", result[r].limits # {}
               PROVE  LET c == callOf[r]
                      IN  /\ c # 0 /\ out[c] = "answer" /\ ~orphan[c]
                          /\ worker[c] = "exited" /\ death[c] \in {"clean", "traceback", "fault"}
                          /\ result[r].isolated <=> boxed[c]
    BY DEF ResultsAreBacked
  <2> DEFINE c == callOf[r]
  <2>1. TypeOK /\ Routed /\ NothingRunsUnlessAdmitted /\ TraceIsTruthful
    BY DEF ServerInv, IInv
  <2>2. c # 0 /\ c \in Request /\ where[r] = "worker"
    <3>1. c \in 0 .. MaxRequests /\ result[r].limits \in SUBSET WorkerLimits
      BY <2>1 DEF TypeOK, Results, NoResult
    <3>2. c # 0
      BY <2>1, <3>1, LimitsTold DEF TraceIsTruthful
    <3> QED
      BY <2>1, <3>1, <3>2 DEF NothingRunsUnlessAdmitted, Request
  <2>3. replies[c].code = "answer" /\ (result[r].isolated <=> replies[c].isolated)
    BY <2>1, <2>2 DEF Routed, TraceIsTruthful
  <2>4. /\ Sub!AnswersAreWhole /\ Sub!LivesAreCoherent /\ Sub!OrphansGetNoReply
        /\ Sub!IsolationIsTold /\ Sub!TypeOK
    BY DEF ServerInv, Sub!IInv
  <2>5. out[c] = "answer" /\ death[c] \in {"clean", "traceback", "fault"}
    BY <2>2, <2>3, <2>4 DEF Sub!AnswersAreWhole, Sub!Call, Request
  <2>6. worker[c] = "exited"
    BY <2>2, <2>4, <2>5 DEF Sub!LivesAreCoherent, Sub!Call, Request
  <2>7. ~orphan[c]
    BY <2>2, <2>3, <2>4 DEF Sub!OrphansGetNoReply, Sub!NoReply, Sub!Service!NoReply,
       Sub!Call, Request
  <2>8. replies[c].isolated = boxed[c]
    BY <2>2, <2>3, <2>4 DEF Sub!IsolationIsTold, Sub!Call, Request
  <2> QED
    BY <2>2, <2>3, <2>5, <2>6, <2>7, <2>8
<1> QED
  BY <1>1, ServerInductive, PTL

(* No death by a limit is told as a result, or as another failure.         *)
THEOREM ResourceDeathsReach == ServerSpec => []ResourceDeathsReachTheClient
<1>1. ServerInv => ResourceDeathsReachTheClient
  <2> SUFFICES ASSUME ServerInv, NEW r \in Request, callOf[r] # 0, result[r] # NoResult,
                      death[callOf[r]] \in {"cpu", "kill"}
               PROVE  result[r].code \in {"RESOURCE_LIMIT_EXCEEDED", "BACKEND_TIMEOUT"}
    BY DEF ResourceDeathsReachTheClient
  <2>1. Sub!ResourceDeathsAreNamed
    BY DEF ServerInv, Sub!IInv
  <2> QED
    BY <2>1, BehindAResult DEF Sub!ResourceDeathsAreNamed, Sub!Call, Request
<1> QED
  BY <1>1, ServerInductive, PTL

-----------------------------------------------------------------------------
(* Liveness. The promise that calls end, which the dispatcher was given, is *)
(* proved again with the fairness of the server in place of the runner's;  *)
(* the arguments about single steps are those of the runner alone. That    *)
(* the steps can be taken is what TLC checks as ServerIsNeverStuck.        *)
ServerJ == ServerInv /\ SubP!CallInv

LEMMA ServerJAlways == ServerSpec => []ServerJ
<1>1. ServerInit => SubP!CallInv
  BY SameSteps, RunnerBounds, SubP!CallInit DEF ServerInit
<1>2. ServerJ /\ [ServerNext]_serverVars => SubP!CallInv'
  BY RunnersStep, SameSteps, SameInvariant, RunnerBounds, SubP!CallStep DEF ServerJ, ServerInv
<1> QED
  BY <1>1, <1>2, ServerInductive, PTL DEF ServerSpec, ServerJ

(* While a call is under way the thread is in the runner.                  *)
LEMMA ThreadIsInRunner ==
  ASSUME ServerJ
  PROVE  /\ SubP!Busy <=> pc = "wait"
         /\ phase = "busy" <=> SubP!Busy
         /\ SubP!Over <=> ~SubP!Busy
BY DEF ServerJ, ServerInv, IInv, InStep, PhaseOf, SubP!Busy, SubP!Over

LEMMA ServesTheCall ==
  ASSUME ServerJ, pc = "wait", Serves PROVE SubP!Serve
<1>1. Waits
  BY DEF Serves, Refuse, RouteToServer, Collect, Assemble, Calls, RouteToWorker
<1>2. SubP!Server /\ at # "idle"
  BY <1>1, SameThread, ThreadIsInRunner DEF Waits, SubP!Busy
<1> QED
  BY <1>2 DEF SubP!Serve, SubP!BeginCall

(* What a step of the server does to the call that is under way: it is     *)
(* over, or in the stage it was in, or the thread went on with it.         *)
LEMMA CallGoesOn ==
  ASSUME ServerJ, [ServerNext]_serverVars, SubP!Busy
  PROVE  \/ SubP!Over'
         \/ at' = at /\ (deadline' = deadline \/ SubP!DeadlinePasses)
         \/ SubP!Serve
<1>1. [SubP!Next]_(SubP!vars) /\ SubP!J
  BY RunnersStep, SameSteps, SameInvariant DEF ServerJ, ServerInv, SubP!J
<1> QED
  BY <1>1, RunnerBounds, SubP!StageStep DEF SubP!J

ServerGoesOn(stage) == at = stage ~> at = SubP!After(stage) \/ SubP!Over

(* A stage in which the thread waits for nothing is left.                  *)
LEMMA ServerThreadGoesOn ==
  ASSUME NEW stage \in {"ensure", "probe", "select", "spawn", "kill", "interpret"}
  PROVE  ServerSpec /\ []ServerIsNeverStuck => ServerGoesOn(stage)
<1>1. ServerJ /\ at = stage => pc = "wait" /\ SubP!Busy /\ SubP!IInv /\ Sub!CanServe
  BY ThreadIsInRunner, SameInvariant DEF ServerJ, ServerInv, SubP!Busy, Sub!CanServe
<1>2. ServerJ /\ at = stage /\ SubP!Serve => (at = SubP!After(stage) \/ SubP!Over)'
  BY <1>1, RunnerBounds, SubP!ServeStep DEF SubP!Over, SubP!After
<1>3. ServerJ /\ at = stage /\ <<Serves>>_serverVars => (at = SubP!After(stage) \/ SubP!Over)'
  BY <1>1, <1>2, ServesTheCall
<1>4. ServerJ /\ at = stage /\ [ServerNext]_serverVars =>
        (at = stage \/ at = SubP!After(stage) \/ SubP!Over)'
  BY <1>1, <1>2, CallGoesOn
<1>5. ServerIsNeverStuck /\ ServerJ => (at = stage => ENABLED <<Serves>>_serverVars)
  BY <1>1 DEF ServerIsNeverStuck
<1> QED
  BY <1>3, <1>4, <1>5, ServerJAlways, PTL DEF ServerSpec, ServerFairness, ServerGoesOn

(* communicate ends by itself, or because its deadline passes.             *)
LEMMA ServerCommunicateEnds ==
  ServerSpec /\ []ServerIsNeverStuck =>
    (at = "communicate" ~> at = "interpret" \/ at = "kill" \/ SubP!Over)
<1> DEFINE Armed  == at = "communicate" /\ deadline = "armed"
           Passed == at = "communicate" /\ deadline = "passed"
           Left   == at = "interpret" \/ at = "kill" \/ SubP!Over
<1>0. ServerJ /\ at = "communicate" => pc = "wait" /\ SubP!Busy /\ SubP!IInv
  BY ThreadIsInRunner, SameInvariant DEF ServerJ, ServerInv, SubP!Busy
<1>1. ServerJ /\ at = "communicate" => Armed \/ Passed
  BY <1>0 DEF ServerJ, SubP!IInv, SubP!TypeOK, SubP!CallInv
<1>2. ServerJ /\ at = "communicate" /\ SubP!Serve => Left'
  BY <1>0, RunnerBounds, SubP!ServeStep DEF SubP!Over
<1>3. ServerJ /\ Armed /\ [ServerNext]_serverVars => Armed' \/ Passed' \/ Left'
  BY <1>0, <1>2, CallGoesOn DEF SubP!DeadlinePasses
<1>4. ServerJ /\ Armed /\ <<Deadline>>_serverVars => Passed'
  BY SameSurroundings DEF Deadline, SubP!DeadlinePasses
<1>5. ServerIsNeverStuck => (Armed => ENABLED <<Deadline>>_serverVars)
  BY DEF ServerIsNeverStuck, Sub!ClockRuns
<1>6. ServerJ /\ Passed /\ [ServerNext]_serverVars => Passed' \/ Left'
  BY <1>0, <1>2, CallGoesOn DEF SubP!DeadlinePasses
<1>7. ServerJ /\ Passed /\ <<Serves>>_serverVars => Left'
  BY <1>0, <1>2, ServesTheCall
<1>8. ServerIsNeverStuck /\ ServerJ => (Passed => ENABLED <<Serves>>_serverVars)
  BY <1>0 DEF ServerIsNeverStuck, Sub!CanServe
<1> QED
  BY <1>1, <1>3, <1>4, <1>5, <1>6, <1>7, <1>8, ServerJAlways, PTL DEF ServerSpec, ServerFairness

(* The second communicate ends: the kernel kills a worker that is left.    *)
LEMMA ServerDrainEnds ==
  ServerSpec /\ []ServerIsNeverStuck => (at = "drain" ~> SubP!Over)
<1> DEFINE Open   == at = "drain" /\ ~SubP!PipesClosed(calls)
           Closed == at = "drain" /\ SubP!PipesClosed(calls)
<1>0. ServerJ /\ at = "drain" => pc = "wait" /\ SubP!Busy /\ SubP!J
  BY ThreadIsInRunner, SameInvariant DEF ServerJ, ServerInv, SubP!Busy, SubP!J
<1>1. ServerJ /\ at = "drain" /\ SubP!Serve => SubP!Over'
  BY <1>0, RunnerBounds, SubP!ServeStep DEF SubP!Over, SubP!J
<1>2. ServerJ /\ at = "drain" /\ [ServerNext]_serverVars => (at = "drain")' \/ SubP!Over'
  BY <1>0, <1>1, CallGoesOn
<1>3. ServerJ /\ Open /\ [ServerNext]_serverVars => Open' \/ Closed' \/ SubP!Over'
  BY <1>2
<1>4. ServerJ /\ [ServerNext]_serverVars /\ at = "drain" /\ at' = "drain" =>
        /\ SubP!PipesClosed(calls) => SubP!PipesClosed(calls)'
        /\ SubP!CurrentDies => SubP!PipesClosed(calls)'
  BY <1>0, RunnersStep, SameSteps, RunnerBounds, SubP!DrainStep
<1>5. CurrentKernel => SubP!CurrentDies
  BY SameSurroundings DEF CurrentKernel, Kernel, SubP!CurrentDies, SubP!Call, Request
<1>6. ServerJ /\ Open /\ [ServerNext]_serverVars /\ <<CurrentKernel>>_serverVars =>
        Closed' \/ SubP!Over'
  BY <1>2, <1>4, <1>5
<1>7. ServerIsNeverStuck /\ ServerJ => (Open => ENABLED <<CurrentKernel>>_serverVars)
  BY <1>0 DEF ServerIsNeverStuck, Sub!SignalIsDue, SubP!PipesClosed, Sub!ParentIsDead,
     ServerJ, SubP!CallInv
<1>8. ServerJ /\ Closed /\ [ServerNext]_serverVars => Closed' \/ SubP!Over'
  BY <1>2, <1>4
<1>9. ServerJ /\ Closed /\ <<Serves>>_serverVars => SubP!Over'
  BY <1>0, <1>1, ServesTheCall
<1>10. ServerIsNeverStuck /\ ServerJ => (Closed => ENABLED <<Serves>>_serverVars)
  BY <1>0 DEF ServerIsNeverStuck, Sub!CanServe, SubP!PipesClosed, Sub!PipesClosed
<1> QED
  BY <1>3, <1>6, <1>7, <1>8, <1>9, <1>10, ServerJAlways, PTL DEF ServerSpec, ServerFairness

(* With its processes, too, the runner keeps its promise: every call ends. *)
THEOREM ServerCallsEnd == ServerSpec /\ []ServerIsNeverStuck => Runner!CallsEnd
<1> DEFINE Goes(stage) == ServerSpec /\ []ServerIsNeverStuck => ServerGoesOn(stage)
<1>1. /\ Goes("ensure") /\ Goes("probe") /\ Goes("select") /\ Goes("spawn")
      /\ Goes("kill") /\ Goes("interpret")
  BY ServerThreadGoesOn
<1>2. /\ at = SubP!After("ensure") => at = "probe"
      /\ at = SubP!After("probe") => at = "select"
      /\ at = SubP!After("select") => at = "spawn"
      /\ at = SubP!After("spawn") => at = "communicate"
      /\ at = SubP!After("kill") => at = "drain"
      /\ at = SubP!After("interpret") => SubP!Over
  BY Zenon DEF SubP!After, SubP!Over
<1>3. ServerJ /\ phase = "busy" =>
        \/ at = "ensure" \/ at = "probe" \/ at = "select" \/ at = "spawn"
        \/ at = "communicate" \/ at = "kill" \/ at = "drain" \/ at = "interpret"
  BY ThreadIsInRunner DEF ServerJ, ServerInv, Sub!IInv, Sub!TypeOK, Sub!PCs, SubP!Busy
<1>4. ServerJ => (SubP!Over => phase # "busy")
  BY ThreadIsInRunner
<1> QED
  BY <1>1, <1>2, <1>3, <1>4, ServerCommunicateEnds, ServerDrainEnds, ServerJAlways, PTL
     DEF ServerGoesOn, Runner!CallsEnd

(* Every request that runs in a worker is answered, or the server dies     *)
(* under it, though nothing is asked of the worker and of bubblewrap.      *)
THEOREM ServerRequestsEnd == ServerSpec /\ []ServerIsNeverStuck => RoutedRequestsEnd
<1> DEFINE Done(r) == result[r] # NoResult \/ pc \in {"handler", "down"}
           In(r, stage) == n = r /\ pc = stage
<1>1. ASSUME NEW r \in Request
      PROVE  ServerSpec /\ []ServerIsNeverStuck => (n = r /\ pc \in {"admit", "wait"} ~> Done(r))
  <2>1. ServerInv /\ [ServerNext]_serverVars => IInv /\ [Next]_vars
    BY DispatcherStep DEF ServerInv
  <2>2. Serves /\ pc # "wait" => Step
    BY DEF Serves, Calls, Waits, Step
  <2>3. IInv /\ In(r, "admit") /\ <<Serves>>_serverVars => In(r, "wait")' \/ Done(r)'
    BY <2>2, StepServes
  <2>4. IInv /\ In(r, "admit") /\ [Next]_vars => In(r, "admit")' \/ In(r, "wait")' \/ Done(r)'
    BY ServingStep, StepServes
  <2>5. IInv /\ In(r, "wait") /\ [Next]_vars => In(r, "wait")' \/ In(r, "collect")' \/ Done(r)'
    BY ServingStep, StepServes
  <2>6. IInv => (In(r, "wait") => phase = "busy") /\ (phase # "busy" => ~In(r, "wait"))
    BY DEF IInv, InStep
  <2>7. IInv /\ In(r, "collect") /\ <<Serves>>_serverVars => In(r, "assemble")' \/ Done(r)'
    BY <2>2, StepServes
  <2>8. IInv /\ In(r, "collect") /\ [Next]_vars => In(r, "collect")' \/ In(r, "assemble")' \/ Done(r)'
    BY ServingStep, StepServes
  <2>9. IInv /\ In(r, "assemble") /\ <<Serves>>_serverVars => Done(r)'
    BY <2>2, StepServes
  <2>10. IInv /\ In(r, "assemble") /\ [Next]_vars => In(r, "assemble")' \/ Done(r)'
    BY ServingStep, StepServes
  <2>11. ServerIsNeverStuck =>
          (In(r, "admit") \/ In(r, "collect") \/ In(r, "assemble") => ENABLED <<Serves>>_serverVars)
    BY DEF ServerIsNeverStuck
  <2>12. n = r /\ pc \in {"admit", "wait"} => In(r, "admit") \/ In(r, "wait")
    OBVIOUS
  <2>13. ServerInv => IInv
    BY DEF ServerInv
  <2> QED
    BY <2>1, <2>3, <2>4, <2>5, <2>6, <2>7, <2>8, <2>9, <2>10, <2>11, <2>12, <2>13,
       ServerCallsEnd, ServerInductive, PTL DEF ServerSpec, ServerFairness, Runner!CallsEnd
<1> QED
  BY <1>1 DEF RoutedRequestsEnd
=============================================================================
