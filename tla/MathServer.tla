------------------------------ MODULE MathServer ------------------------------
(***************************************************************************)
(* The server as it runs: run_operation of the dispatcher on top of the    *)
(* very run_in_subprocess it calls, with its processes, clock and host, in *)
(* place of the promise that CallService makes. Both share one thread and  *)
(* one process: a call is a step of both, and the death of the server ends *)
(* both.                                                                   *)
(***************************************************************************)
EXTENDS Dispatch

CONSTANTS
  MaxHostChanges,   \* bound on the changes of bubblewrap's availability
  MaxCrashes        \* bound on the deaths of the server process

ASSUME ServerAssumption == MaxHostChanges \in Nat /\ MaxCrashes \in Nat

VARIABLES
  linux, bwrap, hostChanges,              \* the host
  at, cache, isolated, deadline, crashes, \* the runner; at is where it stands
  launcher, worker, boxed, orphan, out, err, death, rc   \* the processes

Sub == INSTANCE SubprocessRunner WITH
  MaxCalls <- MaxRequests, pc <- at, call <- calls, reply <- replies

dispatchVars == <<force, pc, n, request, where, callOf, outcome, result>>
innerVars == <<linux, bwrap, hostChanges, at, cache, isolated, deadline, crashes,
               launcher, worker, boxed, orphan, out, err, death, rc>>
serverVars == <<vars, innerVars>>

(* What the dispatcher sees of the runner's place.                         *)
PhaseOf(label) == IF label \in {"idle", "down"} THEN label ELSE "busy"

ServerInit == Init /\ Sub!Init

-----------------------------------------------------------------------------
(* The dispatcher's own steps, while no call is under way.                 *)
Dispatches ==
  /\ BeginRequest \/ Refuse \/ RouteToServer \/ HandlerReturns \/ Collect \/ Assemble
  /\ UNCHANGED innerVars

(* run_in_subprocess is called.                                            *)
Calls == RouteToWorker /\ Sub!BeginCall

(* Mutation of Waits: the dispatcher goes on once the answer is complete,  *)
(* whether the child is gone or not.                                       *)
Waits_ForOutputOnly ==
  /\ pc = "wait"
  /\ \/ Sub!Server /\ pc' = IF at' = "idle" THEN "collect" ELSE pc
     \/ /\ at = "communicate" /\ out[calls] = "answer"
        /\ at' = "idle" /\ deadline' = "off" /\ pc' = "collect"
        /\ replies' = [replies EXCEPT ![calls] = [code |-> "answer", isolated |-> isolated]]
        /\ UNCHANGED <<allow, calls, linux, bwrap, hostChanges, cache, isolated, crashes,
                       launcher, worker, boxed, orphan, out, err, death, rc>>
  /\ phase' = PhaseOf(at')
  /\ UNCHANGED <<force, n, request, where, callOf, outcome, result>>

(* The thread is inside run_in_subprocess, until it returns or raises.     *)
Waits ==
  /\ pc = "wait"
  /\ Sub!Server
  /\ phase' = PhaseOf(at')
  /\ pc' = IF at' = "idle" THEN "collect" ELSE pc
  /\ UNCHANGED <<force, n, request, where, callOf, outcome, result>>

(* Processes, clock and host go on whatever the server does.               *)
Deadline == Sub!DeadlinePasses /\ UNCHANGED <<dispatchVars, phase>>
Kernel(c) == Sub!DieWithParent(c) /\ UNCHANGED <<dispatchVars, phase>>
Around ==
  /\ Sub!HostChanges \/ \E c \in Request : Sub!Process(c)
  /\ UNCHANGED <<dispatchVars, phase>>

Dies ==
  /\ Sub!Crash
  /\ phase' = "down" /\ pc' = "down"
  /\ UNCHANGED <<force, n, request, where, callOf, outcome, result>>

Starts ==
  /\ Sub!Restart
  /\ phase' = "idle" /\ pc' = "idle"
  /\ UNCHANGED <<force, n, request, where, callOf, outcome, result>>

Rests == ClientIsDone /\ UNCHANGED innerVars

ServerNext ==
  \/ Dispatches \/ Calls \/ Waits
  \/ Deadline \/ (\E c \in Request : Kernel(c)) \/ Around
  \/ Dies \/ Starts \/ Rests

(* The thread goes on, in the dispatcher or in the runner.                 *)
Serves ==
  \/ (Refuse \/ RouteToServer \/ Collect \/ Assemble) /\ UNCHANGED innerVars
  \/ Calls \/ Waits

(* The kernel's signal for the processes of the call in progress.          *)
CurrentKernel == \E c \in Request : c = calls /\ Kernel(c)

KernelServes == \A c \in Request : WF_serverVars(Kernel(c))

(* The thread runs, in the dispatcher and in the runner; time passes; the  *)
(* kernel keeps its word. A handler in the server's thread, a worker, the  *)
(* host and the client owe nothing.                                        *)
ServerFairness ==
  /\ WF_serverVars(Serves)
  /\ WF_serverVars(Deadline)
  /\ WF_serverVars(CurrentKernel)
  /\ KernelServes

ServerSpec == ServerInit /\ [][ServerNext]_serverVars /\ ServerFairness

-----------------------------------------------------------------------------
(* Properties                                                              *)

(* The promise of CallService, on which the dispatcher alone was judged,   *)
(* is one that this runner keeps: every step of the server is one that the *)
(* dispatcher takes with it, or one that it does not see.                  *)
ImplementsDispatch == Safety

(* Whoever has a result is alone with it: when a request is answered,      *)
(* neither the launcher nor the worker of its call runs any more, and      *)
(* while no call is under way only what a dead server left behind runs.    *)
NothingRunsBehindAResult ==
  /\ \A r \in Request : callOf[r] # 0 /\ result[r] # NoResult =>
       launcher[callOf[r]] # "running" /\ worker[callOf[r]] # "running"
  /\ pc # "wait" =>
       \A c \in Request : launcher[c] = "running" \/ worker[c] = "running" => orphan[c]

(* Whatever process was ever started has its request: exactly one, that    *)
(* passed every gate, of an operation that is to run in a sandbox; and     *)
(* under MATH_MCP_FORCE_INPROCESS there is none.                           *)
ProcessesHaveTheirRequest ==
  \A c \in Request : launcher[c] # "absent" \/ worker[c] # "absent" =>
    /\ ~force
    /\ \E r \in Request :
         /\ {s \in Request : callOf[s] = c} = {r}
         /\ request[r].flaws = {}
         /\ \E op \in Resolve(request[r].name) :
              Registry[op].sub /\ Registry[op].state # "disabled"

(* The trace of a result is true of processes: one that claims limits is   *)
(* the whole line of a worker of that very call, which no limit stopped    *)
(* and which did not outlive its server; it claims isolation exactly when  *)
(* that worker was in a sandbox.                                           *)
ResultsAreBacked ==
  \A r \in Request : result[r].code = "ok" /\ result[r].limits # {} =>
    LET c == callOf[r]
    IN  /\ c # 0 /\ out[c] = "answer" /\ ~orphan[c]
        /\ worker[c] = "exited" /\ death[c] \in {"clean", "traceback", "fault"}
        /\ result[r].isolated <=> boxed[c]

(* A worker stopped by a resource limit makes no result: its client is     *)
(* told of a limit or of a timeout, and of nothing else.                   *)
ResourceDeathsReachTheClient ==
  \A r \in Request :
    /\ callOf[r] # 0 /\ result[r] # NoResult
    /\ death[callOf[r]] \in {"cpu", "kill"}
    => result[r].code \in {"RESOURCE_LIMIT_EXCEEDED", "BACKEND_TIMEOUT"}

(* Dispatcher and runner, which share a thread, do not hold each other up: *)
(* where the dispatcher is to act it can, the runner takes every call that *)
(* it routes to a worker, and while that call lasts the thread, the clock  *)
(* and the kernel can do what they are there to do.                        *)
ServerIsNeverStuck ==
  /\ \/ pc \in {"admit", "collect", "assemble"}
     \/ pc = "wait" /\ Sub!CanServe
     => ENABLED <<Serves>>_serverVars
  /\ Sub!ClockRuns => ENABLED <<Deadline>>_serverVars
  /\ pc = "wait" /\ Sub!SignalIsDue(calls) => ENABLED <<CurrentKernel>>_serverVars

-----------------------------------------------------------------------------
(* The inductive invariant                                                 *)

(* Dispatcher and runner are each in a state of their own, and agree on    *)
(* whether a call is under way.                                            *)
ServerInv == IInv /\ Sub!IInv /\ phase = PhaseOf(at)
=============================================================================
