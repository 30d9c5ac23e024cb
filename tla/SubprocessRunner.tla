--------------------------- MODULE SubprocessRunner ---------------------------
(***************************************************************************)
(* run_in_subprocess and everything it meets: the server thread that makes *)
(* the call, the cached sandbox probe, the launcher it spawns (bwrap, or   *)
(* python itself when the escape hatch is used), the worker that computes  *)
(* and prints one JSON line, the resource limits and the kernel that       *)
(* enforces them, the wall-clock deadline, and a host on which bubblewrap  *)
(* can be installed, removed or stop working while the server runs.        *)
(*                                                                         *)
(* A request's content is abstracted away: the worker may do anything a    *)
(* handler can do, take for ever, answer, answer too much, or die.         *)
(* Process ids are the call numbers.                                       *)
(***************************************************************************)
EXTENDS Integers

CONSTANTS
  MaxCalls,         \* bound on the calls of one behaviour
  MaxHostChanges,   \* bound on the changes of bubblewrap's availability
  MaxCrashes        \* bound on the deaths of the server process

ASSUME BoundsAssumption ==
  /\ MaxCalls \in Nat \ {0}
  /\ MaxHostChanges \in Nat
  /\ MaxCrashes \in Nat

VARIABLES
  \* the host, and the environment the server is started with
  linux,         \* is_linux(): the platform check of ensure_linux
  allow,         \* MATH_MCP_ALLOW_NO_SANDBOX
  bwrap,         \* what a bubblewrap started now would do
  hostChanges,   \* how often bwrap has changed
  \* the server process
  pc,            \* where run_in_subprocess stands
  cache,         \* the lru_cache of sandbox_available
  call,          \* the number of the current or last call
  isolated,      \* the local variable network_isolated
  deadline,      \* communicate's timeout: "off", "armed" or "passed"
  crashes,       \* how often the server process died
  reply,         \* reply[c]: what the dispatcher got for call c
  \* the processes of call c
  launcher,      \* the Popen child: bwrap, or the worker itself when plain
  worker,        \* the python process that runs math_mcp.runtime.worker
  boxed,         \* the child is bwrap, so the worker lives in its sandbox
  orphan,        \* the server process that started it is dead
  out,           \* what the worker wrote to stdout
  err,           \* what its stderr says
  death,         \* how the worker ended
  rc             \* the return code of the Popen child

hostVars   == <<linux, allow, bwrap, hostChanges>>
serverVars == <<pc, cache, call, isolated, deadline, crashes, reply>>
procVars   == <<launcher, worker, boxed, orphan, out, err, death, rc>>
vars       == <<hostVars, serverVars, procVars>>

Call == 1 .. MaxCalls

(* bwrap on this host: missing from PATH; installed but unable to unshare  *)
(* the network; able to pass the probe but not to build the sandbox of a   *)
(* call (--unshare-all, --proc, the binds); fully usable.                  *)
BwrapStates == {"absent", "broken", "probe_only", "usable"}

PCs == {"idle", "ensure", "probe", "select", "spawn", "communicate",
        "kill", "drain", "interpret", "down"}

Phases == {"absent", "running", "exited"}
Deaths == {"none", "clean", "traceback", "cpu", "kill", "fault"}

Service == INSTANCE CallService WITH
  phase <- IF pc \in {"idle", "down"} THEN pc ELSE "busy"

Codes   == Service!Codes
NoReply == Service!NoReply

NoCode == 999
ReturnCodes == {NoCode, 0, 1, -9, -11, -24, 137, 139, 152}

TypeOK ==
  /\ linux \in BOOLEAN /\ allow \in BOOLEAN
  /\ bwrap \in BwrapStates /\ hostChanges \in 0 .. MaxHostChanges
  /\ pc \in PCs
  /\ cache \in {"unset", "yes", "no"}
  /\ call \in 0 .. MaxCalls
  /\ isolated \in BOOLEAN
  /\ deadline \in {"off", "armed", "passed"}
  /\ crashes \in 0 .. MaxCrashes
  /\ reply \in [Call -> Service!Replies \cup {NoReply}]
  /\ launcher \in [Call -> Phases]
  /\ worker \in [Call -> Phases]
  /\ boxed \in [Call -> BOOLEAN]
  /\ orphan \in [Call -> BOOLEAN]
  /\ out \in [Call -> {"empty", "partial", "answer", "flood"}]
  /\ err \in [Call -> {"empty", "resource", "other"}]
  /\ death \in [Call -> Deaths]
  /\ rc \in [Call -> ReturnCodes]

Init ==
  /\ linux \in BOOLEAN /\ allow \in BOOLEAN
  /\ bwrap \in BwrapStates /\ hostChanges = 0
  /\ pc = "idle" /\ cache = "unset" /\ call = 0
  /\ isolated = FALSE /\ deadline = "off" /\ crashes = 0
  /\ reply = [c \in Call |-> NoReply]
  /\ launcher = [c \in Call |-> "absent"]
  /\ worker = [c \in Call |-> "absent"]
  /\ boxed = [c \in Call |-> FALSE]
  /\ orphan = [c \in Call |-> FALSE]
  /\ out = [c \in Call |-> "empty"]
  /\ err = [c \in Call |-> "empty"]
  /\ death = [c \in Call |-> "none"]
  /\ rc = [c \in Call |-> NoCode]

-----------------------------------------------------------------------------
(* The server thread                                                       *)

Goto(label) == pc' = label

(* The call is over: the value returned or the error raised.               *)
Return(code, netIsolated) ==
  /\ reply' = [reply EXCEPT ![call] = [code |-> code, isolated |-> netIsolated]]
  /\ deadline' = "off"
  /\ Goto("idle")

Raise(code) == Return(code, FALSE)

BeginCall ==
  /\ pc = "idle"
  /\ call < MaxCalls
  /\ call' = call + 1
  /\ isolated' = FALSE
  /\ Goto("ensure")
  /\ UNCHANGED <<cache, deadline, crashes, reply, hostVars, procVars>>

EnsureLinux ==
  /\ pc = "ensure"
  /\ IF linux
     THEN Goto("probe") /\ UNCHANGED <<reply, deadline>>
     ELSE Raise("PLATFORM_UNSUPPORTED")
  /\ UNCHANGED <<cache, call, isolated, crashes, hostVars, procVars>>

(* Mutation of ProbeAnswers: a bwrap on PATH is believed without a probe.  *)
ProbeAnswers_OnPathOnly == IF bwrap = "absent" THEN {"no"} ELSE {"yes"}

(* Mutation of ProbeAnswers: the probe is run without a timeout.           *)
ProbeAnswers_NoTimeout == IF bwrap = "broken" THEN {} ELSE {"yes", "no"}

(* Only the first call of the process runs the probe; a probe that takes   *)
(* more than 15 s, or cannot be started, counts as "no".                   *)
ProbeAnswers ==
  IF bwrap \in {"usable", "probe_only"} THEN {"yes", "no"} ELSE {"no"}

SandboxAvailable ==
  /\ pc = "probe"
  /\ cache' \in IF cache = "unset" THEN ProbeAnswers ELSE {cache}
  /\ Goto("select")
  /\ UNCHANGED <<call, isolated, deadline, crashes, reply, hostVars, procVars>>

(* Mutation of SelectCommand: no sandbox means a plain worker, always.     *)
SelectCommand_FallsBack ==
  /\ pc = "select"
  /\ isolated' = (cache = "yes")
  /\ Goto("spawn")
  /\ UNCHANGED <<reply, deadline, cache, call, crashes, hostVars, procVars>>

(* _bwrap_command asserts that bwrap is on PATH now, whatever the cached   *)
(* probe said; the dispatcher turns the AssertionError into an internal    *)
(* error.                                                                  *)
SelectCommand ==
  /\ pc = "select"
  /\ \/ /\ cache = "yes" /\ bwrap # "absent"
        /\ isolated' = TRUE
        /\ Goto("spawn")
        /\ UNCHANGED <<reply, deadline>>
     \/ /\ cache = "yes" /\ bwrap = "absent"
        /\ Raise("BACKEND_INTERNAL_ERROR")
        /\ UNCHANGED isolated
     \/ /\ cache = "no" /\ allow
        /\ isolated' = FALSE
        /\ Goto("spawn")
        /\ UNCHANGED <<reply, deadline>>
     \/ /\ cache = "no" /\ ~allow
        /\ Raise("SANDBOX_UNAVAILABLE")
        /\ UNCHANGED isolated
  /\ UNCHANGED <<cache, call, crashes, hostVars, procVars>>

(* Popen. In plain mode the child is the worker itself.                    *)
Spawn ==
  /\ pc = "spawn"
  /\ isolated => bwrap # "absent"
  /\ launcher' = [launcher EXCEPT ![call] = "running"]
  /\ worker' = [worker EXCEPT ![call] = IF isolated THEN "absent" ELSE "running"]
  /\ boxed' = [boxed EXCEPT ![call] = isolated]
  /\ deadline' = "armed"
  /\ Goto("communicate")
  /\ UNCHANGED <<cache, call, isolated, crashes, reply, hostVars,
                 orphan, out, err, death, rc>>

(* fork, the preexec_fn or exec failed: an OSError or a SubprocessError,   *)
(* which the dispatcher wraps.                                             *)
SpawnFails ==
  /\ pc = "spawn"
  /\ Raise("BACKEND_INTERNAL_ERROR")
  /\ UNCHANGED <<cache, call, isolated, crashes, hostVars, procVars>>

(* Mutation of PipesClosed: wait for the child only, as Popen.wait does.   *)
PipesClosed_ChildOnly(c) == launcher[c] = "exited"

(* Both pipes are closed and the child is reaped only when nobody runs.    *)
PipesClosed(c) == launcher[c] = "exited" /\ worker[c] # "running"

CommunicateReturns ==
  /\ pc = "communicate"
  /\ PipesClosed(call)
  /\ Goto("interpret")
  /\ UNCHANGED <<cache, call, isolated, deadline, crashes, reply, hostVars, procVars>>

TimeoutExpired ==
  /\ pc = "communicate"
  /\ deadline = "passed"
  /\ Goto("kill")
  /\ UNCHANGED <<cache, call, isolated, deadline, crashes, reply, hostVars, procVars>>

(* Mutation of KillGroup: the signal reaches nobody.                       *)
KillGroup_Misses ==
  /\ pc = "kill"
  /\ Goto("drain")
  /\ UNCHANGED <<cache, call, isolated, deadline, crashes, reply, hostVars, procVars>>

(* killpg reaches the child and whatever shares its process group. The     *)
(* worker of a bwrap child is in a session of its own (--new-session) and  *)
(* is left to --die-with-parent; a child that already exited is left alone.*)
KillGroup ==
  /\ pc = "kill"
  /\ IF launcher[call] = "running"
     THEN /\ launcher' = [launcher EXCEPT ![call] = "exited"]
          /\ rc' = [rc EXCEPT ![call] = -9]
          /\ IF boxed[call]
             THEN UNCHANGED <<worker, death>>
             ELSE /\ worker' = [worker EXCEPT ![call] = "exited"]
                  /\ death' = [death EXCEPT ![call] = "kill"]
     ELSE UNCHANGED <<launcher, worker, death, rc>>
  /\ Goto("drain")
  /\ UNCHANGED <<cache, call, isolated, deadline, crashes, reply, hostVars,
                 boxed, orphan, out, err>>

(* Mutation of ResourceCodes: bwrap's encoding of a signal is forgotten.   *)
ResourceCodes_PlainOnly == {-9, -24}

(* -SIGKILL and -SIGXCPU from a plain child, 128 + the same from bwrap.    *)
ResourceCodes == {-9, -24, 137, 152}

(* Mutation of Interpretation: a complete line is believed first.          *)
Interpretation_OutputFirst(code, stdout, stderr) ==
  IF stdout = "answer" THEN "answer"
  ELSE IF code \in ResourceCodes \/ stdout = "flood" THEN "RESOURCE_LIMIT_EXCEEDED"
  ELSE IF stdout = "empty" /\ stderr = "resource" THEN "RESOURCE_LIMIT_EXCEEDED"
  ELSE "BACKEND_INTERNAL_ERROR"

(* _interpret: what the return code, stdout and stderr of a child mean.    *)
Interpretation(code, stdout, stderr) ==
  IF code \in ResourceCodes \/ stdout = "flood" THEN "RESOURCE_LIMIT_EXCEEDED"
  ELSE IF stdout = "answer" THEN "answer"
  ELSE IF stdout = "empty" /\ stderr = "resource" THEN "RESOURCE_LIMIT_EXCEEDED"
  ELSE "BACKEND_INTERNAL_ERROR"

(* The second communicate has no timeout: it waits for the pipes to close. *)
Drain ==
  /\ pc = "drain"
  /\ PipesClosed(call)
  /\ Raise("BACKEND_TIMEOUT")
  /\ UNCHANGED <<cache, call, isolated, crashes, hostVars, procVars>>

(* Mutation of Interpret: the network_isolated flag is never set.          *)
Interpret_NoFlag ==
  /\ pc = "interpret"
  /\ Raise(Interpretation(rc[call], out[call], err[call]))
  /\ UNCHANGED <<cache, call, isolated, crashes, hostVars, procVars>>

Interpret ==
  /\ pc = "interpret"
  /\ LET meaning == Interpretation(rc[call], out[call], err[call])
     IN  Return(meaning, meaning = "answer" /\ isolated)
  /\ UNCHANGED <<cache, call, isolated, crashes, hostVars, procVars>>

-----------------------------------------------------------------------------
(* The launcher and the worker of call c                                   *)

(* bwrap cannot build the sandbox: it says so on stderr and exits with 1.  *)
BwrapFails(c) ==
  /\ launcher[c] = "running" /\ boxed[c] /\ worker[c] = "absent"
  /\ bwrap \in {"broken", "probe_only"}
  /\ launcher' = [launcher EXCEPT ![c] = "exited"]
  /\ rc' = [rc EXCEPT ![c] = 1]
  /\ err' = [err EXCEPT ![c] = "other"]
  /\ UNCHANGED <<worker, boxed, orphan, out, death, serverVars, hostVars>>

(* Removing the executable does not stop a bwrap that already runs.        *)
BwrapStartsWorker(c) ==
  /\ launcher[c] = "running" /\ boxed[c] /\ worker[c] = "absent"
  /\ bwrap \in {"absent", "usable"}
  /\ worker' = [worker EXCEPT ![c] = "running"]
  /\ UNCHANGED <<launcher, boxed, orphan, out, err, death, rc,
                 serverVars, hostVars>>

(* _emit: one JSON line, of which a reader may have seen a part; "flood"   *)
(* is a line of more than _MAX_STDOUT_BYTES. A worker whose server died    *)
(* has nobody to write to.                                                 *)
WorkerWrites(c) ==
  /\ worker[c] = "running" /\ ~orphan[c]
  /\ \/ out[c] = "empty"   /\ out' = [out EXCEPT ![c] = "partial"]
     \/ out[c] = "partial" /\ \E o \in {"answer", "flood"} : out' = [out EXCEPT ![c] = o]
  /\ UNCHANGED <<launcher, worker, boxed, orphan, err, death, rc,
                 serverVars, hostVars>>

(* How a child ends, as Popen sees it: bwrap reports a signal as 128 + n.  *)
ReturnCode(cause, inBox) ==
  CASE cause = "clean"     -> 0
    [] cause = "traceback" -> 1
    [] cause = "cpu"       -> IF inBox THEN 152 ELSE -24
    [] cause = "kill"      -> IF inBox THEN 137 ELSE -9
    [] OTHER               -> IF inBox THEN 139 ELSE -11

(* main returns only after _emit; an exception outside _run_real's try     *)
(* block prints a traceback; RLIMIT_CPU sends SIGXCPU; the kernel kills a  *)
(* process when memory runs out; a C library may crash.                    *)
WorkerExits(c) ==
  /\ worker[c] = "running"
  /\ \E cause \in Deaths \ {"none"}, text \in {"empty", "resource", "other"} :
       /\ cause = "clean" => out[c] \in {"answer", "flood"}
       /\ text # "empty" <=> cause = "traceback"
       /\ worker' = [worker EXCEPT ![c] = "exited"]
       /\ death' = [death EXCEPT ![c] = cause]
       /\ err' = [err EXCEPT ![c] = text]
       /\ IF boxed[c]
          THEN UNCHANGED <<launcher, rc>>
          ELSE /\ launcher' = [launcher EXCEPT ![c] = "exited"]
               /\ rc' = [rc EXCEPT ![c] = ReturnCode(cause, FALSE)]
  /\ UNCHANGED <<boxed, orphan, out, serverVars, hostVars>>

(* bwrap reaps its worker and exits with its status.                       *)
BwrapReports(c) ==
  /\ launcher[c] = "running" /\ boxed[c] /\ worker[c] = "exited"
  /\ launcher' = [launcher EXCEPT ![c] = "exited"]
  /\ rc' = [rc EXCEPT ![c] = ReturnCode(death[c], TRUE)]
  /\ UNCHANGED <<worker, boxed, orphan, out, err, death, serverVars, hostVars>>

-----------------------------------------------------------------------------
(* The kernel, the clock and the host                                      *)

(* Mutation of ParentIsDead: bwrap is not told that the server died.       *)
ParentIsDead_WorkerOnly(c) == launcher[c] = "exited"

(* --die-with-parent, between the server and bwrap and between bwrap and   *)
(* the worker.                                                             *)
ParentIsDead(c) == launcher[c] = "exited" \/ orphan[c]

DieWithParent(c) ==
  /\ boxed[c]
  /\ ParentIsDead(c)
  /\ launcher[c] = "running" \/ worker[c] = "running"
  /\ launcher' = [launcher EXCEPT ![c] = "exited"]
  /\ rc' = [rc EXCEPT ![c] = IF launcher[c] = "running" THEN -9 ELSE @]
  /\ worker' = [worker EXCEPT ![c] = IF @ = "running" THEN "exited" ELSE @]
  /\ death' = [death EXCEPT ![c] = IF worker[c] = "running" THEN "kill" ELSE @]
  /\ UNCHANGED <<boxed, orphan, out, err, serverVars, hostVars>>

DeadlinePasses ==
  /\ pc = "communicate"
  /\ deadline = "armed"
  /\ deadline' = "passed"
  /\ UNCHANGED <<pc, cache, call, isolated, crashes, reply, hostVars, procVars>>

(* The server process dies in the middle of anything.                      *)
Crash ==
  /\ pc # "down"
  /\ crashes < MaxCrashes
  /\ crashes' = crashes + 1
  /\ deadline' = "off"
  /\ orphan' = [c \in Call |-> orphan[c] \/ launcher[c] = "running" \/ worker[c] = "running"]
  /\ Goto("down")
  /\ UNCHANGED <<cache, call, isolated, reply, hostVars,
                 launcher, worker, boxed, out, err, death, rc>>

(* The client starts a new server; nothing is remembered.                  *)
Restart ==
  /\ pc = "down"
  /\ cache' = "unset"
  /\ Goto("idle")
  /\ UNCHANGED <<call, isolated, deadline, crashes, reply, hostVars, procVars>>

HostChanges ==
  /\ hostChanges < MaxHostChanges
  /\ hostChanges' = hostChanges + 1
  /\ \E b \in BwrapStates \ {bwrap} : bwrap' = b
  /\ UNCHANGED <<linux, allow, serverVars, procVars>>

(* The client sends nothing more: the model's bound on calls.              *)
ClientIsDone ==
  /\ pc = "idle"
  /\ call = MaxCalls
  /\ UNCHANGED vars

-----------------------------------------------------------------------------
Server ==
  \/ BeginCall \/ EnsureLinux \/ SandboxAvailable \/ SelectCommand
  \/ Spawn \/ SpawnFails
  \/ CommunicateReturns \/ TimeoutExpired \/ KillGroup \/ Drain \/ Interpret

Process(c) ==
  \/ BwrapFails(c) \/ BwrapStartsWorker(c)
  \/ WorkerWrites(c) \/ WorkerExits(c) \/ BwrapReports(c)

Next ==
  \/ Server
  \/ \E c \in Call : Process(c) \/ DieWithParent(c)
  \/ DeadlinePasses
  \/ Crash \/ Restart \/ HostChanges \/ ClientIsDone

(* The thread is inside run_in_subprocess and goes on.                     *)
Serve == Server /\ ~BeginCall

(* The kernel's signal for the processes of the call in progress.          *)
CurrentDies == \E c \in Call : c = call /\ DieWithParent(c)

SignalArrives(c) == WF_vars(DieWithParent(c))

KernelKeepsItsWord == \A c \in Call : SignalArrives(c)

(* The server thread runs, time passes and the kernel keeps its word about *)
(* parents. Nothing is assumed of the worker, of bwrap, of the client that *)
(* would begin the next call, or of the host. (Calls are bounded, so what  *)
(* is said of the current one follows from what is said of each; a proof   *)
(* cannot exchange [] and \A.)                                             *)
Fairness ==
  /\ WF_vars(Serve)
  /\ WF_vars(DeadlinePasses)
  /\ WF_vars(CurrentDies)
  /\ KernelKeepsItsWord

Spec == Init /\ [][Next]_vars /\ Fairness

-----------------------------------------------------------------------------
(* The inductive invariant, in parts                                       *)

Busy == pc \notin {"idle", "down"}

(* Nothing is known of a call that has not begun.                          *)
FutureCallsAreBlank ==
  \A c \in Call : c > call =>
    /\ launcher[c] = "absent" /\ worker[c] = "absent" /\ ~orphan[c]
    /\ out[c] = "empty" /\ death[c] = "none" /\ reply[c] = NoReply

(* The call in progress has no reply, no dead parent, and before Popen no  *)
(* process.                                                                *)
CurrentCallIsOpen ==
  Busy =>
    /\ call \in Call /\ reply[call] = NoReply /\ ~orphan[call]
    /\ pc \in {"ensure", "probe", "select", "spawn"} =>
         /\ launcher[call] = "absent" /\ worker[call] = "absent"
         /\ out[call] = "empty" /\ death[call] = "none"
    /\ pc = "interpret" => PipesClosed(call)

(* The server is serial: a process still running belongs to the call in    *)
(* progress, or was left behind by a server that died.                     *)
OnlyTheCurrentCallRuns ==
  \A c \in Call : launcher[c] = "running" \/ worker[c] = "running" =>
    \/ c = call /\ pc \in {"communicate", "kill", "drain"}
    \/ orphan[c]

OrphansGetNoReply == \A c \in Call : orphan[c] => reply[c] = NoReply

(* The flag and the command agree, and a plain command needs the hatch.    *)
IsolationIsDecided ==
  /\ pc \in {"spawn", "communicate", "kill", "drain", "interpret"} => isolated \/ allow
  /\ pc \in {"communicate", "kill", "drain", "interpret"} => boxed[call] = isolated

(* What a process's life says about its output, its end and its child's    *)
(* return code.                                                            *)
LivesAreCoherent ==
  \A c \in Call :
    /\ launcher[c] = "absent" => worker[c] = "absent"
    /\ worker[c] = "absent" => out[c] = "empty"
    /\ death[c] = "none" <=> worker[c] # "exited"
    /\ launcher[c] = "exited" /\ rc[c] \notin ResourceCodes =>
         worker[c] # "running" /\ death[c] \notin {"cpu", "kill"}

-----------------------------------------------------------------------------
(* Properties                                                              *)

(* Whoever is told the outcome of a call is alone with it: when a call has *)
(* returned, neither its launcher nor its worker is running any more,      *)
(* whichever of answer, limit, timeout or crash of the child ended it.     *)
NoProcessOutlivesItsCall ==
  \A c \in Call : reply[c] # NoReply =>
    launcher[c] # "running" /\ worker[c] # "running"

(* network_isolated in a reply says where the worker really ran, and a     *)
(* worker without a sandbox exists only under the escape hatch.            *)
IsolationIsTold ==
  \A c \in Call :
    /\ reply[c].code = "answer" => reply[c].isolated = boxed[c]
    /\ worker[c] # "absent" /\ ~boxed[c] => allow

(* An answer is only ever taken from a line that was written to the end,   *)
(* by a worker no resource signal stopped.                                 *)
AnswersAreWhole ==
  \A c \in Call : reply[c].code = "answer" =>
    out[c] = "answer" /\ death[c] \in {"clean", "traceback", "fault"}

(* A worker stopped by RLIMIT_CPU or by the kernel for its memory is       *)
(* reported as a resource limit, or as the timeout it raced with, in a     *)
(* sandbox as well as without one: never as an internal error.             *)
ResourceDeathsAreNamed ==
  \A c \in Call : death[c] \in {"cpu", "kill"} =>
    reply[c].code \in {"none", "RESOURCE_LIMIT_EXCEEDED", "BACKEND_TIMEOUT"}

(* The invariant the proofs use: inductive, unlike its last three parts.   *)
IInv ==
  /\ TypeOK
  /\ FutureCallsAreBlank /\ CurrentCallIsOpen /\ OnlyTheCurrentCallRuns
  /\ OrphansGetNoReply /\ IsolationIsDecided /\ LivesAreCoherent
  /\ IsolationIsTold /\ AnswersAreWhole /\ ResourceDeathsAreNamed

(* The worker's answer and the deadline race; once the runner has decided  *)
(* for the timeout, an answer that arrives late does not win.              *)
LateAnswerNeverWins ==
  [][pc = "drain" /\ pc' = "idle" => reply'[call].code = "BACKEND_TIMEOUT"]_vars

(* Every call comes to an end though nothing is assumed of the worker.     *)
EveryCallEnds == (pc \notin {"idle", "down"}) ~> (pc \in {"idle", "down"})

(* A sandboxed worker does not survive the death of the server for long.   *)
SandboxedOrphansDie ==
  \A c \in Call : (orphan[c] /\ boxed[c]) ~>
    (launcher[c] # "running" /\ worker[c] # "running")

(* What the thread, the clock and the kernel each wait for.                *)
CanServe ==
  \/ pc \in {"ensure", "probe", "select", "spawn", "kill", "interpret"}
  \/ pc = "communicate" /\ (PipesClosed(call) \/ deadline = "passed")
  \/ pc = "drain" /\ PipesClosed(call)

ClockRuns == pc = "communicate" /\ deadline = "armed"

SignalIsDue(c) ==
  boxed[c] /\ ParentIsDead(c) /\ (launcher[c] = "running" \/ worker[c] = "running")

(* None of the three waits for more than it says: a probe that cannot be   *)
(* told from a hanging one, a cache without an entry or an output without  *)
(* a meaning would leave the thread where it is, with nobody to blame.     *)
NobodyWaitsInVain ==
  /\ CanServe => ENABLED <<Serve>>_vars
  /\ ClockRuns => ENABLED <<DeadlinePasses>>_vars
  /\ Busy /\ SignalIsDue(call) => ENABLED <<CurrentDies>>_vars
  /\ \A c \in Call : SignalIsDue(c) => ENABLED <<DieWithParent(c)>>_vars

(* The runner implements the service the dispatcher counts on.             *)
ImplementsCallService == Service!Spec

(* The docstring of the module (lines 7-8): a runner that cannot enforce    *)
(* a sandbox refuses with SANDBOX_UNAVAILABLE. Here: a call for which bwrap *)
(* started, but could not build the sandbox, is not an internal error.     *)
UnenforceableSandboxIsRefused ==
  \A c \in Call : reply[c].code = "BACKEND_INTERNAL_ERROR" =>
    ~(boxed[c] /\ worker[c] = "absent")

(* Where that docstring does hold: on a host that has not changed since    *)
(* the server was first started, and whose bubblewrap can build a whole    *)
(* sandbox when it passes the probe, no call is an internal error after    *)
(* its bwrap started and built no sandbox, through every timeout, crash    *)
(* and restart of the server.                                              *)
SteadySandboxIsBuilt ==
  hostChanges = 0 /\ bwrap # "probe_only" => UnenforceableSandboxIsRefused
=============================================================================
