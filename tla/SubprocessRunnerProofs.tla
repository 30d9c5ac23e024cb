------------------------ MODULE SubprocessRunnerProofs ------------------------
(***************************************************************************)
(* Proofs about SubprocessRunner: the inductive invariant IInv, the safety *)
(* properties that follow from it, and the refinement of the safety part   *)
(* of CallService. The clauses of IInv tie the lives of the wrapper and of *)
(* the worker, what is left in the pipes and the program counter of the    *)
(* server to each other; none of the properties is inductive without them. *)
(***************************************************************************)
EXTENDS SubprocessRunner, TLAPS

USE BoundsAssumption DEF BoundsAssumption

(* A return code is always one of those ReturnCodes lists.                 *)
LEMMA ReturnCodeType ==
  ASSUME NEW cause, NEW b \in BOOLEAN PROVE ReturnCode(cause, b) \in ReturnCodes
BY DEF ReturnCode, ReturnCodes

(* Ending a call keeps the type of replies.                                *)
LEMMA ReturnType ==
  ASSUME TypeOK, NEW code \in Codes, NEW b \in BOOLEAN, Return(code, b)
  PROVE  /\ reply' \in [Call -> Service!Replies \cup {NoReply}]
         /\ deadline' \in {"off", "armed", "passed"}
         /\ pc' \in PCs
<1>1. [code |-> code, isolated |-> b] \in Service!Replies
  BY DEF Codes, Service!Replies
<1>2. reply' \in [Call -> Service!Replies \cup {NoReply}]
  BY <1>1 DEF Return, TypeOK
<1> QED
  BY <1>2 DEF Return, Goto, PCs

(* The initial states have the types.                                      *)
LEMMA InitType == Init => TypeOK
<1> SUFFICES ASSUME Init PROVE TypeOK
  OBVIOUS
<1>1. reply \in [Call -> Service!Replies \cup {NoReply}]
  BY DEF Init
<1>2. hostChanges \in 0 .. MaxHostChanges /\ call \in 0 .. MaxCalls /\ crashes \in 0 .. MaxCrashes
  BY DEF Init
<1>3. launcher \in [Call -> Phases] /\ worker \in [Call -> Phases]
  BY DEF Init, Phases
<1>4. boxed \in [Call -> BOOLEAN] /\ orphan \in [Call -> BOOLEAN]
  BY DEF Init
<1>5. death \in [Call -> Deaths] /\ rc \in [Call -> ReturnCodes]
  BY DEF Init, Deaths, ReturnCodes
<1>6. /\ out \in [Call -> {"empty", "partial", "answer", "flood"}]
      /\ err \in [Call -> {"empty", "resource", "other"}]
  BY DEF Init
<1> QED
  BY <1>1, <1>2, <1>3, <1>4, <1>5, <1>6 DEF Init, TypeOK, PCs

(* Every step keeps every variable in its type.                            *)
LEMMA TypeStep ==
  ASSUME TypeOK, [Next]_vars PROVE TypeOK'
<1> USE DEF hostVars, serverVars, procVars
<1>1. CASE BeginCall
  <2>1. call' \in 0 .. MaxCalls
    BY <1>1 DEF TypeOK, BeginCall
  <2> QED
    BY <1>1, <2>1 DEF TypeOK, BeginCall, Goto, PCs
<1>2. CASE EnsureLinux
  <2>1. CASE linux
    BY <1>2, <2>1 DEF TypeOK, EnsureLinux, Goto, PCs
  <2>2. CASE ~linux
    <3>1. Return("PLATFORM_UNSUPPORTED", FALSE)
      BY <1>2, <2>2 DEF EnsureLinux, Raise
    <3> QED
      BY <1>2, <3>1, ReturnType DEF TypeOK, EnsureLinux, Codes, Service!Codes
  <2> QED
    BY <2>1, <2>2
<1>3. CASE SandboxAvailable
  BY <1>3 DEF TypeOK, SandboxAvailable, ProbeAnswers, Goto, PCs
<1>4. CASE SelectCommand
  <2>1. CASE Goto("spawn") /\ isolated' \in BOOLEAN /\ UNCHANGED <<reply, deadline>>
    BY <1>4, <2>1 DEF TypeOK, SelectCommand, Goto, PCs
  <2>2. ASSUME NEW code \in Codes, Return(code, FALSE), UNCHANGED isolated PROVE TypeOK'
    BY <1>4, <2>2, ReturnType DEF TypeOK, SelectCommand
  <2> QED
    BY <1>4, <2>1, <2>2 DEF SelectCommand, Raise, Codes, Service!Codes
<1>5. CASE Spawn
  BY <1>5 DEF TypeOK, Spawn, Goto, PCs, Phases
<1>6. CASE SpawnFails
  BY <1>6, ReturnType DEF TypeOK, SpawnFails, Raise, Codes, Service!Codes
<1>7. CASE CommunicateReturns
  BY <1>7 DEF TypeOK, CommunicateReturns, Goto, PCs
<1>8. CASE TimeoutExpired
  BY <1>8 DEF TypeOK, TimeoutExpired, Goto, PCs
<1>9. CASE KillGroup
  <2>1. launcher' \in [Call -> Phases] /\ worker' \in [Call -> Phases]
    BY <1>9 DEF TypeOK, KillGroup, Phases
  <2>2. death' \in [Call -> Deaths] /\ rc' \in [Call -> ReturnCodes]
    BY <1>9 DEF TypeOK, KillGroup, Deaths, ReturnCodes
  <2> QED
    BY <1>9, <2>1, <2>2 DEF TypeOK, KillGroup, Goto, PCs
<1>10. CASE Drain
  BY <1>10, ReturnType DEF TypeOK, Drain, Raise, Codes, Service!Codes
<1>11. CASE Interpret
  <2> DEFINE meaning == Interpretation(rc[call], out[call], err[call])
  <2>1. meaning \in Codes
    BY DEF Interpretation, Codes, Service!Codes
  <2>2. Return(meaning, meaning = "answer" /\ isolated)
    BY <1>11 DEF Interpret
  <2> HIDE DEF meaning
  <2> QED
    BY <1>11, <2>1, <2>2, ReturnType DEF TypeOK, Interpret
<1>12. ASSUME NEW c \in Call, BwrapFails(c) PROVE TypeOK'
  BY <1>12 DEF TypeOK, BwrapFails, Phases, ReturnCodes
<1>13. ASSUME NEW c \in Call, BwrapStartsWorker(c) PROVE TypeOK'
  BY <1>13 DEF TypeOK, BwrapStartsWorker, Phases
<1>14. ASSUME NEW c \in Call, WorkerWrites(c) PROVE TypeOK'
  BY <1>14 DEF TypeOK, WorkerWrites
<1>15. ASSUME NEW c \in Call, WorkerExits(c) PROVE TypeOK'
  <2>1. PICK cause \in Deaths \ {"none"}, text \in {"empty", "resource", "other"} :
          /\ worker' = [worker EXCEPT ![c] = "exited"]
          /\ death' = [death EXCEPT ![c] = cause]
          /\ err' = [err EXCEPT ![c] = text]
          /\ \/ UNCHANGED <<launcher, rc>>
             \/ /\ launcher' = [launcher EXCEPT ![c] = "exited"]
                /\ rc' = [rc EXCEPT ![c] = ReturnCode(cause, FALSE)]
    BY <1>15 DEF WorkerExits
  <2>2. ReturnCode(cause, FALSE) \in ReturnCodes
    BY ReturnCodeType
  <2>3. rc' \in [Call -> ReturnCodes]
    BY <2>1, <2>2 DEF TypeOK
  <2>4. launcher' \in [Call -> Phases] /\ worker' \in [Call -> Phases]
    BY <2>1 DEF TypeOK, Phases
  <2>5. /\ death' \in [Call -> Deaths]
        /\ err' \in [Call -> {"empty", "resource", "other"}]
    BY <2>1 DEF TypeOK
  <2> QED
    BY <1>15, <2>3, <2>4, <2>5 DEF TypeOK, WorkerExits
<1>16. ASSUME NEW c \in Call, BwrapReports(c) PROVE TypeOK'
  <2>1. rc' \in [Call -> ReturnCodes]
    BY <1>16, ReturnCodeType DEF TypeOK, BwrapReports
  <2> QED
    BY <1>16, <2>1 DEF TypeOK, BwrapReports, Phases
<1>17. ASSUME NEW c \in Call, DieWithParent(c) PROVE TypeOK'
  BY <1>17 DEF TypeOK, DieWithParent, Phases, Deaths, ReturnCodes
<1>18. CASE DeadlinePasses
  BY <1>18 DEF TypeOK, DeadlinePasses
<1>19. CASE Crash
  BY <1>19 DEF TypeOK, Crash, Goto, PCs
<1>20. CASE Restart
  BY <1>20 DEF TypeOK, Restart, Goto, PCs
<1>21. CASE HostChanges
  BY <1>21 DEF TypeOK, HostChanges
<1>22. CASE UNCHANGED vars
  BY <1>22 DEF TypeOK, vars
<1> QED
  BY <1>1, <1>2, <1>3, <1>4, <1>5, <1>6, <1>7, <1>8, <1>9, <1>10, <1>11, <1>12,
     <1>13, <1>14, <1>15, <1>16, <1>17, <1>18, <1>19, <1>20, <1>21, <1>22
     DEF Next, Server, Process, ClientIsDone

-----------------------------------------------------------------------------
(* The calls and their processes: the parts of IInv that say who may run.  *)
Structure ==
  FutureCallsAreBlank /\ CurrentCallIsOpen /\ OnlyTheCurrentCallRuns /\ OrphansGetNoReply

(* A step of the launcher or the worker of p, one of which was running,    *)
(* disturbs nothing that Structure says of the other calls or of p.        *)
LEMMA ProcessKeepsStructure ==
  ASSUME TypeOK, Structure, NEW p \in Call,
         launcher[p] = "running" \/ worker[p] = "running",
         UNCHANGED <<pc, call, reply, orphan>>,
         \A c \in Call \ {p} :
           /\ launcher'[c] = launcher[c] /\ worker'[c] = worker[c]
           /\ out'[c] = out[c] /\ death'[c] = death[c]
  PROVE  Structure'
<1> USE DEF Structure, Call, Busy
<1>1. p <= call
  BY DEF TypeOK, FutureCallsAreBlank
<1>2. FutureCallsAreBlank'
  BY <1>1 DEF TypeOK, FutureCallsAreBlank
<1>3. CurrentCallIsOpen'
  BY DEF TypeOK, CurrentCallIsOpen, OnlyTheCurrentCallRuns, PipesClosed
<1>4. OnlyTheCurrentCallRuns'
  BY DEF TypeOK, OnlyTheCurrentCallRuns
<1>5. OrphansGetNoReply'
  BY DEF TypeOK, OrphansGetNoReply
<1> QED
  BY <1>2, <1>3, <1>4, <1>5

(* A step of the environment that touches no call keeps Structure.         *)
LEMMA QuietStepKeepsStructure ==
  ASSUME Structure,
         UNCHANGED <<pc, call, reply, orphan, launcher, worker, out, death>>
  PROVE  Structure'
BY DEF Structure, FutureCallsAreBlank, CurrentCallIsOpen, OnlyTheCurrentCallRuns,
       OrphansGetNoReply, Busy, PipesClosed

(* Every step keeps the calls and their processes in order.                *)
LEMMA StructureStep ==
  ASSUME TypeOK, Structure, [Next]_vars PROVE Structure'
<1> USE DEF Call, hostVars, serverVars, procVars
<1> USE DEF Structure, FutureCallsAreBlank, CurrentCallIsOpen, OnlyTheCurrentCallRuns,
            OrphansGetNoReply, Busy
<1>1. CASE BeginCall
  BY <1>1 DEF TypeOK, BeginCall, Goto
<1>2. CASE EnsureLinux
  BY <1>2 DEF TypeOK, EnsureLinux, Goto, Raise, Return
<1>3. CASE SandboxAvailable
  BY <1>3 DEF TypeOK, SandboxAvailable, Goto
<1>4. CASE SelectCommand
  BY <1>4 DEF TypeOK, SelectCommand, Goto, Raise, Return
<1>5. CASE Spawn
  BY <1>5 DEF TypeOK, Spawn, Goto
<1>6. CASE SpawnFails
  BY <1>6 DEF TypeOK, SpawnFails, Goto, Raise, Return
<1>7. CASE CommunicateReturns
  BY <1>7 DEF TypeOK, CommunicateReturns, Goto, PipesClosed
<1>8. CASE TimeoutExpired
  BY <1>8 DEF TypeOK, TimeoutExpired, Goto
<1>9. CASE KillGroup
  BY <1>9 DEF TypeOK, KillGroup, Goto
<1>10. CASE Drain
  BY <1>10 DEF TypeOK, Drain, Goto, Raise, Return, PipesClosed
<1>11. CASE Interpret
  BY <1>11 DEF TypeOK, Interpret, Goto, Return
<1>12. CASE DeadlinePasses
  BY <1>12 DEF TypeOK, DeadlinePasses
<1>13. CASE Crash
  BY <1>13 DEF TypeOK, Crash, Goto
<1>14. CASE Restart
  BY <1>14 DEF TypeOK, Restart, Goto
<1> HIDE DEF Structure, FutureCallsAreBlank, CurrentCallIsOpen, OnlyTheCurrentCallRuns,
            OrphansGetNoReply, Busy, Call
<1>15. CASE HostChanges
  BY <1>15, QuietStepKeepsStructure DEF HostChanges
<1>16. ASSUME NEW p \in Call, BwrapFails(p) PROVE Structure'
  BY <1>16, ProcessKeepsStructure DEF TypeOK, BwrapFails
<1>17. ASSUME NEW p \in Call, BwrapStartsWorker(p) PROVE Structure'
  BY <1>17, ProcessKeepsStructure DEF TypeOK, BwrapStartsWorker
<1>18. ASSUME NEW p \in Call, WorkerWrites(p) PROVE Structure'
  BY <1>18, ProcessKeepsStructure DEF TypeOK, WorkerWrites
<1>19. ASSUME NEW p \in Call, WorkerExits(p) PROVE Structure'
  BY <1>19, ProcessKeepsStructure DEF TypeOK, WorkerExits
<1>20. ASSUME NEW p \in Call, BwrapReports(p) PROVE Structure'
  BY <1>20, ProcessKeepsStructure DEF TypeOK, BwrapReports
<1>21. ASSUME NEW p \in Call, DieWithParent(p) PROVE Structure'
  BY <1>21, ProcessKeepsStructure DEF TypeOK, DieWithParent
<1>22. CASE UNCHANGED vars
  BY <1>22, QuietStepKeepsStructure DEF vars
<1> QED
  BY <1>1, <1>2, <1>3, <1>4, <1>5, <1>6, <1>7, <1>8, <1>9, <1>10, <1>11, <1>12,
     <1>13, <1>14, <1>15, <1>16, <1>17, <1>18, <1>19, <1>20, <1>21, <1>22
     DEF Next, Server, Process, ClientIsDone

(* Every step keeps the flag, the command and the replies in agreement.    *)
LEMMA IsolationStep ==
  ASSUME TypeOK, Structure, IsolationIsDecided, IsolationIsTold, [Next]_vars
  PROVE  IsolationIsDecided' /\ IsolationIsTold'
<1> USE DEF Structure, CurrentCallIsOpen, IsolationIsDecided, IsolationIsTold, Busy,
            NoReply, Service!NoReply, hostVars, serverVars, procVars
<1>1. CASE BeginCall
  BY <1>1 DEF TypeOK, BeginCall, Goto
<1>2. CASE EnsureLinux
  BY <1>2 DEF TypeOK, EnsureLinux, Goto, Raise, Return
<1>3. CASE SandboxAvailable
  BY <1>3 DEF TypeOK, SandboxAvailable, Goto
<1>4. CASE SelectCommand
  BY <1>4 DEF TypeOK, SelectCommand, Goto, Raise, Return
<1>5. CASE Spawn
  BY <1>5 DEF TypeOK, Spawn, Goto
<1>6. CASE SpawnFails
  BY <1>6 DEF TypeOK, SpawnFails, Goto, Raise, Return
<1>7. CASE CommunicateReturns
  BY <1>7 DEF TypeOK, CommunicateReturns, Goto, PipesClosed
<1>8. CASE TimeoutExpired
  BY <1>8 DEF TypeOK, TimeoutExpired, Goto
<1>9. CASE KillGroup
  BY <1>9 DEF TypeOK, KillGroup, Goto
<1>10. CASE Drain
  BY <1>10 DEF TypeOK, Drain, Goto, Raise, Return, PipesClosed
<1>11. CASE Interpret
  BY <1>11 DEF TypeOK, Interpret, Goto, Return
<1>12. CASE DeadlinePasses
  BY <1>12 DEF TypeOK, DeadlinePasses
<1>13. CASE Crash
  BY <1>13 DEF TypeOK, Crash, Goto
<1>14. CASE Restart
  BY <1>14 DEF TypeOK, Restart, Goto
<1>15. CASE HostChanges
  BY <1>15 DEF TypeOK, HostChanges
<1>16. ASSUME NEW p \in Call, BwrapFails(p) PROVE IsolationIsDecided' /\ IsolationIsTold'
  BY <1>16 DEF TypeOK, BwrapFails
<1>17. ASSUME NEW p \in Call, BwrapStartsWorker(p) PROVE IsolationIsDecided' /\ IsolationIsTold'
  BY <1>17 DEF TypeOK, BwrapStartsWorker
<1>18. ASSUME NEW p \in Call, WorkerWrites(p) PROVE IsolationIsDecided' /\ IsolationIsTold'
  BY <1>18 DEF TypeOK, WorkerWrites
<1>19. ASSUME NEW p \in Call, WorkerExits(p) PROVE IsolationIsDecided' /\ IsolationIsTold'
  BY <1>19 DEF TypeOK, WorkerExits
<1>20. ASSUME NEW p \in Call, BwrapReports(p) PROVE IsolationIsDecided' /\ IsolationIsTold'
  BY <1>20 DEF TypeOK, BwrapReports
<1>21. ASSUME NEW p \in Call, DieWithParent(p) PROVE IsolationIsDecided' /\ IsolationIsTold'
  BY <1>21 DEF TypeOK, DieWithParent
<1>22. CASE UNCHANGED vars
  BY <1>22 DEF vars
<1> QED
  BY <1>1, <1>2, <1>3, <1>4, <1>5, <1>6, <1>7, <1>8, <1>9, <1>10, <1>11, <1>12,
     <1>13, <1>14, <1>15, <1>16, <1>17, <1>18, <1>19, <1>20, <1>21, <1>22
     DEF Next, Server, Process, ClientIsDone

(* Every step keeps lives, outputs and verdicts in agreement.              *)
LEMMA LivesStep ==
  ASSUME TypeOK, LivesAreCoherent, Structure, [Next]_vars
  PROVE  LivesAreCoherent'
<1> USE DEF LivesAreCoherent, Structure, CurrentCallIsOpen, Busy, hostVars, serverVars,
            procVars, ResourceCodes
<1>1. CASE BeginCall
  BY <1>1 DEF TypeOK, BeginCall, Goto
<1>2. CASE EnsureLinux
  BY <1>2 DEF TypeOK, EnsureLinux, Goto, Raise, Return
<1>3. CASE SandboxAvailable
  BY <1>3 DEF TypeOK, SandboxAvailable, Goto
<1>4. CASE SelectCommand
  BY <1>4 DEF TypeOK, SelectCommand, Goto, Raise, Return
<1>5. CASE Spawn
  BY <1>5 DEF TypeOK, Spawn, Goto
<1>6. CASE SpawnFails
  BY <1>6 DEF TypeOK, SpawnFails, Goto, Raise, Return
<1>7. CASE CommunicateReturns
  BY <1>7 DEF TypeOK, CommunicateReturns, Goto, PipesClosed
<1>8. CASE TimeoutExpired
  BY <1>8 DEF TypeOK, TimeoutExpired, Goto
<1>9. CASE KillGroup
  BY <1>9 DEF TypeOK, KillGroup, Goto
<1>10. CASE Drain
  BY <1>10 DEF TypeOK, Drain, Goto, Raise, Return, PipesClosed
<1>11. CASE Interpret
  BY <1>11 DEF TypeOK, Interpret, Goto, Return
<1>12. CASE DeadlinePasses
  BY <1>12 DEF TypeOK, DeadlinePasses
<1>13. CASE Crash
  BY <1>13 DEF TypeOK, Crash, Goto
<1>14. CASE Restart
  BY <1>14 DEF TypeOK, Restart, Goto
<1>15. CASE HostChanges
  BY <1>15 DEF TypeOK, HostChanges
<1>16. ASSUME NEW p \in Call, BwrapFails(p) PROVE LivesAreCoherent'
  BY <1>16 DEF TypeOK, BwrapFails
<1>17. ASSUME NEW p \in Call, BwrapStartsWorker(p) PROVE LivesAreCoherent'
  BY <1>17 DEF TypeOK, BwrapStartsWorker
<1>18. ASSUME NEW p \in Call, WorkerWrites(p) PROVE LivesAreCoherent'
  BY <1>18 DEF TypeOK, WorkerWrites
<1>19. ASSUME NEW p \in Call, WorkerExits(p) PROVE LivesAreCoherent'
  BY <1>19 DEF TypeOK, WorkerExits, ReturnCode, Deaths
<1>20. ASSUME NEW p \in Call, BwrapReports(p) PROVE LivesAreCoherent'
  BY <1>20 DEF TypeOK, BwrapReports, ReturnCode
<1>21. ASSUME NEW p \in Call, DieWithParent(p) PROVE LivesAreCoherent'
  <2>1. \A c \in Call \ {p} : /\ launcher'[c] = launcher[c] /\ worker'[c] = worker[c]
                              /\ out'[c] = out[c] /\ death'[c] = death[c] /\ rc'[c] = rc[c]
    BY <1>21 DEF TypeOK, DieWithParent
  <2>2. CASE launcher[p] = "running"
    <3>1. launcher'[p] = "exited" /\ rc'[p] = -9
      BY <1>21, <2>2 DEF TypeOK, DieWithParent
    <3>2. /\ worker'[p] = "absent" <=> worker[p] = "absent"
          /\ out'[p] = out[p]
          /\ death'[p] = "none" <=> worker'[p] # "exited"
      BY <1>21 DEF TypeOK, DieWithParent
    <3> QED
      BY <2>1, <3>1, <3>2
  <2>3. CASE launcher[p] # "running" /\ worker[p] = "running"
    <3>1. launcher[p] = "exited" /\ rc[p] \in ResourceCodes
      BY <2>3 DEF TypeOK, Phases
    <3>2. /\ launcher'[p] = "exited" /\ rc'[p] = rc[p] /\ out'[p] = out[p]
          /\ worker'[p] = "exited" /\ death'[p] = "kill"
      BY <1>21, <2>3 DEF TypeOK, DieWithParent
    <3> QED
      BY <2>1, <3>1, <3>2
  <2> QED
    BY <1>21, <2>2, <2>3 DEF DieWithParent
<1>22. CASE UNCHANGED vars
  BY <1>22 DEF vars
<1> QED
  BY <1>1, <1>2, <1>3, <1>4, <1>5, <1>6, <1>7, <1>8, <1>9, <1>10, <1>11, <1>12,
     <1>13, <1>14, <1>15, <1>16, <1>17, <1>18, <1>19, <1>20, <1>21, <1>22
     DEF Next, Server, Process, ClientIsDone

(* The verdict on a finished call stays true of the processes it is about. *)
LEMMA VerdictsStep ==
  ASSUME TypeOK, Structure, LivesAreCoherent, AnswersAreWhole, ResourceDeathsAreNamed,
         [Next]_vars
  PROVE  AnswersAreWhole' /\ ResourceDeathsAreNamed'
<1> USE DEF AnswersAreWhole, ResourceDeathsAreNamed, LivesAreCoherent, Structure, CurrentCallIsOpen,
     OnlyTheCurrentCallRuns, OrphansGetNoReply, Busy, hostVars, serverVars, procVars, NoReply, Service!NoReply
<1>1. CASE BeginCall
  BY <1>1 DEF TypeOK, BeginCall, Goto
<1>2. CASE EnsureLinux
  BY <1>2 DEF TypeOK, EnsureLinux, Goto, Raise, Return
<1>3. CASE SandboxAvailable
  BY <1>3 DEF TypeOK, SandboxAvailable, Goto
<1>4. CASE SelectCommand
  BY <1>4 DEF TypeOK, SelectCommand, Goto, Raise, Return
<1>5. CASE Spawn
  BY <1>5 DEF TypeOK, Spawn, Goto
<1>6. CASE SpawnFails
  BY <1>6 DEF TypeOK, SpawnFails, Goto, Raise, Return
<1>7. CASE CommunicateReturns
  BY <1>7 DEF TypeOK, CommunicateReturns, Goto, PipesClosed
<1>8. CASE TimeoutExpired
  BY <1>8 DEF TypeOK, TimeoutExpired, Goto
<1>9. CASE KillGroup
  BY <1>9 DEF TypeOK, KillGroup, Goto
<1>10. CASE Drain
  BY <1>10 DEF TypeOK, Drain, Goto, Raise, Return, PipesClosed
<1>11. CASE Interpret
  <2> DEFINE meaning == Interpretation(rc[call], out[call], err[call])
  <2>1. /\ call \in Call /\ PipesClosed(call)
        /\ reply' = [reply EXCEPT ![call] =
                       [code |-> meaning, isolated |-> meaning = "answer" /\ isolated]]
        /\ UNCHANGED <<out, death>>
    BY <1>11 DEF Interpret, Return
  <2>2. reply'[call].code = meaning /\ \A c \in Call \ {call} : reply'[c] = reply[c]
    BY <2>1 DEF TypeOK
  <2>3. meaning = "answer" => out[call] = "answer" /\ death[call] \in {"clean", "traceback", "fault"}
    BY <2>1 DEF TypeOK, Interpretation, PipesClosed, Phases, Deaths
  <2>4. death[call] \in {"cpu", "kill"} => meaning = "RESOURCE_LIMIT_EXCEEDED"
    BY <2>1 DEF Interpretation, PipesClosed
  <2> HIDE DEF meaning
  <2> QED
    BY <2>1, <2>2, <2>3, <2>4
<1>12. CASE DeadlinePasses
  BY <1>12 DEF TypeOK, DeadlinePasses
<1>13. CASE Crash
  BY <1>13 DEF TypeOK, Crash, Goto
<1>14. CASE Restart
  BY <1>14 DEF TypeOK, Restart, Goto
<1>15. CASE HostChanges
  BY <1>15 DEF TypeOK, HostChanges
<1>16. ASSUME NEW p \in Call, BwrapFails(p) PROVE AnswersAreWhole' /\ ResourceDeathsAreNamed'
  BY <1>16 DEF TypeOK, BwrapFails
<1>17. ASSUME NEW p \in Call, BwrapStartsWorker(p) PROVE AnswersAreWhole' /\ ResourceDeathsAreNamed'
  BY <1>17 DEF TypeOK, BwrapStartsWorker
<1>18. ASSUME NEW p \in Call, WorkerWrites(p) PROVE AnswersAreWhole' /\ ResourceDeathsAreNamed'
  BY <1>18 DEF TypeOK, WorkerWrites
<1>19. ASSUME NEW p \in Call, WorkerExits(p) PROVE AnswersAreWhole' /\ ResourceDeathsAreNamed'
  BY <1>19 DEF TypeOK, WorkerExits, ReturnCode, Deaths
<1>20. ASSUME NEW p \in Call, BwrapReports(p) PROVE AnswersAreWhole' /\ ResourceDeathsAreNamed'
  BY <1>20 DEF TypeOK, BwrapReports, ReturnCode
<1>21. ASSUME NEW p \in Call, DieWithParent(p) PROVE AnswersAreWhole' /\ ResourceDeathsAreNamed'
  BY <1>21 DEF TypeOK, DieWithParent, ParentIsDead
<1>22. CASE UNCHANGED vars
  BY <1>22 DEF vars
<1> QED
  BY <1>1, <1>2, <1>3, <1>4, <1>5, <1>6, <1>7, <1>8, <1>9, <1>10, <1>11, <1>12,
     <1>13, <1>14, <1>15, <1>16, <1>17, <1>18, <1>19, <1>20, <1>21, <1>22
     DEF Next, Server, Process, ClientIsDone

(* IInv holds initially, and every step keeps it.                          *)
LEMMA InitInv == Init => IInv
<1> SUFFICES ASSUME Init PROVE IInv
  OBVIOUS
<1>1. TypeOK
  BY InitType
<1>2. FutureCallsAreBlank /\ CurrentCallIsOpen /\ OnlyTheCurrentCallRuns /\ OrphansGetNoReply
  BY DEF Init, FutureCallsAreBlank, CurrentCallIsOpen, OnlyTheCurrentCallRuns,
         OrphansGetNoReply, Busy
<1>3. IsolationIsDecided /\ IsolationIsTold
  BY DEF Init, IsolationIsDecided, IsolationIsTold, NoReply, Service!NoReply
<1>4. LivesAreCoherent /\ AnswersAreWhole /\ ResourceDeathsAreNamed
  BY DEF Init, LivesAreCoherent, AnswersAreWhole, ResourceDeathsAreNamed,
         NoReply, Service!NoReply
<1> QED
  BY <1>1, <1>2, <1>3, <1>4 DEF IInv

LEMMA InvStep == IInv /\ [Next]_vars => IInv'
BY TypeStep, StructureStep, IsolationStep, LivesStep, VerdictsStep DEF IInv, Structure

(* A step of the thread inside a call goes on with it, and its caller sees *)
(* nothing; or it ends the call with a reply that the service permits.     *)
LEMMA ThreadStep ==
  ASSUME IInv, Server, Busy
  PROVE  /\ UNCHANGED <<allow, call>>
         /\ \/ Busy' /\ UNCHANGED reply
            \/ /\ pc' = "idle" /\ reply[call] = NoReply
               /\ \E r \in Service!Replies :
                    Service!Permitted(r) /\ reply' = [reply EXCEPT ![call] = r]
<1>0. CurrentCallIsOpen /\ IsolationIsDecided /\ reply[call] = NoReply
  BY DEF IInv, CurrentCallIsOpen
<1>1. ASSUME NEW code \in Codes, NEW b \in BOOLEAN, Return(code, b),
             code = "answer" /\ ~b => allow
      PROVE  /\ pc' = "idle"
             /\ \E r \in Service!Replies :
                  Service!Permitted(r) /\ reply' = [reply EXCEPT ![call] = r]
  <2> DEFINE r == [code |-> code, isolated |-> b]
  <2>1. r \in Service!Replies /\ Service!Permitted(r)
    BY <1>1 DEF Codes, Service!Replies, Service!Permitted
  <2> QED
    BY <1>1, <2>1 DEF Return, Goto
<1>2. CASE EnsureLinux \/ SelectCommand \/ SpawnFails \/ Drain
  BY <1>0, <1>1, <1>2 DEF EnsureLinux, SelectCommand, SpawnFails, Drain, Raise, Goto, Busy,
                          hostVars, Codes, Service!Codes
<1>3. CASE SandboxAvailable \/ Spawn \/ CommunicateReturns \/ TimeoutExpired \/ KillGroup
  BY <1>3 DEF SandboxAvailable, Spawn, CommunicateReturns, TimeoutExpired, KillGroup,
              Goto, Busy, hostVars
<1>4. CASE Interpret
  <2> DEFINE meaning == Interpretation(rc[call], out[call], err[call])
             flag == meaning = "answer" /\ isolated
  <2>1. meaning \in Codes /\ flag \in BOOLEAN
    BY DEF Interpretation, Codes, Service!Codes
  <2>2. Return(meaning, flag) /\ UNCHANGED <<allow, call>>
    BY <1>4 DEF Interpret, hostVars
  <2>3. meaning = "answer" /\ ~flag => allow
    BY <1>0, <1>4 DEF Interpret, IsolationIsDecided
  <2> HIDE DEF meaning, flag
  <2> QED
    BY <1>0, <1>1, <2>1, <2>2, <2>3
<1> QED
  BY <1>2, <1>3, <1>4 DEF Server, BeginCall, Busy

(* The caller sees nothing of processes, clock and host.                   *)
LEMMA SurroundingStep ==
  ASSUME (\E c \in Call : Process(c) \/ DieWithParent(c)) \/ DeadlinePasses \/ HostChanges
  PROVE  UNCHANGED <<pc, allow, call, reply>>
BY DEF Process, BwrapFails, BwrapStartsWorker, WorkerWrites, WorkerExits, BwrapReports,
       DieWithParent, DeadlinePasses, HostChanges, serverVars, hostVars

-----------------------------------------------------------------------------
(* On a host that does not change, the remembered probe, the command that  *)
(* was chosen and the sandboxes that were started all tell of a usable     *)
(* bubblewrap; a launcher that ended without a worker was then killed.     *)
Steady == hostChanges = 0 /\ bwrap # "probe_only"

SteadyInv ==
  /\ \A c \in Call : launcher[c] = "absent" => ~boxed[c]
  /\ Steady =>
       /\ cache = "yes" => bwrap = "usable"
       /\ pc = "spawn" /\ isolated => bwrap = "usable"
       /\ \A c \in Call : boxed[c] => bwrap = "usable"
       /\ \A c \in Call :
            boxed[c] /\ worker[c] = "absent" /\ launcher[c] = "exited" => rc[c] = -9
       /\ UnenforceableSandboxIsRefused

(* Every step keeps the sandboxes of a steady host usable.                 *)
LEMMA SteadyStep ==
  ASSUME IInv, SteadyInv, [Next]_vars PROVE SteadyInv'
<1> USE DEF SteadyInv, Steady, UnenforceableSandboxIsRefused, hostVars, serverVars, procVars
<1>0. TypeOK /\ CurrentCallIsOpen /\ OrphansGetNoReply /\ LivesAreCoherent
  BY DEF IInv
<1> USE DEF CurrentCallIsOpen, Busy, NoReply, Service!NoReply
<1>1. CASE BeginCall
  BY <1>0, <1>1 DEF TypeOK, BeginCall, Goto
<1>2. CASE EnsureLinux
  BY <1>0, <1>2 DEF TypeOK, EnsureLinux, Goto, Raise, Return
<1>3. CASE SandboxAvailable
  BY <1>0, <1>3 DEF TypeOK, SandboxAvailable, ProbeAnswers, Goto
<1>4. CASE SelectCommand
  BY <1>0, <1>4 DEF TypeOK, SelectCommand, Goto, Raise, Return
<1>5. CASE Spawn
  BY <1>0, <1>5 DEF TypeOK, Spawn, Goto
<1>6. CASE SpawnFails
  BY <1>0, <1>6 DEF TypeOK, SpawnFails, Goto, Raise, Return
<1>7. CASE CommunicateReturns
  BY <1>0, <1>7 DEF TypeOK, CommunicateReturns, Goto
<1>8. CASE TimeoutExpired
  BY <1>0, <1>8 DEF TypeOK, TimeoutExpired, Goto
<1>9. CASE KillGroup
  BY <1>0, <1>9 DEF TypeOK, KillGroup, Goto
<1>10. CASE Drain
  BY <1>0, <1>10 DEF TypeOK, Drain, Goto, Raise, Return
<1>11. CASE Interpret
  BY <1>0, <1>11 DEF TypeOK, Interpret, Interpretation, ResourceCodes, PipesClosed, Goto, Return
<1>12. CASE DeadlinePasses
  BY <1>0, <1>12 DEF TypeOK, DeadlinePasses
<1>13. CASE Crash
  BY <1>0, <1>13 DEF TypeOK, Crash, Goto
<1>14. CASE Restart
  BY <1>0, <1>14 DEF TypeOK, Restart, Goto
<1>15. CASE HostChanges
  BY <1>0, <1>15 DEF TypeOK, HostChanges
<1>16. ASSUME NEW p \in Call, BwrapFails(p) PROVE SteadyInv'
  BY <1>0, <1>16 DEF TypeOK, BwrapFails
<1>17. ASSUME NEW p \in Call, BwrapStartsWorker(p) PROVE SteadyInv'
  BY <1>0, <1>17 DEF TypeOK, BwrapStartsWorker
<1>18. ASSUME NEW p \in Call, WorkerWrites(p) PROVE SteadyInv'
  BY <1>0, <1>18 DEF TypeOK, WorkerWrites
<1>19. ASSUME NEW p \in Call, WorkerExits(p) PROVE SteadyInv'
  <2>1. /\ worker[p] = "running" /\ worker' = [worker EXCEPT ![p] = "exited"]
        /\ UNCHANGED <<pc, cache, isolated, boxed, reply, bwrap, hostChanges>>
    BY <1>19 DEF WorkerExits
  <2>2. /\ launcher'[p] \in {launcher[p], "exited"}
        /\ \A c \in Call \ {p} : launcher'[c] = launcher[c] /\ rc'[c] = rc[c]
    <3>1. \/ UNCHANGED <<launcher, rc>>
          \/ \E r : /\ launcher' = [launcher EXCEPT ![p] = "exited"]
                    /\ rc' = [rc EXCEPT ![p] = r]
      BY <1>19, Zenon DEF WorkerExits
    <3> QED
      BY <1>0, <3>1 DEF TypeOK
  <2> QED
    BY <1>0, <2>1, <2>2 DEF TypeOK
<1>20. ASSUME NEW p \in Call, BwrapReports(p) PROVE SteadyInv'
  BY <1>0, <1>20 DEF TypeOK, BwrapReports
<1>21. ASSUME NEW p \in Call, DieWithParent(p) PROVE SteadyInv'
  BY <1>0, <1>21 DEF TypeOK, DieWithParent, ParentIsDead
<1>22. CASE UNCHANGED vars
  BY <1>22 DEF vars
<1> QED
  BY <1>1, <1>2, <1>3, <1>4, <1>5, <1>6, <1>7, <1>8, <1>9, <1>10, <1>11, <1>12,
     <1>13, <1>14, <1>15, <1>16, <1>17, <1>18, <1>19, <1>20, <1>21, <1>22
     DEF Next, Server, Process, ClientIsDone

-----------------------------------------------------------------------------
(* The theorems                                                            *)

(* Every reachable state has the types TypeOK gives, in particular every   *)
(* reply is one of the replies the service may give.                       *)
THEOREM TypeCorrect == Spec => []TypeOK
BY InitType, TypeStep, PTL DEF Spec

(* IInv holds in every reachable state.                                    *)
THEOREM InductiveInvariant == Spec => []IInv
BY InitInv, InvStep, PTL DEF Spec

(* When a call has returned, whatever ended it, no process of it runs.     *)
THEOREM NoProcessOutlives == Spec => []NoProcessOutlivesItsCall
<1>1. IInv => NoProcessOutlivesItsCall
  BY DEF IInv, NoProcessOutlivesItsCall, OnlyTheCurrentCallRuns, OrphansGetNoReply,
         CurrentCallIsOpen, Busy
<1> QED
  BY <1>1, InductiveInvariant, PTL

(* The isolation flag of an answer is true, and a worker without a sandbox *)
(* exists only under the escape hatch.                                     *)
THEOREM IsolationTold == Spec => []IsolationIsTold
<1>1. IInv => IsolationIsTold
  BY DEF IInv
<1> QED
  BY <1>1, InductiveInvariant, PTL

(* Only a complete line of a worker no resource signal stopped is taken    *)
(* for an answer.                                                          *)
THEOREM AnswersWhole == Spec => []AnswersAreWhole
<1>1. IInv => AnswersAreWhole
  BY DEF IInv
<1> QED
  BY <1>1, InductiveInvariant, PTL

(* A worker stopped by a resource signal is never an internal error.       *)
THEOREM ResourceDeathsNamed == Spec => []ResourceDeathsAreNamed
<1>1. IInv => ResourceDeathsAreNamed
  BY DEF IInv
<1> QED
  BY <1>1, InductiveInvariant, PTL

(* On a host that does not change, with a bubblewrap that does what the    *)
(* probe says, no call is an internal error for want of a sandbox.         *)
THEOREM SteadySandboxBuilt == Spec => []SteadySandboxIsBuilt
<1>1. Init => SteadyInv
  BY DEF Init, SteadyInv, Steady, UnenforceableSandboxIsRefused, NoReply, Service!NoReply
<1>2. Spec => []SteadyInv
  BY <1>1, SteadyStep, InductiveInvariant, PTL DEF Spec
<1>3. SteadyInv => SteadySandboxIsBuilt
  BY DEF SteadyInv, Steady, SteadySandboxIsBuilt
<1> QED
  BY <1>2, <1>3, PTL

(* Once the group has been signalled, the call ends as a timeout.          *)
THEOREM LateAnswersNeverWin == Spec => LateAnswerNeverWins
<1>1. IInv /\ [Next]_vars =>
        [pc = "drain" /\ pc' = "idle" => reply'[call].code = "BACKEND_TIMEOUT"]_vars
  <2> SUFFICES ASSUME IInv, [Next]_vars, pc = "drain", pc' = "idle"
               PROVE  reply'[call].code = "BACKEND_TIMEOUT"
    OBVIOUS
  <2>1. TypeOK /\ call \in Call
    BY DEF IInv, CurrentCallIsOpen, Busy
  <2>2. Drain
    BY DEF Next, Server, Process, Goto, BeginCall, EnsureLinux, SandboxAvailable, SelectCommand, Spawn,
           SpawnFails, CommunicateReturns, TimeoutExpired, KillGroup, Interpret, BwrapFails,
           BwrapStartsWorker, WorkerWrites, WorkerExits, BwrapReports, DieWithParent,
           DeadlinePasses, Crash, Restart, HostChanges, ClientIsDone, vars, serverVars
  <2> QED
    BY <2>1, <2>2 DEF Drain, Raise, Return, TypeOK
<1> QED
  BY <1>1, InductiveInvariant, PTL DEF Spec, LateAnswerNeverWins

(* Every step of the runner is a step of the service its caller sees, or   *)
(* leaves what the caller sees unchanged.                                  *)
THEOREM RunnerImplementsService == Spec => Service!Safety
<1>1. Init => Service!Init
  BY DEF Init, Service!Init, Call, Service!Call, NoReply
<1>2. IInv /\ [Next]_vars => [Service!Next]_(Service!vars)
  <2> SUFFICES ASSUME IInv, [Next]_vars PROVE [Service!Next]_(Service!vars)
    OBVIOUS
  <2>1. CASE BeginCall
    <3>1. Service!Accept
      BY <2>1 DEF BeginCall, Service!Accept, Goto, hostVars
    <3> QED
      BY <3>1 DEF Service!Next
  <2>2. CASE Server /\ Busy
    <3>1. CASE Busy' /\ UNCHANGED <<allow, call, reply>>
      BY <2>2, <3>1 DEF Service!vars, Busy
    <3>2. CASE /\ UNCHANGED <<allow, call>> /\ pc' = "idle" /\ reply[call] = NoReply
               /\ \E r \in Service!Replies :
                    Service!Permitted(r) /\ reply' = [reply EXCEPT ![call] = r]
      BY <2>2, <3>2 DEF Service!Next, Service!Reply, Busy, NoReply
    <3> QED
      BY <2>2, <3>1, <3>2, ThreadStep
  <2>3. CASE Server /\ ~Busy /\ ~BeginCall
    BY <2>3 DEF Server, Busy, EnsureLinux, SandboxAvailable, SelectCommand, Spawn, SpawnFails,
                CommunicateReturns, TimeoutExpired, KillGroup, Drain, Interpret
  <2>4. ASSUME UNCHANGED <<pc, allow, call, reply>>
        PROVE  [Service!Next]_(Service!vars)
    BY <2>4 DEF Service!vars
  <2>5. CASE (\E c \in Call : Process(c) \/ DieWithParent(c)) \/ DeadlinePasses \/ HostChanges
    BY <2>4, <2>5, SurroundingStep
  <2>6. CASE Crash
    <3>1. Service!Die
      BY <2>6 DEF Crash, Service!Die, Goto, hostVars
    <3> QED
      BY <3>1 DEF Service!Next
  <2>7. CASE Restart
    <3>1. Service!Recover
      BY <2>7 DEF Restart, Service!Recover, Goto, hostVars
    <3> QED
      BY <3>1 DEF Service!Next
  <2>8. CASE UNCHANGED vars
    BY <2>8, <2>4 DEF vars, serverVars, hostVars
  <2> QED
    BY <2>1, <2>2, <2>3, <2>5, <2>6, <2>7, <2>8 DEF Next, ClientIsDone
<1> QED
  BY <1>1, <1>2, InductiveInvariant, PTL DEF Spec, Service!Safety

-----------------------------------------------------------------------------
(* Liveness. What ENABLED means no prover here can work out; TLC checks it *)
(* in every state, as NobodyWaitsInVain: whenever the thread, the clock or *)
(* the kernel has what it waits for, it can take its step. From that and   *)
(* from the fairness the provers prove that every call ends: it passes     *)
(* through the stages of run_in_subprocess in their order.                 *)

(* While communicate waits its deadline is set, and from the kill on the   *)
(* child is dead: what still keeps the pipes open is a worker in a sandbox.*)
CallInv ==
  /\ pc = "communicate" => deadline # "off" /\ launcher[call] # "absent"
  /\ pc = "kill" => launcher[call] # "absent"
  /\ pc = "drain" => launcher[call] = "exited" /\ (boxed[call] \/ worker[call] # "running")
  /\ \A c \in Call : ~boxed[c] => (launcher[c] = "running" <=> worker[c] = "running")

LEMMA CallInit == Init => CallInv
BY DEF Init, CallInv

(* Every step keeps deadline and pipes so.                                 *)
LEMMA CallStep ==
  ASSUME IInv, CallInv, [Next]_vars PROVE CallInv'
<1> USE DEF CallInv, hostVars, serverVars, procVars
<1>0. TypeOK /\ CurrentCallIsOpen /\ LivesAreCoherent /\ FutureCallsAreBlank
  BY DEF IInv
<1> USE DEF CurrentCallIsOpen, Busy
<1>1. CASE BeginCall
  BY <1>0, <1>1 DEF TypeOK, BeginCall, Goto
<1>2. CASE EnsureLinux
  BY <1>0, <1>2 DEF TypeOK, EnsureLinux, Goto, Raise, Return
<1>3. CASE SandboxAvailable
  BY <1>0, <1>3 DEF TypeOK, SandboxAvailable, Goto
<1>4. CASE SelectCommand
  BY <1>0, <1>4 DEF TypeOK, SelectCommand, Goto, Raise, Return
<1>5. CASE Spawn
  BY <1>0, <1>5 DEF TypeOK, Spawn, Goto
<1>6. CASE SpawnFails
  BY <1>0, <1>6 DEF TypeOK, SpawnFails, Goto, Raise, Return
<1>7. CASE CommunicateReturns
  BY <1>0, <1>7 DEF TypeOK, CommunicateReturns, Goto
<1>8. CASE TimeoutExpired
  BY <1>0, <1>8 DEF TypeOK, TimeoutExpired, Goto
<1>9. CASE KillGroup
  BY <1>0, <1>9 DEF TypeOK, KillGroup, Goto, Phases
<1>10. CASE Drain
  BY <1>0, <1>10 DEF TypeOK, Drain, Goto, Raise, Return
<1>11. CASE Interpret
  BY <1>0, <1>11 DEF TypeOK, Interpret, Goto, Return
<1>12. CASE DeadlinePasses
  BY <1>0, <1>12 DEF TypeOK, DeadlinePasses
<1>13. CASE Crash
  BY <1>0, <1>13 DEF TypeOK, Crash, Goto
<1>14. CASE Restart
  BY <1>0, <1>14 DEF TypeOK, Restart, Goto
<1>15. CASE HostChanges
  BY <1>0, <1>15 DEF TypeOK, HostChanges
<1>16. ASSUME NEW p \in Call, BwrapFails(p) PROVE CallInv'
  BY <1>0, <1>16 DEF TypeOK, BwrapFails
<1>17. ASSUME NEW p \in Call, BwrapStartsWorker(p) PROVE CallInv'
  BY <1>0, <1>17 DEF TypeOK, BwrapStartsWorker
<1>18. ASSUME NEW p \in Call, WorkerWrites(p) PROVE CallInv'
  BY <1>0, <1>18 DEF TypeOK, WorkerWrites
<1>19. ASSUME NEW p \in Call, WorkerExits(p) PROVE CallInv'
  <2>1. /\ worker[p] = "running" /\ worker' = [worker EXCEPT ![p] = "exited"]
        /\ UNCHANGED <<pc, call, deadline, boxed>>
    BY <1>19 DEF WorkerExits
  <2>2. launcher' = (IF boxed[p] THEN launcher ELSE [launcher EXCEPT ![p] = "exited"])
    BY <1>19 DEF WorkerExits
  <2> QED
    BY <1>0, <2>1, <2>2 DEF TypeOK
<1>20. ASSUME NEW p \in Call, BwrapReports(p) PROVE CallInv'
  BY <1>0, <1>20 DEF TypeOK, BwrapReports
<1>21. ASSUME NEW p \in Call, DieWithParent(p) PROVE CallInv'
  BY <1>0, <1>21 DEF TypeOK, DieWithParent
<1>22. CASE UNCHANGED vars
  BY <1>22 DEF vars
<1> QED
  BY <1>1, <1>2, <1>3, <1>4, <1>5, <1>6, <1>7, <1>8, <1>9, <1>10, <1>11, <1>12,
     <1>13, <1>14, <1>15, <1>16, <1>17, <1>18, <1>19, <1>20, <1>21, <1>22
     DEF Next, Server, Process, ClientIsDone

Over == pc \in {"idle", "down"}

(* A call that is under way waits for the thread, for the clock, or for    *)
(* the kernel: nothing it needs from a worker, and no cycle.               *)
LEMMA SomebodyIsDue ==
  ASSUME IInv, CallInv, Busy PROVE CanServe \/ ClockRuns \/ SignalIsDue(call)
<1>1. TypeOK
  BY DEF IInv
<1> QED
  BY <1>1 DEF TypeOK, PCs, Busy, CallInv, CanServe, ClockRuns, SignalIsDue, PipesClosed, ParentIsDead

(* What any step does to the stage of a call that is under way.            *)
LEMMA StageStep ==
  ASSUME IInv, CallInv, [Next]_vars, Busy
  PROVE  \/ Over'
         \/ pc' = pc /\ (deadline' = deadline \/ <<DeadlinePasses>>_vars)
         \/ <<Serve>>_vars
<1>1. CASE Server
  <2>1. ~BeginCall
    BY DEF Busy, BeginCall
  <2>2. CASE vars' = vars
    BY <2>2 DEF vars, serverVars
  <2> QED
    BY <1>1, <2>1, <2>2 DEF Serve
<1>2. CASE (\E c \in Call : Process(c) \/ DieWithParent(c)) \/ HostChanges \/ UNCHANGED vars
  <2>1. ASSUME NEW c \in Call, Process(c) \/ DieWithParent(c) PROVE UNCHANGED serverVars
    BY <2>1, Zenon DEF Process, BwrapFails, BwrapStartsWorker, WorkerWrites, WorkerExits,
                       BwrapReports, DieWithParent
  <2>2. CASE HostChanges \/ UNCHANGED vars
    BY <2>2 DEF HostChanges, vars, serverVars
  <2> QED
    BY <1>2, <2>1, <2>2 DEF serverVars
<1>3. CASE DeadlinePasses
  BY <1>3 DEF DeadlinePasses, vars, serverVars
<1>4. CASE Crash \/ Restart
  BY <1>4 DEF Crash, Restart, Goto, Over
<1> QED
  BY <1>1, <1>2, <1>3, <1>4 DEF Next, ClientIsDone

(* What a step of the thread does to it.                                   *)
LEMMA ServeStep ==
  ASSUME IInv, Serve
  PROVE  \/ Over'
         \/ pc = "ensure" /\ pc' = "probe"
         \/ pc = "probe" /\ pc' = "select"
         \/ pc = "select" /\ pc' = "spawn"
         \/ pc = "spawn" /\ pc' = "communicate"
         \/ pc = "communicate" /\ pc' \in {"interpret", "kill"}
         \/ pc = "kill" /\ pc' = "drain"
BY DEF Serve, Server, Over, EnsureLinux, SandboxAvailable, SelectCommand, Spawn, SpawnFails,
       CommunicateReturns, TimeoutExpired, KillGroup, Drain, Interpret, Goto, Raise, Return

-----------------------------------------------------------------------------
(* What is invariant, for the arguments about time.                        *)
J == IInv /\ CallInv

LEMMA JAlways == Spec => []J
BY CallInit, CallStep, InductiveInvariant, PTL DEF Spec, J

(* No call is ever stuck without somebody to blame: while one is under     *)
(* way the thread, the clock or the kernel owes it a step, and nothing it  *)
(* needs is up to a worker.                                                *)
THEOREM NoCallIsStuck ==
  Spec => [](Busy => CanServe \/ ClockRuns \/ SignalIsDue(call))
<1>1. J => (Busy => CanServe \/ ClockRuns \/ SignalIsDue(call))
  BY SomebodyIsDue DEF J
<1> QED
  BY <1>1, JAlways, PTL

(* The stages in which the thread waits for nothing, and what follows.     *)
After(stage) ==
  CASE stage = "ensure" -> "probe"
    [] stage = "probe" -> "select"
    [] stage = "select" -> "spawn"
    [] stage = "spawn" -> "communicate"
    [] stage = "kill" -> "drain"
    [] OTHER -> "idle"

GoesOn(stage) == pc = stage ~> pc = After(stage) \/ Over

(* Such a stage is left for the next one, or the call is over.             *)
LEMMA ThreadGoesOn ==
  ASSUME NEW stage \in {"ensure", "probe", "select", "spawn", "kill", "interpret"}
  PROVE  Spec /\ []NobodyWaitsInVain => GoesOn(stage)
<1>1. J /\ pc = stage /\ <<Serve>>_vars => (pc = After(stage) \/ Over)'
  BY ServeStep DEF J, Over, After
<1>2. J /\ pc = stage /\ [Next]_vars => (pc = stage \/ pc = After(stage) \/ Over)'
  BY <1>1, StageStep DEF J, Busy, Over
<1>3. NobodyWaitsInVain => (pc = stage => ENABLED <<Serve>>_vars)
  BY DEF NobodyWaitsInVain, CanServe
<1> QED
  BY <1>1, <1>2, <1>3, JAlways, PTL DEF Spec, Fairness, GoesOn

(* communicate ends by itself, or because its deadline passes.             *)
LEMMA CommunicateEnds ==
  Spec /\ []NobodyWaitsInVain =>
    (pc = "communicate" ~> pc = "interpret" \/ pc = "kill" \/ Over)
<1> DEFINE Armed  == pc = "communicate" /\ deadline = "armed"
           Passed == pc = "communicate" /\ deadline = "passed"
           Left   == pc = "interpret" \/ pc = "kill" \/ Over
<1>1. J /\ pc = "communicate" => Armed \/ Passed
  BY DEF J, IInv, TypeOK, CallInv
<1>2. J /\ pc = "communicate" /\ <<Serve>>_vars => Left'
  BY ServeStep DEF J, Over
<1>3. J /\ Armed /\ [Next]_vars => Armed' \/ Passed' \/ Left'
  BY <1>2, StageStep DEF J, Busy, Over, DeadlinePasses
<1>4. J /\ Armed /\ <<DeadlinePasses>>_vars => Passed'
  BY DEF DeadlinePasses
<1>5. NobodyWaitsInVain => (Armed => ENABLED <<DeadlinePasses>>_vars)
  BY DEF NobodyWaitsInVain, ClockRuns
<1>6. J /\ Passed /\ [Next]_vars => Passed' \/ Left'
  BY <1>2, StageStep DEF J, Busy, Over, DeadlinePasses
<1>7. NobodyWaitsInVain => (Passed => ENABLED <<Serve>>_vars)
  BY DEF NobodyWaitsInVain, CanServe
<1> QED
  BY <1>1, <1>2, <1>3, <1>4, <1>5, <1>6, <1>7, JAlways, PTL DEF Spec, Fairness

(* A signal due to the sandbox of the call that is drained ends it, and    *)
(* closed pipes stay closed.                                               *)
LEMMA DrainStep ==
  ASSUME J, [Next]_vars, pc = "drain", pc' = "drain"
  PROVE  /\ PipesClosed(call) => PipesClosed(call)'
         /\ CurrentDies => PipesClosed(call)'
<1>1. TypeOK /\ call \in Call /\ launcher[call] = "exited"
  BY DEF J, IInv, CurrentCallIsOpen, Busy, CallInv
<1>2. CASE Server \/ Crash \/ Restart
  BY <1>2, ServeStep DEF J, Server, BeginCall, Crash, Restart, Goto, Serve, Over
<1>3. ASSUME NEW c \in Call, Process(c) \/ DieWithParent(c)
      PROVE  /\ call' = call /\ launcher'[call] = "exited"
             /\ worker'[call] \in {worker[call], "exited"}
  <2>1. CASE BwrapFails(c) \/ BwrapStartsWorker(c) \/ WorkerWrites(c) \/ BwrapReports(c)
    BY <1>1, <2>1 DEF TypeOK, BwrapFails, BwrapStartsWorker, WorkerWrites, BwrapReports,
       DieWithParent, serverVars
  <2>2. CASE WorkerExits(c)
    <3>1. /\ worker[c] = "running" /\ worker' = [worker EXCEPT ![c] = "exited"]
          /\ launcher' = launcher \/ launcher' = [launcher EXCEPT ![c] = "exited"]
          /\ call' = call
      BY <2>2 DEF WorkerExits, serverVars
    <3> QED
      BY <1>1, <3>1 DEF TypeOK
  <2>3. CASE DieWithParent(c)
    BY <1>1, <2>3 DEF TypeOK, DieWithParent, serverVars
  <2> QED
    BY <1>3, <2>1, <2>2, <2>3 DEF Process
<1>4. ASSUME DeadlinePasses \/ HostChanges \/ UNCHANGED vars
      PROVE  UNCHANGED <<call, launcher, worker>>
  BY <1>1, <1>4 DEF DeadlinePasses, HostChanges, vars, serverVars, procVars
<1>5. CurrentDies => PipesClosed(call)'
  BY <1>1 DEF CurrentDies, DieWithParent, TypeOK, PipesClosed, serverVars
<1> QED
  BY <1>1, <1>2, <1>3, <1>4, <1>5 DEF Next, ClientIsDone, PipesClosed

(* The second communicate ends: the kernel kills a worker that is left.    *)
LEMMA DrainEnds ==
  Spec /\ []NobodyWaitsInVain => (pc = "drain" ~> Over)
<1> DEFINE Open   == pc = "drain" /\ ~PipesClosed(call)
           Closed == pc = "drain" /\ PipesClosed(call)
<1>1. J /\ pc = "drain" /\ <<Serve>>_vars => Over'
  BY ServeStep DEF J, Over
<1>2. J /\ pc = "drain" /\ [Next]_vars => (pc = "drain")' \/ Over'
  BY <1>1, StageStep DEF J, Busy, Over
<1>3. J /\ Open /\ [Next]_vars => Open' \/ Closed' \/ Over'
  BY <1>2
<1>4. J /\ Open /\ [Next]_vars /\ <<CurrentDies>>_vars => Closed' \/ Over'
  BY <1>2, DrainStep
<1>5. NobodyWaitsInVain /\ J => (Open => ENABLED <<CurrentDies>>_vars)
  BY DEF NobodyWaitsInVain, SignalIsDue, PipesClosed, ParentIsDead, J, CallInv, Busy
<1>6. J /\ Closed /\ [Next]_vars => Closed' \/ Over'
  BY <1>2, DrainStep
<1>7. NobodyWaitsInVain => (Closed => ENABLED <<Serve>>_vars)
  BY DEF NobodyWaitsInVain, CanServe
<1> QED
  BY <1>1, <1>3, <1>4, <1>5, <1>6, <1>7, JAlways, PTL DEF Spec, Fairness

(* Stage after stage a call passes through run_in_subprocess and ends.     *)
LEMMA BusyEnds == Spec /\ []NobodyWaitsInVain => (Busy ~> Over)
<1> DEFINE Goes(stage) == Spec /\ []NobodyWaitsInVain => GoesOn(stage)
<1>1. /\ Goes("ensure") /\ Goes("probe") /\ Goes("select") /\ Goes("spawn")
      /\ Goes("kill") /\ Goes("interpret")
  BY ThreadGoesOn
<1>2. /\ pc = After("ensure") => pc = "probe"
      /\ pc = After("probe") => pc = "select"
      /\ pc = After("select") => pc = "spawn"
      /\ pc = After("spawn") => pc = "communicate"
      /\ pc = After("kill") => pc = "drain"
      /\ pc = After("interpret") => Over
  BY Zenon DEF After, Over
<1>3. J /\ Busy => \/ pc = "ensure" \/ pc = "probe" \/ pc = "select" \/ pc = "spawn"
                   \/ pc = "communicate" \/ pc = "kill" \/ pc = "drain" \/ pc = "interpret"
  BY DEF J, IInv, TypeOK, PCs, Busy
<1> QED
  BY <1>1, <1>2, <1>3, CommunicateEnds, DrainEnds, JAlways, PTL DEF GoesOn

(* Every call comes to an end, whatever its worker does.                   *)
THEOREM CallsAlwaysEnd == Spec /\ []NobodyWaitsInVain => EveryCallEnds
BY BusyEnds, PTL DEF EveryCallEnds, Busy, Over

(* The processes of a dead server stay in their sandbox, or end.           *)
LEMMA OrphanStep ==
  ASSUME IInv, [Next]_vars, NEW c \in Call, orphan[c], boxed[c]
  PROVE  /\ orphan'[c] /\ boxed'[c]
         /\ DieWithParent(c) => launcher'[c] # "running" /\ worker'[c] # "running"
<1>1. TypeOK /\ (Busy => call \in Call /\ c # call)
  BY DEF IInv, CurrentCallIsOpen, Busy
<1>2. Spawn \/ Crash => orphan'[c] /\ boxed'[c]
  BY <1>1 DEF Spawn, Crash, Busy, TypeOK
<1>3. (\E p \in Call : Process(p) \/ DieWithParent(p)) => UNCHANGED <<orphan, boxed>>
  BY Zenon DEF Process, BwrapFails, BwrapStartsWorker, WorkerWrites, WorkerExits,
               BwrapReports, DieWithParent
<1>4. Server => Spawn \/ UNCHANGED <<orphan, boxed>>
  BY DEF Server, BeginCall, EnsureLinux, SandboxAvailable, SelectCommand, SpawnFails,
         CommunicateReturns, TimeoutExpired, KillGroup, Drain, Interpret, procVars
<1>5. DeadlinePasses \/ Restart \/ HostChanges \/ UNCHANGED vars => UNCHANGED <<orphan, boxed>>
  BY DEF DeadlinePasses, Restart, HostChanges, vars, procVars
<1>6. orphan'[c] /\ boxed'[c]
  BY <1>2, <1>3, <1>4, <1>5 DEF Next, ClientIsDone
<1>7. DieWithParent(c) => launcher'[c] # "running" /\ worker'[c] # "running"
  BY <1>1 DEF DieWithParent, TypeOK
<1> QED
  BY <1>6, <1>7

(* A sandboxed worker does not survive the death of its server for long.   *)
THEOREM OrphansDie == Spec /\ []NobodyWaitsInVain => SandboxedOrphansDie
<1> DEFINE Left(c) == orphan[c] /\ boxed[c] /\ (launcher[c] = "running" \/ worker[c] = "running")
           Gone(c) == launcher[c] # "running" /\ worker[c] # "running"
<1>1. ASSUME NEW c \in Call
      PROVE  Spec /\ []NobodyWaitsInVain => (orphan[c] /\ boxed[c] ~> Gone(c))
  <2>1. IInv /\ Left(c) /\ [Next]_vars => Left(c)' \/ Gone(c)'
    BY OrphanStep
  <2>2. IInv /\ Left(c) /\ [Next]_vars /\ <<DieWithParent(c)>>_vars => Gone(c)'
    BY OrphanStep
  <2>3. NobodyWaitsInVain => (Left(c) => ENABLED <<DieWithParent(c)>>_vars)
    BY DEF NobodyWaitsInVain, SignalIsDue, ParentIsDead
  <2>4. KernelKeepsItsWord => SignalArrives(c)
    BY DEF KernelKeepsItsWord
  <2>5. orphan[c] /\ boxed[c] => Left(c) \/ Gone(c)
    OBVIOUS
  <2> QED
    BY <2>1, <2>2, <2>3, <2>4, <2>5, InductiveInvariant, PTL
       DEF Spec, Fairness, SignalArrives
<1> QED
  BY <1>1 DEF SandboxedOrphansDie

(* The runner implements the whole of the service its caller counts on:    *)
(* what it may do, and that every call ends.                               *)
THEOREM RunnerKeepsItsPromise == Spec /\ []NobodyWaitsInVain => ImplementsCallService
<1> DEFINE phase == IF pc \in {"idle", "down"} THEN pc ELSE "busy"
<1>1. Spec /\ []NobodyWaitsInVain => (phase = "busy" ~> phase # "busy")
  <2>1. (phase = "busy" => Busy) /\ (Over => phase # "busy")
    BY DEF Busy, Over
  <2> QED
    BY <2>1, BusyEnds, PTL
<1> QED
  BY <1>1, RunnerImplementsService, PTL DEF ImplementsCallService, Service!Spec, Service!CallsEnd
=============================================================================
