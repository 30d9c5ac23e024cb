----------------------------- MODULE ToolService -----------------------------
(***************************************************************************)
(* What the server promises the clients of its compute tools, with no      *)
(* gate, route, handler or worker in sight. Requests are served one at a   *)
(* time and in their order. When a request arrives, its content and the    *)
(* switches the server was started with settle which results it may get,   *)
(* and there is always one; it then gets one of them, once, and nothing    *)
(* takes it back, unless the server process dies under it.                 *)
(***************************************************************************)
EXTENDS Naturals

CONSTANTS
  MaxRequests,   \* bound on the requests of one behaviour
  Promised(_),   \* the results that a question may get
  NoResult       \* stands for the result of a request that has none

VARIABLES
  phase,      \* "idle", "busy" or "down" (the server process is dead)
  asked,      \* the number of the current or last request
  question,   \* question[r]: what request r asks, of a server with its switches
  answered    \* answered[r]: the result it got, NoResult until then

serviceVars == <<phase, asked, question, answered>>

ServiceInit ==
  /\ phase = "idle" /\ asked = 0
  /\ answered = [r \in 1 .. MaxRequests |-> NoResult]

Ask ==
  /\ phase = "idle" /\ asked < MaxRequests
  /\ phase' = "busy" /\ asked' = asked + 1
  /\ Promised(question'[asked + 1]) # {}
  /\ \A r \in 1 .. asked : question'[r] = question[r]
  /\ UNCHANGED answered

Answer ==
  /\ phase = "busy" /\ answered[asked] = NoResult
  /\ phase' = "idle"
  /\ \E res \in Promised(question[asked]) : answered' = [answered EXCEPT ![asked] = res]
  /\ UNCHANGED <<asked, question>>

Die == phase # "down" /\ phase' = "down" /\ UNCHANGED <<asked, question, answered>>

Recover == phase = "down" /\ phase' = "idle" /\ UNCHANGED <<asked, question, answered>>

ServiceNext == Ask \/ Answer \/ Die \/ Recover

ServiceSpec == ServiceInit /\ [][ServiceNext]_serviceVars
=============================================================================
