----------------------------- MODULE CallService -----------------------------
(***************************************************************************)
(* What run_in_subprocess promises the dispatcher, with no process, pipe   *)
(* or clock in sight: calls are served one at a time, a call is replied to *)
(* at most once and, unless the server process dies under it, exactly      *)
(* once; and an answer computed outside a sandbox only ever comes from a   *)
(* server that was started with the development escape hatch.              *)
(***************************************************************************)
EXTENDS Naturals

CONSTANT MaxCalls      \* bound on the calls of one behaviour, at least one

Call == 1 .. MaxCalls

(* "answer" is any JSON object the worker printed, its own structured      *)
(* errors included; the other codes are raised by the runner.              *)
Codes == {"answer", "BACKEND_TIMEOUT", "RESOURCE_LIMIT_EXCEEDED",
          "BACKEND_INTERNAL_ERROR", "SANDBOX_UNAVAILABLE",
          "PLATFORM_UNSUPPORTED"}

Replies  == [code : Codes, isolated : BOOLEAN]
NoReply  == [code |-> "none", isolated |-> FALSE]

VARIABLES
  allow,    \* MATH_MCP_ALLOW_NO_SANDBOX was set when the server was started
  phase,    \* "idle", "busy" or "down" (the server process is dead)
  call,     \* the number of the current or last call
  reply     \* reply[c]: what the caller of c got, NoReply until then

vars == <<allow, phase, call, reply>>

Init ==
  /\ allow \in BOOLEAN
  /\ phase = "idle"
  /\ call = 0
  /\ reply = [c \in Call |-> NoReply]

Accept ==
  /\ phase = "idle"
  /\ call < MaxCalls
  /\ phase' = "busy"
  /\ call' = call + 1
  /\ UNCHANGED <<allow, reply>>

(* An answer that did not come from a sandbox needs the escape hatch.      *)
Permitted(r) == r.code = "answer" /\ ~r.isolated => allow

Reply(r) ==
  /\ phase = "busy"
  /\ Permitted(r)
  /\ reply[call] = NoReply
  /\ phase' = "idle"
  /\ reply' = [reply EXCEPT ![call] = r]
  /\ UNCHANGED <<allow, call>>

Die ==
  /\ phase # "down"
  /\ phase' = "down"
  /\ UNCHANGED <<allow, call, reply>>

Recover ==
  /\ phase = "down"
  /\ phase' = "idle"
  /\ UNCHANGED <<allow, call, reply>>

Next ==
  \/ Accept
  \/ \E r \in Replies : Reply(r)
  \/ Die
  \/ Recover

Safety == Init /\ [][Next]_vars

(* A call in progress ends: with a reply, or with the server's death.      *)
CallsEnd == phase = "busy" ~> phase # "busy"

Spec == Safety /\ CallsEnd
=============================================================================
