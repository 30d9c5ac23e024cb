-------------------------------- MODULE Catalog --------------------------------
(***************************************************************************)
(* What the server says of itself and what it then does: the registry and  *)
(* its tools, the answer of math_capabilities, the names suggested for one *)
(* that is unknown, and the dispatcher that has to keep all of it. A name  *)
(* that no tool has resembles the names it is compared with as it likes.   *)
(***************************************************************************)
EXTENDS Dispatch, FiniteSets

CONSTANTS
  Tool,      \* operation -> the tool that has it
  Mistaken,  \* a name that its tool does not have -> the tool it is sent to
  Promise    \* operation -> [max, modes]: max_certainty and proof_modes

Limit == 3   \* suggestions in one answer

ASSUME CatalogAssumption ==
  /\ DOMAIN Tool = DOMAIN Registry
  /\ Promise \in [DOMAIN Registry -> [max : Certainties, modes : SUBSET Methods]]
  /\ DOMAIN Mistaken \cap (DOMAIN Registry \cup DOMAIN Aliases) = {}
  /\ Names = DOMAIN Registry \cup DOMAIN Aliases \cup DOMAIN Mistaken

VARIABLES
  suggested,  \* suggested[r]: suggested_operations of the error of request r
  listing     \* the last answer of math_capabilities and what it was asked

catalogVars == <<vars, suggested, listing>>

OperationsOf(tool) == {op \in DOMAIN Registry : Tool[op] = tool}
AliasesOf(tool) == {a \in DOMAIN Aliases : Tool[Aliases[a]] = tool}

NotAsked == [experimental |-> FALSE, disabled |-> FALSE, operations |-> {}, aliases |-> {}]

CatalogInit ==
  /\ Init
  /\ suggested = [r \in Request |-> {}]
  /\ listing = NotAsked

-----------------------------------------------------------------------------
(* Mutation of StateVisible: disabled operations are hidden by the flag of *)
(* the experimental ones.                                                  *)
StateVisible_OneFlag(state, experimental, disabled) ==
  state \in {"implemented", "deprecated"} \/ experimental \/ disabled

(* _state_visible.                                                         *)
StateVisible(state, experimental, disabled) ==
  \/ state \in {"implemented", "deprecated"}
  \/ state = "experimental" /\ experimental
  \/ state = "disabled" /\ disabled

(* get_capabilities, in either mode: aliases are listed whatever they name.*)
MathCapabilities ==
  /\ pc = "idle" /\ n = 0
  /\ \E experimental, disabled \in BOOLEAN :
       listing' = [experimental |-> experimental, disabled |-> disabled,
                   operations |-> {op \in DOMAIN Registry :
                     StateVisible(Registry[op].state, experimental, disabled)},
                   aliases |-> DOMAIN Aliases]
  /\ UNCHANGED <<vars, suggested>>

(* visible_operations_for_tool.                                            *)
Visible(tool) ==
  {op \in OperationsOf(tool) : Registry[op].state \in {"implemented", "deprecated"}}

(* Mutation of CloseMatches: an alias that resembles is taken at its word. *)
CloseMatches_Unfiltered(tool, keys, ops) == {Aliases[k] : k \in keys} \cup ops

(* The visible operations meant by keys, the aliases that resemble a name, *)
(* and the operations that resemble it.                                    *)
CloseMatches(tool, keys, ops) == ({Aliases[k] : k \in keys} \cap Visible(tool)) \cup ops

Few(S) == {T \in SUBSET S : Cardinality(T) <= Limit}

Cut(S) == {T \in Few(S) : T = S \/ Cardinality(T) = Limit}

(* suggest_operations: what resembles, or else what shares a keyword.      *)
Suggestions(tool) ==
  UNION {LET close == CloseMatches(tool, keys, ops)
         IN  IF close = {} THEN Few(Visible(tool)) ELSE Cut(close)
         : keys \in Few(AliasesOf(tool)), ops \in Few(Visible(tool))}

(* Refuse, with the hints that an unknown name's error carries.            *)
RefuseByName ==
  /\ Refuse
  /\ suggested' \in
       IF request[n].name \in DOMAIN Mistaken
       THEN {[suggested EXCEPT ![n] = S] : S \in Suggestions(Mistaken[request[n].name])}
       ELSE {suggested}
  /\ UNCHANGED listing

Elsewhere ==
  /\ \/ BeginRequest \/ RouteToWorker \/ RouteToServer \/ Collect \/ Assemble
     \/ HandlerReturns \/ RunnerReplies \/ ServerDies \/ ServerStarts \/ ClientIsDone
  /\ UNCHANGED <<suggested, listing>>

CatalogNext == MathCapabilities \/ RefuseByName \/ Elsewhere

CatalogSpec == CatalogInit /\ [][CatalogNext]_catalogVars

-----------------------------------------------------------------------------
(* Properties                                                              *)

(* A request of this name that is otherwise in order is admitted.          *)
GetsThrough(name) == Admissible([name |-> name, flaws |-> {}])

(* A client that repeats its request with a name it was offered gets past  *)
(* the lookup that refused it, and its request goes to the same tool: no   *)
(* suggestion leads to a disabled operation or to another unknown name     *)
(* (_resolve_operation, suggest_operations).                               *)
SuggestedIsCallable ==
  \A r \in Request : \A op \in suggested[r] :
    GetsThrough(op) /\ Tool[op] = Mistaken[request[r].name]

(* "The operation must be one returned by math_capabilities" (server.py):  *)
(* an operation of a listing that did not ask for disabled ones is never   *)
(* refused by name, and whatever ran was in a listing that asked for the   *)
(* experimental ones.                                                      *)
ListingMatchesTheDispatcher ==
  \A r \in Request :
    /\ /\ ~listing.disabled /\ request[r].name \in listing.operations
       /\ request[r].flaws = {} /\ where[r] = "nowhere"
       => result[r] = NoResult
    /\ listing.experimental /\ where[r] # "nowhere" =>
         Resolve(request[r].name) \subseteq listing.operations

(* max_certainty is an upper bound (test_conformance.py:36-39): whatever   *)
(* the handler found and the caveats left of it, no result is stronger.    *)
MaxCertaintyIsKept ==
  \A r \in Request : result[r].code = "ok" =>
    \A op \in Resolve(request[r].name) :
      Rank[result[r].certainty] >= Rank[Promise[op].max]

(* A strict verdict rests on a method that its operation declares: no      *)
(* operation that is not proof_capable proves, and none proves or refutes  *)
(* by sampling, whatever route its alias and its backend take.             *)
ProofModesAreDeclared ==
  \A r \in Request :
    result[r].code = "ok" /\ result[r].certainty \in {"proved", "disproved"} =>
      \A op \in Resolve(request[r].name) : result[r].method \in Promise[op].modes

(* What a registry entry promises of its handler's outcomes.               *)
HandlersAreHonest ==
  \A op \in DOMAIN Registry : \A o \in Outcomes[op] :
    /\ Rank[o.certainty] >= Rank[Promise[op].max]
    /\ o.certainty \in {"proved", "disproved"} => o.method \in Promise[op].modes
=============================================================================
