----------------------------- MODULE CatalogProofs -----------------------------
(***************************************************************************)
(* What the server says of itself is true of the dispatcher, for every     *)
(* registry, alias table and mistaken name: a suggestion can be called,    *)
(* and a listed operation is never refused by name. The dispatcher's own   *)
(* invariant carries over, because every step of the catalog is one of the *)
(* dispatcher or leaves it alone.                                          *)
(***************************************************************************)
EXTENDS Catalog, DispatchProofs

LEMMA CatalogStepsAreSteps == [CatalogNext]_catalogVars => [Next]_vars
BY DEF CatalogNext, catalogVars, MathCapabilities, RefuseByName, Elsewhere, Next, Step

(* A real operation that is not disabled passes the lookup.                *)
LEMMA EnabledGetsThrough ==
  ASSUME NEW op \in DOMAIN Registry, Registry[op].state # "disabled"
  PROVE  GetsThrough(op)
BY DEF GetsThrough, Admissible, Flaws, Resolve

(* However an unknown name resembles others, what is suggested is visible. *)
LEMMA SuggestionsAreVisible ==
  ASSUME NEW tool, NEW S \in Suggestions(tool)
  PROVE  S \subseteq Visible(tool)
<1>1. PICK keys \in Few(AliasesOf(tool)), ops \in Few(Visible(tool)) :
        S \in (IF CloseMatches(tool, keys, ops) = {} THEN Few(Visible(tool))
               ELSE Cut(CloseMatches(tool, keys, ops)))
  BY DEF Suggestions
<1>2. CloseMatches(tool, keys, ops) \subseteq Visible(tool)
  BY DEF CloseMatches, Few
<1> QED
  BY <1>1, <1>2 DEF Cut, Few

(* Nothing was suggested to a request that has not begun, and all that was *)
(* suggested to one can be called.                                         *)
SuggestedInv ==
  /\ suggested \in [Request -> SUBSET DOMAIN Registry]
  /\ \A r \in Request : r > n => suggested[r] = {}
  /\ SuggestedIsCallable

LEMMA SuggestedStep ==
  ASSUME IInv, SuggestedInv, [CatalogNext]_catalogVars
  PROVE  SuggestedInv'
<1> USE DEF SuggestedInv, SuggestedIsCallable
<1>1. CASE RefuseByName
  <2>1. /\ pc = "admit" /\ UNCHANGED <<n, request>>
    BY <1>1 DEF RefuseByName, Refuse
  <2>2. n \in Request
    BY <2>1 DEF IInv, InStep
  <2>3. CASE suggested' = suggested
    BY <2>1, <2>3 DEF GetsThrough, Admissible, Flaws, Resolve
  <2>4. ASSUME NEW S \in Suggestions(Mistaken[request[n].name]),
               suggested' = [suggested EXCEPT ![n] = S]
        PROVE  SuggestedInv'
    <3>1. S \subseteq Visible(Mistaken[request[n].name])
      BY <2>4, SuggestionsAreVisible
    <3>2. \A op \in S : /\ op \in DOMAIN Registry /\ Tool[op] = Mistaken[request[n].name]
                        /\ Registry[op].state # "disabled"
      BY <3>1 DEF Visible, OperationsOf
    <3>3. \A op \in S : GetsThrough(op)
      BY <3>2, EnabledGetsThrough
    <3>4. suggested' \in [Request -> SUBSET DOMAIN Registry]
      BY <2>4, <3>2
    <3>5. \A r \in Request : suggested'[r] = IF r = n THEN S ELSE suggested[r]
      BY <2>2, <2>4
    <3>6. \A r \in Request : r > n => r # n
      BY DEF IInv, TypeOK, Request
    <3> QED
      BY <2>1, <3>2, <3>3, <3>4, <3>5, <3>6
         DEF GetsThrough, Admissible, Flaws, Resolve
  <2> QED
    BY <1>1, <2>3, <2>4 DEF RefuseByName
<1>2. CASE Elsewhere /\ BeginRequest
  <2>1. /\ suggested' = suggested /\ n' = n + 1 /\ n < MaxRequests
        /\ \A r \in Request : r # n + 1 => request'[r] = request[r]
    BY <1>2 DEF Elsewhere, BeginRequest, IInv, TypeOK
  <2>2. \A r \in Request : r > n' => r > n /\ r # n + 1
    BY <2>1 DEF IInv, TypeOK, Request
  <2>3. \A r \in Request : r = n + 1 => suggested[r] = {}
    BY DEF IInv, TypeOK, Request
  <2> QED
    BY <2>1, <2>2, <2>3 DEF GetsThrough, Admissible, Flaws, Resolve
<1>3. CASE Elsewhere /\ ~BeginRequest
  <2>1. UNCHANGED <<suggested, n, request>>
    BY <1>3 DEF Elsewhere, RouteToWorker, RouteToServer, Collect, Assemble, HandlerReturns,
                RunnerReplies, ServerDies, ServerStarts, ClientIsDone, vars
  <2> QED
    BY <2>1 DEF GetsThrough, Admissible, Flaws, Resolve
<1>4. CASE MathCapabilities \/ UNCHANGED catalogVars
  <2>1. UNCHANGED <<suggested, n, request>>
    BY <1>4 DEF MathCapabilities, catalogVars, vars
  <2> QED
    BY <2>1 DEF GetsThrough, Admissible, Flaws, Resolve
<1> QED
  BY <1>1, <1>2, <1>3, <1>4 DEF CatalogNext

(* The catalog is the dispatcher with more to say of itself: every run of  *)
(* it is one of the dispatcher, and what was proved of that one holds.     *)
THEOREM CatalogImplementsDispatch == CatalogSpec => Safety
<1>1. CatalogInit => Init
  BY DEF CatalogInit
<1> QED
  BY <1>1, CatalogStepsAreSteps, PTL DEF CatalogSpec, Safety

LEMMA InvariantCarriesOver == CatalogSpec => []IInv
BY CatalogImplementsDispatch, InitInv, InvStep, PTL DEF Safety

(* Each answer of the catalog's dispatcher is one ToolService permits.     *)
THEOREM CatalogServesClients == CatalogSpec => AnswersAsPromised
BY CatalogImplementsDispatch, ServesClients

(* A client that follows a suggestion is never refused by name again, nor  *)
(* sent to another tool.                                                   *)
THEOREM SuggestionsCanBeCalled == CatalogSpec => []SuggestedIsCallable
<1>1. CatalogInit => SuggestedInv
  BY DEF CatalogInit, SuggestedInv, SuggestedIsCallable
<1>2. IInv /\ SuggestedInv /\ [CatalogNext]_catalogVars => SuggestedInv'
  BY SuggestedStep
<1>3. SuggestedInv => SuggestedIsCallable
  BY DEF SuggestedInv
<1> QED
  BY <1>1, <1>2, <1>3, InvariantCarriesOver, PTL DEF CatalogSpec

-----------------------------------------------------------------------------
(* A request whose name is listed is never refused by one of the gates.    *)
ListedInv ==
  /\ \/ listing = NotAsked
     \/ listing.operations = {op \in DOMAIN Registry :
          StateVisible(Registry[op].state, listing.experimental, listing.disabled)}
  /\ \A r \in Request :
       /\ request[r].flaws = {} /\ where[r] = "nowhere"
       /\ request[r].name \in DOMAIN Registry
       /\ Registry[request[r].name].state # "disabled"
       => result[r] = NoResult

LEMMA ListedStep ==
  ASSUME IInv, ListedInv, [CatalogNext]_catalogVars
  PROVE  ListedInv'
<1>0. [Next]_vars
  BY CatalogStepsAreSteps
<1>1. listing' = NotAsked
        \/ listing'.operations = {op \in DOMAIN Registry :
             StateVisible(Registry[op].state, listing'.experimental, listing'.disabled)}
  <2>1. CASE MathCapabilities
    <3>1. PICK experimental, disabled \in BOOLEAN :
            listing' = [experimental |-> experimental, disabled |-> disabled,
                        operations |-> {op \in DOMAIN Registry :
                          StateVisible(Registry[op].state, experimental, disabled)},
                        aliases |-> DOMAIN Aliases]
      BY <2>1 DEF MathCapabilities
    <3> QED
      BY <3>1
  <2>2. CASE RefuseByName \/ Elsewhere \/ UNCHANGED catalogVars
    <3>1. UNCHANGED listing
      BY <2>2 DEF RefuseByName, Elsewhere, catalogVars
    <3> QED
      BY <3>1 DEF ListedInv
  <2> QED
    BY <2>1, <2>2 DEF CatalogNext
<1>2. ASSUME NEW r \in Request, request'[r].flaws = {}, where'[r] = "nowhere",
             request'[r].name \in DOMAIN Registry,
             Registry[request'[r].name].state # "disabled"
      PROVE  result'[r] = NoResult
  <2>0. TypeOK /\ InStep /\ FutureIsBlank
    BY DEF IInv
  <2>1. CASE result'[r] = result[r] /\ request'[r] = request[r]
    <3>1. where[r] = "nowhere"
      BY <1>0, <1>2, <2>0 DEF Next, Step, BeginRequest, Refuse, RouteToWorker, RouteToServer,
           Collect, Assemble, HandlerReturns, RunnerReplies, ServerDies, ServerStarts,
           ClientIsDone, vars, TypeOK
    <3> QED
      BY <1>2, <2>1, <3>1 DEF ListedInv
  <2>2. CASE request'[r] # request[r]
    <3>1. BeginRequest /\ r = n + 1 /\ result' = result
      BY <1>0, <2>0, <2>2 DEF Next, Step, BeginRequest, Refuse, RouteToWorker, RouteToServer,
           Collect, Assemble, HandlerReturns, RunnerReplies, ServerDies, ServerStarts,
           ClientIsDone, vars, TypeOK
    <3> QED
      BY <2>0, <3>1 DEF FutureIsBlank, TypeOK
  <2>3. CASE result'[r] # result[r] /\ request'[r] = request[r]
    <3>1. r = n /\ pc \in {"admit", "handler", "assemble", "collect"}
      BY <1>0, <2>3, ResultStep DEF Assemble
    <3>2. CASE pc = "admit"
      <4>1. Refuse
        BY <1>0, <2>3, <3>2 DEF Next, Step, BeginRequest, RouteToWorker, RouteToServer,
           Collect, Assemble, HandlerReturns, RunnerReplies, ServerDies, ServerStarts,
           ClientIsDone, vars
      <4>2. Flaws(request[n]) = {}
        BY <1>2, <2>3, <3>1 DEF Flaws, Resolve
      <4>3. Refusal(request[n]) = {}
        BY <4>2 DEF Refusal
      <4> QED
        BY <4>1, <4>3 DEF Refuse
    <3>3. CASE pc # "admit"
      <4>1. where[n] # "nowhere"
        BY <2>0, <3>1, <3>3 DEF InStep
      <4>2. where'[n] = where[n]
        BY <1>0, <2>0, <3>1, <3>3 DEF Next, Step, BeginRequest, Refuse, RouteToWorker,
           RouteToServer, Collect, Assemble, HandlerReturns, RunnerReplies, ServerDies,
           ServerStarts, ClientIsDone, vars
      <4> QED
        BY <1>2, <3>1, <4>1, <4>2
    <3> QED
      BY <3>2, <3>3
  <2> QED
    BY <2>1, <2>2, <2>3
<1> QED
  BY <1>1, <1>2 DEF ListedInv

(* What is listed and what the dispatcher admits agree, whatever the flags *)
(* of the listing and the states of the operations.                        *)
THEOREM ListingIsTrue == CatalogSpec => []ListingMatchesTheDispatcher
<1>1. CatalogInit => ListedInv
  BY DEF CatalogInit, Init, ListedInv
<1>2. IInv /\ ListedInv /\ [CatalogNext]_catalogVars => ListedInv'
  BY ListedStep
<1>3. IInv /\ ListedInv => ListingMatchesTheDispatcher
  <2> SUFFICES ASSUME IInv, ListedInv, NEW r \in Request
               PROVE  /\ /\ ~listing.disabled /\ request[r].name \in listing.operations
                         /\ request[r].flaws = {} /\ where[r] = "nowhere"
                         => result[r] = NoResult
                      /\ listing.experimental /\ where[r] # "nowhere" =>
                           Resolve(request[r].name) \subseteq listing.operations
    BY DEF ListingMatchesTheDispatcher
  <2>1. CASE listing = NotAsked
    BY <2>1 DEF NotAsked
  <2>2. CASE listing.operations = {op \in DOMAIN Registry :
               StateVisible(Registry[op].state, listing.experimental, listing.disabled)}
    <3>1. ~listing.disabled => \A op \in listing.operations :
            op \in DOMAIN Registry /\ Registry[op].state # "disabled"
      BY <2>2 DEF StateVisible
    <3>2. where[r] # "nowhere" => \A op \in Resolve(request[r].name) :
            op \in DOMAIN Registry /\ Registry[op].state # "disabled"
      BY RegistryAssumption DEF RegistryAssumption, IInv, NothingRunsUnlessAdmitted, Resolve
    <3>3. \A op \in DOMAIN Registry :
            Registry[op].state \in {"implemented", "deprecated", "experimental", "disabled"}
      BY RegistryAssumption DEF RegistryAssumption, Specs
    <3> QED
      BY <2>2, <3>1, <3>2, <3>3 DEF ListedInv, StateVisible
  <2> QED
    BY <2>1, <2>2 DEF ListedInv
<1> QED
  BY <1>1, <1>2, <1>3, InvariantCarriesOver, PTL DEF CatalogSpec

-----------------------------------------------------------------------------
(* A result is never more than its registry entry promises.                *)
PromiseInv == MaxCertaintyIsKept /\ ProofModesAreDeclared

(* The resolved operation is the only one a name stands for.               *)
LEMMA OperationIsUnique ==
  ASSUME NEW op \in Resolve(request[n].name)
  PROVE  op = Operation
<1>1. op \in DOMAIN Registry /\ Resolve(request[n].name) = {op}
  BY RegistryAssumption DEF RegistryAssumption, Resolve
<1> QED
  BY <1>1 DEF Operation

LEMMA AssembledIsPromised ==
  ASSUME HandlersAreHonest, IInv, PromiseInv, Assemble, result'[n].code = "ok",
         result'[n].certainty = Enforce(BackendOf(outcome), Operation, outcome.method,
                                        outcome.certainty, outcome.override)
  PROVE  /\ Rank[result'[n].certainty] >= Rank[Promise[Operation].max]
         /\ result'[n].certainty \in {"proved", "disproved"} =>
              result'[n].method \in Promise[Operation].modes
<1>1. pc = "assemble" /\ Operation \in DOMAIN Registry /\ outcome \in Outcomes[Operation]
  BY OperationIsRegistered DEF Assemble, IInv, OutcomeIsReported
<1>2. /\ Rank[outcome.certainty] >= Rank[Promise[Operation].max]
      /\ outcome.certainty \in {"proved", "disproved"} =>
           outcome.method \in Promise[Operation].modes
  BY <1>1 DEF HandlersAreHonest
<1>3. outcome.certainty \in Certainties /\ outcome.override \in BOOLEAN
  BY DEF IInv, TypeOK, Outcome
<1>4. /\ result'[n].certainty \in Certainties
      /\ result'[n].certainty = outcome.certainty
           \/ Rank[result'[n].certainty] > Rank[outcome.certainty]
  BY <1>3, EnforceOnlyWeakens
<1>5. result'[n].method = outcome.method
  <2>1. ~OverLimit(outcome.size)
    <3> SUFFICES ASSUME OverLimit(outcome.size) PROVE FALSE
      OBVIOUS
    <3>1. Fail("OUTPUT_TOO_LARGE") /\ n \in Request
      BY DEF Assemble, IInv, InStep
    <3> QED
      BY <3>1 DEF Fail, IInv, TypeOK, NoResult
  <2> QED
    BY <2>1 DEF Assemble, IInv, InStep, TypeOK
<1>6. Promise[Operation].max \in Certainties
  BY <1>1, CatalogAssumption DEF CatalogAssumption
<1>7. \A c \in Certainties : Rank[c] \in Nat /\ (c \in {"proved", "disproved"} => Rank[c] = 0)
  BY DEF Rank, Certainties
<1> QED
  BY <1>2, <1>3, <1>4, <1>5, <1>6, <1>7

LEMMA PromiseStep ==
  ASSUME HandlersAreHonest, IInv, PromiseInv, [Next]_vars
  PROVE  PromiseInv'
<1>0. [Next]_vars /\ TypeOK /\ InStep /\ FutureIsBlank
  BY DEF IInv
<1>1. ASSUME NEW r \in Request, result'[r].code = "ok", NEW op \in Resolve(request'[r].name)
      PROVE  /\ Rank[result'[r].certainty] >= Rank[Promise[op].max]
             /\ result'[r].certainty \in {"proved", "disproved"} =>
                  result'[r].method \in Promise[op].modes
  <2>1. CASE request'[r] # request[r]
    <3>1. r = n + 1 /\ result' = result
      BY <1>0, <2>1 DEF Next, Step, BeginRequest, Refuse, RouteToWorker, RouteToServer,
           Collect, Assemble, HandlerReturns, RunnerReplies, ServerDies, ServerStarts,
           ClientIsDone, vars, TypeOK
    <3>2. result'[r] = NoResult
      BY <1>0, <3>1 DEF FutureIsBlank, TypeOK
    <3> QED
      BY <1>1, <3>2 DEF NoResult
  <2>2. CASE request'[r] = request[r] /\ result'[r] = result[r]
    BY <1>1, <2>2 DEF PromiseInv, MaxCertaintyIsKept, ProofModesAreDeclared
  <2>3. CASE request'[r] = request[r] /\ result'[r] # result[r]
    <3>1. /\ Assemble /\ r = n
          /\ result'[r].certainty = Enforce(BackendOf(outcome), Operation, outcome.method,
                                            outcome.certainty, outcome.override)
      BY <1>0, <1>1, <2>3, ResultStep
    <3>2. op = Operation
      BY <1>1, <2>3, <3>1, OperationIsUnique
    <3> QED
      BY <1>1, <3>1, <3>2, AssembledIsPromised
  <2> QED
    BY <2>1, <2>2, <2>3
<1> QED
  BY <1>1 DEF PromiseInv, MaxCertaintyIsKept, ProofModesAreDeclared, Resolve

LEMMA PromiseIsKept ==
  ASSUME HandlersAreHonest PROVE Safety => []PromiseInv
<1>1. Init => PromiseInv
  BY DEF Init, NoResult, PromiseInv, MaxCertaintyIsKept, ProofModesAreDeclared
<1>2. IInv /\ PromiseInv /\ [Next]_vars => PromiseInv'
  BY PromiseStep
<1> QED
  BY <1>1, <1>2, InitInv, InvStep, PTL DEF Safety

(* If every handler keeps to its registry entry, so does the dispatcher,   *)
(* on every route and under every alias: the caveats cannot lift a result  *)
(* above max_certainty.                                                    *)
THEOREM CertaintyStaysBounded ==
  ASSUME HandlersAreHonest PROVE CatalogSpec => []MaxCertaintyIsKept
<1>1. PromiseInv => MaxCertaintyIsKept
  BY DEF PromiseInv
<1> QED
  BY <1>1, PromiseIsKept, CatalogImplementsDispatch, PTL

(* And no strict verdict is told of a method its entry does not declare.   *)
THEOREM StrictVerdictsAreDeclared ==
  ASSUME HandlersAreHonest PROVE CatalogSpec => []ProofModesAreDeclared
<1>1. PromiseInv => ProofModesAreDeclared
  BY DEF PromiseInv
<1> QED
  BY <1>1, PromiseIsKept, CatalogImplementsDispatch, PTL
=============================================================================
