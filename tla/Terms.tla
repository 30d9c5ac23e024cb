--------------------------------- MODULE Terms --------------------------------
(***************************************************************************)
(* How a client's input becomes a term: load_expression of                 *)
(* sympy_parser.py, which takes a structured AST or a text, and            *)
(* build_term of z3_ast.py, which takes one AST for each constraint.       *)
(*                                                                         *)
(* An AST is known as far as it was walked. A node is named by its path:   *)
(* the positions of its ancestors and itself among their siblings, the     *)
(* first one being the number of the AST.                                  *)
(***************************************************************************)
EXTENDS Naturals, Sequences

CONSTANTS
  MaxNodes,    \* limits.max_expression_nodes, _MAX_NODES
  MaxDepth,    \* _MAX_AST_DEPTH, _MAX_DEPTH
  MaxRoots,    \* bound on the constraints of one request
  MaxChildren  \* bound on the operands of one node

ASSUME TermsAssumption ==
  /\ MaxNodes \in Nat /\ MaxDepth \in Nat
  /\ MaxRoots \in Nat \ {0} /\ MaxChildren \in Nat

(* What is wrong with a text; the last two show when it is evaluated.      *)
ScreenFaults == {"length", "characters", "identifiers", "syntax", "structure"}
TextFaults == ScreenFaults \cup {"evaluation", "undefined"}

VARIABLES
  given,      \* what the payload holds, \subseteq {"text", "ast", "z3"}
  faults,     \* what is wrong with the text
  screened,   \* how many screens the text has passed
  evaluated,  \* the text was given to the evaluating parser
  stack,      \* the calls in progress, the innermost one last
  counter,    \* counter["n"], the nodes counted
  walked,     \* the paths of the nodes walked, in their order
  unsound,    \* the node the server does not know, <<>> for the declarations
  term        \* "none", "accepted", or the code of an error

termVars == <<given, faults, screened, evaluated, stack, counter, walked, unsound, term>>
text == <<screened, evaluated>>
walk == <<stack, counter, walked, unsound>>

TermErrors == {"PARSE_REJECTED", "INVALID_AST", "BACKEND_INTERNAL_ERROR"}

(* A call that has operands to walk: those of the node at path, of which   *)
(* next - 1 are done, each to be called with the given depth. The frame    *)
(* with the empty path is the loop over the constraints.                   *)
Paths == Seq(Nat \ {0})
Frame == [path : Paths, depth : Nat, next : Nat \ {0}, arity : Nat]

(* A payload has both forms of an expression, one, or neither; the z3      *)
(* tools take a list of constraints, or assumptions and a claim.           *)
TermsInit ==
  /\ given \in (SUBSET {"text", "ast"}) \cup {{"z3"}}
  /\ faults \in SUBSET TextFaults /\ ("text" \notin given => faults = {})
  /\ screened = 0 /\ evaluated = FALSE
  /\ \E roots \in 0 .. MaxRoots :
       /\ given # {"z3"} => roots = 1
       /\ stack = IF given \cap {"ast", "z3"} = {} THEN <<>>
                  ELSE << [path |-> <<>>, depth |-> 0, next |-> 1, arity |-> roots] >>
  /\ counter = 0 /\ walked = <<>> /\ unsound = {}
  /\ term = "none"

-----------------------------------------------------------------------------
(* The text                                                                *)

(* Mutation of Screens: the tree is screened after its evaluation only.    *)
Screens_Late == <<"length", "characters", "identifiers", "syntax">>

(* The order of parse_expression: the length; _pre_screen;                 *)
(* _validate_identifiers; the parser with evaluate=False;                  *)
(* _structural_screen.                                                     *)
Screens == <<"length", "characters", "identifiers", "syntax", "structure">>

(* An AST is preferred: a text that comes with one is not looked at.       *)
ReadsText == term = "none" /\ "text" \in given /\ "ast" \notin given

Missing ==
  /\ term = "none" /\ given = {}
  /\ term' = "PARSE_REJECTED"
  /\ UNCHANGED <<given, faults, text, walk>>

PassScreen ==
  /\ ReadsText /\ screened < Len(Screens)
  /\ IF Screens[screened + 1] \in faults
     THEN term' = "PARSE_REJECTED" /\ UNCHANGED screened
     ELSE screened' = screened + 1 /\ UNCHANGED term
  /\ UNCHANGED <<given, faults, evaluated, walk>>

(* The second parse evaluates; what it raises, and an undefined function   *)
(* in what it returns, reject the text.                                    *)
EvaluateText ==
  /\ ReadsText /\ screened = Len(Screens)
  /\ evaluated' = TRUE
  /\ term' = IF faults \cap {"evaluation", "undefined"} = {} THEN "accepted" ELSE "PARSE_REJECTED"
  /\ UNCHANGED <<given, faults, screened, walk>>

-----------------------------------------------------------------------------
(* The AST                                                                 *)

Top == stack[Len(stack)]

(* declare_variables of z3_ast.py: too many of them, a name, a sort.       *)
CannotDeclare ==
  /\ term = "none" /\ given = {"z3"} /\ walked = <<>>
  /\ unsound' = {<<>>} /\ term' = "INVALID_AST"
  /\ UNCHANGED <<given, faults, text, stack, counter, walked>>

(* The call in progress has an operand left to walk.                       *)
Walks == term = "none" /\ stack # <<>> /\ Top.next <= Top.arity

Here == Append(Top.path, Top.next)

(* Mutation of Counted: every constraint has a budget of its own.          *)
Counted_PerConstraint == IF Len(stack) = 1 THEN 1 ELSE counter + 1

(* The number of the node about to be walked: one counter is passed to     *)
(* all calls, and from one constraint to the next.                         *)
Counted == counter + 1

TooDeep == Top.depth > MaxDepth
TooMany == Counted > MaxNodes

Enter == walked' = Append(walked, Here) /\ UNCHANGED <<given, faults, text>>

(* The operand's call returned: its caller goes on with the next one.      *)
Advanced == [stack EXCEPT ![Len(stack)].next = @ + 1]

(* The depth is compared before the node is counted.                       *)
BeyondBudget ==
  /\ Walks /\ (TooDeep \/ TooMany)
  /\ Enter
  /\ counter' = IF TooDeep THEN counter ELSE Counted
  /\ term' = "INVALID_AST"
  /\ UNCHANGED <<stack, unsound>>

MayEnter == Walks /\ ~TooDeep /\ ~TooMany

(* No object, an unknown constant, variable, function or operator, or the  *)
(* wrong sort of number, which raises as int() or Rational() does.         *)
UnsoundNode ==
  /\ MayEnter
  /\ Enter /\ counter' = Counted
  /\ unsound' = {Here}
  /\ term' \in {"INVALID_AST", "BACKEND_INTERNAL_ERROR"}
  /\ UNCHANGED stack

Leaf ==
  /\ MayEnter
  /\ Enter /\ counter' = Counted
  /\ stack' = Advanced
  /\ UNCHANGED <<unsound, term>>

Operator ==
  /\ MayEnter
  /\ Enter /\ counter' = Counted
  /\ \E arity \in 0 .. MaxChildren :
       stack' = Append(Advanced,
                       [path |-> Here, depth |-> Top.depth + 1, next |-> 1, arity |-> arity])
  /\ UNCHANGED <<unsound, term>>

Returns == term = "none" /\ stack # <<>> /\ Top.next > Top.arity

(* The operands are combined by the operator.                              *)
Combine ==
  /\ Returns /\ Len(stack) > 1
  /\ stack' = SubSeq(stack, 1, Len(stack) - 1)
  /\ UNCHANGED <<given, faults, text, counter, walked, unsound, term>>

(* Operands are missing, too many, or not of the sort the operator takes.  *)
CannotCombine ==
  /\ Returns /\ Len(stack) > 1
  /\ unsound' = {Top.path}
  /\ term' \in {"INVALID_AST", "BACKEND_INTERNAL_ERROR"}
  /\ UNCHANGED <<given, faults, text, stack, counter, walked>>

(* The loop over the constraints is over. A SymPy term is screened as the  *)
(* tree of a text is, which may find too many variables, or too many nodes *)
(* once more, of a term that was evaluated while it was built.             *)
Built ==
  /\ Returns /\ Len(stack) = 1
  /\ stack' = SubSeq(stack, 1, Len(stack) - 1)
  /\ term' \in IF given = {"z3"} THEN {"accepted"} ELSE {"accepted", "PARSE_REJECTED"}
  /\ UNCHANGED <<given, faults, text, counter, walked, unsound>>

TermsStep ==
  \/ Missing \/ PassScreen \/ EvaluateText
  \/ CannotDeclare \/ BeyondBudget \/ UnsoundNode \/ Leaf \/ Operator
  \/ Combine \/ CannotCombine \/ Built

TermsOver == term # "none" /\ UNCHANGED termVars

TermsNext == TermsStep \/ TermsOver

TermsSpec == TermsInit /\ [][TermsNext]_termVars

-----------------------------------------------------------------------------
(* Properties                                                              *)

(* Types; the calls in progress are those on the way to the innermost one, *)
(* each node called with its depth, and never more than the limit allows.  *)
TermsTypeOK ==
  /\ given \subseteq {"text", "ast", "z3"} /\ faults \subseteq TextFaults
  /\ screened \in 0 .. Len(Screens) /\ evaluated \in BOOLEAN
  /\ stack \in Seq(Frame) /\ Len(stack) <= MaxDepth + 2
  /\ \A i \in DOMAIN stack :
       Len(stack[i].path) = i - 1 /\ stack[i].depth = i - 1
  /\ counter \in 0 .. MaxNodes + 1
  /\ walked \in Seq(Paths)
  /\ unsound \subseteq Paths
  /\ term \in {"none", "accepted"} \cup TermErrors

(* An AST as far as it was walked is one the server takes.                 *)
WithinLimits ==
  /\ Len(walked) <= MaxNodes
  /\ \A i \in DOMAIN walked : Len(walked[i]) <= MaxDepth + 1
  /\ unsound = {}

(* "bounded depth/count" (docstring of expr_from_ast), over all the        *)
(* constraints of a request together: an AST is accepted only when all of  *)
(* its nodes are within both limits, refused as an AST only when one is    *)
(* not or is unsound, and never walked further than one node past either.  *)
BudgetsAreExact ==
  /\ term = "accepted" /\ given # {"text"} => WithinLimits
  /\ term \in {"INVALID_AST", "BACKEND_INTERNAL_ERROR"} => ~WithinLimits
  /\ Len(walked) <= MaxNodes + 1

(* "a structural screen on the parsed tree": a text reaches the parser     *)
(* that evaluates only when none of the screens has anything against it,   *)
(* and never when an AST came with it; an accepted text has no fault.      *)
OnlyScreenedTextIsEvaluated ==
  /\ evaluated => faults \cap ScreenFaults = {} /\ "ast" \notin given
  /\ term = "accepted" /\ given = {"text"} => evaluated /\ faults = {}

-----------------------------------------------------------------------------
(* The inductive invariant, in parts                                       *)

(* A walk that goes on has counted every node it met, within the limits;   *)
(* one that was cut off met the node that is at fault.                     *)
WalkIsCounted ==
  /\ term \notin {"INVALID_AST", "BACKEND_INTERNAL_ERROR"} =>
       WithinLimits /\ counter = Len(walked)
  /\ term \in {"INVALID_AST", "BACKEND_INTERNAL_ERROR"} => ~WithinLimits
  /\ Len(walked) <= MaxNodes + 1

(* A text that passed some screens has none of the faults they look for.   *)
TextIsScreened ==
  /\ \A i \in 1 .. screened : Screens[i] \notin faults
  /\ evaluated => "text" \in given /\ "ast" \notin given /\ screened = Len(Screens)
  /\ "text" \in given /\ "ast" \notin given => stack = <<>>
  /\ "text" \in given => "z3" \notin given
  /\ term = "accepted" /\ given = {"text"} =>
       evaluated /\ faults \cap {"evaluation", "undefined"} = {}

TermsInv == TermsTypeOK /\ WalkIsCounted /\ TextIsScreened
=============================================================================
