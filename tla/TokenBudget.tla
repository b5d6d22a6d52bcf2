---------------------------- MODULE TokenBudget ----------------------------
(***************************************************************************)
(* The token budget of a turn (resource_budget.py).  The state holds what  *)
(* was used; a node takes a BudgetContext from it, model calls ask the     *)
(* context before and tell it after, and the node writes it back.  Every   *)
(* call also writes a running total for the display into the state, which  *)
(* counts billed tokens only (record_session_token_usage).                 *)
(***************************************************************************)
EXTENDS Naturals

CONSTANTS
    TokenLimit,     \* token_budget of the payload, or the default
    PromptTokens,   \* estimates of a prompt
    AnswerTokens,   \* tokens of an answer
    MaxCalls        \* bound: model calls of the turn

BudgetAssumption ==
    /\ TokenLimit \in Nat \ {0} /\ MaxCalls \in Nat
    /\ PromptTokens \subseteq Nat \ {0} /\ AnswerTokens \subseteq Nat \ {0}

Counters(used, billed, exhausted, downgraded) ==
    [used |-> used, billed |-> billed, exhausted |-> exhausted, downgraded |-> downgraded]
Fresh == Counters(0, 0, FALSE, FALSE)

VARIABLES
    tokenBudget,    \* token_budget of the state
    budgetCtx,      \* the node's BudgetContext
    inNode,         \* is a node at work?
    spent,          \* history: tokens of all calls of the turn
    calls,          \* history: model calls
    paid,           \* history: {"billed", "estimated"} ways in which calls counted
    forgot          \* history: planning started over, or a node that
                    \* failed had used tokens that were not billed

budgetVars == <<tokenBudget, budgetCtx, inNode, spent, calls, paid, forgot>>

BudgetInit ==
    /\ tokenBudget = Fresh /\ budgetCtx = Fresh /\ inNode = FALSE
    /\ spent = 0 /\ calls = 0 /\ paid = {} /\ forgot = FALSE

\* apply_to_state: the billed tokens, if there are any.
AppliedBudget(c) == [c EXCEPT !.used = IF c.billed > 0 THEN c.billed ELSE c.used]

\* planning_node: init_task_budget whatever the state holds.
StartPlanning ==
    /\ ~ inNode /\ inNode' = TRUE
    /\ tokenBudget' = Fresh /\ budgetCtx' = Fresh
    /\ forgot' = (forgot \/ (spent > 0))
    /\ UNCHANGED <<spent, calls, paid>>

\* reasoning_node: only if the state holds nothing, which means the same as an
\* unused budget.  Mutant of ContextFromState: whatever it holds.
ContextAnew == Fresh
ContextFromState == tokenBudget
StartReasoning ==
    /\ ~ inNode /\ inNode' = TRUE
    /\ budgetCtx' = ContextFromState
    /\ tokenBudget' = ContextFromState
    /\ UNCHANGED <<spent, calls, paid, forgot>>

\* before_invoke.
MayInvoke(prompt) == ~ budgetCtx.exhausted /\ budgetCtx.used + prompt <= TokenLimit
Near(prompt) == 10 * (budgetCtx.used + prompt) >= 8 * TokenLimit

\* after_invoke: the provider's count if there is one, else the estimate.
AfterInvoke(c, prompt, answer, billed) ==
    LET used == c.used + prompt + answer
    IN  Counters(used, c.billed + (IF billed THEN prompt + answer ELSE 0),
                 c.exhausted \/ used >= TokenLimit, c.downgraded \/ Near(prompt))

\* record_session_token_usage: what the state shows is the billed part.
Recorded(c) == [c EXCEPT !.used = c.billed]

Invoke(prompt, answer, billed) ==
    /\ inNode /\ calls < MaxCalls
    /\ MayInvoke(prompt)
    /\ budgetCtx' = AfterInvoke(budgetCtx, prompt, answer, billed)
    /\ tokenBudget' = Recorded(budgetCtx')
    /\ spent' = spent + prompt + answer /\ calls' = calls + 1
    /\ paid' = paid \cup {IF billed THEN "billed" ELSE "estimated"}
    /\ UNCHANGED <<forgot, inNode>>

\* The state does not show all that the context counts.
Unbilled == budgetCtx.used # budgetCtx.billed

\* BudgetExceededError: the context is exhausted and the node ends with an error.
Refuse(prompt) ==
    /\ inNode /\ ~ MayInvoke(prompt)
    /\ inNode' = FALSE
    /\ budgetCtx' = [budgetCtx EXCEPT !.exhausted = TRUE]
    /\ forgot' = (forgot \/ Unbilled)
    /\ UNCHANGED <<tokenBudget, spent, calls, paid>>

\* The node returns its state with the context applied, or it fails and keeps
\* what the calls recorded.
EndNode(fails) ==
    /\ inNode /\ inNode' = FALSE
    /\ tokenBudget' = IF fails THEN tokenBudget ELSE AppliedBudget(budgetCtx)
    /\ forgot' = (forgot \/ (fails /\ Unbilled))
    /\ UNCHANGED <<budgetCtx, spent, calls, paid>>

BudgetNext ==
    \/ StartPlanning \/ StartReasoning
    \/ \E prompt \in PromptTokens :
          \/ Refuse(prompt)
          \/ \E answer \in AnswerTokens, billed \in BOOLEAN : Invoke(prompt, answer, billed)
    \/ \E fails \in BOOLEAN : EndNode(fails)

BudgetSpec == BudgetInit /\ [][BudgetNext]_budgetVars

-----------------------------------------------------------------------------
(* Property                                                                *)

\* One budget for all the nodes of a turn: as long as its calls are counted in
\* one way, and neither a new planning round nor a failed node made the state
\* forget what was used, all calls together stay within the limit, but for the last answer.
BudgetSpansNodes ==
    ~ forgot /\ paid # {"billed", "estimated"}
        => \A answer \in AnswerTokens :
              (\A a \in AnswerTokens : a <= answer) => spent <= TokenLimit + answer
=============================================================================
