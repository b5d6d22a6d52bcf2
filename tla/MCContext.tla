----------------------------- MODULE MCContext -----------------------------
(***************************************************************************)
(* A conversation and what the model is told of it, on small instances:    *)
(* Sessions, what messages do to a task, ChatMessages, what a stream       *)
(* leaves in the chat, and ContextReducer, TokenBudget, Knowledge and      *)
(* Evidence.  They share no state, so a behaviour belongs to one of them,  *)
(* the part, and the variables v1 to v10 are that part's; those it does    *)
(* not have stay 0.                                                        *)
(***************************************************************************)
EXTENDS Naturals

CONSTANTS
    Parts,  \* the parts that are checked
    \* of Sessions
    NDeliveries, MessageIds, Kinds, MaxUnderway,
    \* of ChatMessages
    NStreams, NReports, Reports, MaxTwins, MaxPolls,
    \* of ContextReducer
    Facts, Sizes, Cap, Budget, HistoryTokens, MinTokens, MaxRegistry, MaxTranscript,
    MaxAssemblies,
    \* of TokenBudget
    TokenLimit, PromptTokens, AnswerTokens, MaxCalls,
    \* of Knowledge
    Docs, Builtin, Owners, Shared, Threads, MaxChunks, MaxWrites, MaxSearches, TopK,
    PerDoc, MaxRank,
    \* of Evidence
    Sources, Claims, Reasons, SnippetSizes, MaxHits, PerSource, EvidenceBudget,
    GateModes, MaxTurn, MaxUploads

VARIABLES part, v1, v2, v3, v4, v5, v6, v7, v8, v9, v10

\* Two deliveries, of one message or of two, at the same time.
S == INSTANCE Sessions WITH
    task <- v1, running <- v2, at <- v3, id <- v4, text <- v5, held <- v6, closing <- v7,
    turnsOf <- v8, clash <- v9, pauses <- v10

\* Two streams of a task that overlap, and a client that resumes.
C == INSTANCE ChatMessages WITH
    events <- v1, stream <- v2, rec <- v3, handler <- v4, active <- v5, muted <- v6,
    reader <- v7

\* Two results, a small and a large one, a registry that holds one of them.
R == INSTANCE ContextReducer WITH
    weight <- v1, found <- v2, registry <- v3, asm <- v4, assemblies <- v5

\* Five calls; two or three of them reach the limit.
B == INSTANCE TokenBudget WITH
    tokenBudget <- v1, budgetCtx <- v2, inNode <- v3, spent <- v4, calls <- v5,
    paid <- v6, forgot <- v7

\* One document of up to two chunks, written twice at once and searched.
K == INSTANCE Knowledge WITH
    cat <- v1, vec <- v2, writer <- v3, query <- v4, writes <- v5, searches <- v6,
    last <- v7

\* Two turns, an upload in between; two claims that contradict each other.
E == INSTANCE Evidence WITH
    kver <- v1, upload <- v2, rcache <- v3, gate <- v4, eturn <- v5, estep <- v6,
    eask <- v7, efound <- v8, ev <- v9

ASSUME ContextAssumptions ==
    /\ S!SessionAssumption /\ C!ChatAssumption
    /\ R!ReducerAssumption /\ B!BudgetAssumption
    /\ K!KnowledgeAssumption /\ E!EvidenceAssumption

vars == <<part, v1, v2, v3, v4, v5, v6, v7, v8, v9, v10>>

Init ==
    /\ part \in Parts
    /\ \/ part = "session" /\ S!SessionInit
       \/ part = "chat" /\ C!ChatInit /\ v8 = 0 /\ v9 = 0 /\ v10 = 0
       \/ part = "reducer" /\ R!ReducerInit /\ v6 = 0 /\ v7 = 0 /\ v8 = 0 /\ v9 = 0 /\ v10 = 0
       \/ part = "budget" /\ B!BudgetInit /\ v8 = 0 /\ v9 = 0 /\ v10 = 0
       \/ part = "knowledge" /\ K!KnowledgeInit /\ v8 = 0 /\ v9 = 0 /\ v10 = 0
       \/ part = "evidence" /\ E!EvidenceInit /\ v10 = 0

Next ==
    /\ UNCHANGED part
    /\ \/ part = "session" /\ S!SessionNext
       \/ part = "chat" /\ C!ChatNext /\ UNCHANGED <<v8, v9, v10>>
       \/ part = "reducer" /\ R!ReducerNext /\ UNCHANGED <<v6, v7, v8, v9, v10>>
       \/ part = "budget" /\ B!BudgetNext /\ UNCHANGED <<v8, v9, v10>>
       \/ part = "knowledge" /\ K!KnowledgeNext /\ UNCHANGED <<v8, v9, v10>>
       \/ part = "evidence" /\ E!EvidenceNext /\ UNCHANGED v10

Spec == Init /\ [][Next]_vars

-----------------------------------------------------------------------------
(* Properties                                                              *)

\* A message delivered again opens no second turn, except in the races that
\* RepeatsAreRecognised names (session_controller.py).
SessionSound == part = "session" => S!SessionTypeOK /\ S!RepeatsAreRecognised

\* The planning gate that a redirect sets is never taken back
\* (session_controller.py, turn_contract_lifecycle.py).
GateStays == [][part = "session" => S!KeepsGate]_vars

\* A stream stores its own events only, and a message that was finalised holds
\* every part that was stored for it (chat_message_service.py, graph_runner.py).
ChatSound == part = "chat" => C!ChatTypeOK /\ C!OwnEventsOnly /\ C!FinalisedWhole

\* The reduction of a prompt (context_reducer.py, context_registry.py): its
\* items are accounted for, its budget is met unless everything left is
\* protected, and every result is offered once.
ReducerSound == part = "reducer" =>
    R!ReducerTypeOK /\ R!ItemsAccounted /\ R!BudgetMetOrProtected /\ R!FactsOfferedOnce

\* The budget of a turn (resource_budget.py) spans its nodes.
BudgetSpansNodes == part = "budget" => B!BudgetSpansNodes

\* The knowledge base (knowledge_store.py, knowledge_api.py): a write that
\* ended well leaves catalogue and vectors in step, and a search stays in scope.
KnowledgeSound == part = "knowledge" => K!WriteHeals /\ K!HitsInScope

\* Evidence of a turn (evidence_pipeline.py, output_guard_node.py): uploads are seen
\* through the cache, and factual answers rest on what was found.
EvidenceSound == part = "evidence" => E!CacheSeesUploads /\ E!FactualAnswersBacked
=============================================================================
