------------------------------- MODULE Evidence -------------------------------
(***************************************************************************)
(* The evidence of a turn: whether it is retrieved, through which cache,     *)
(* what the evidence pipeline lets through, and how the output guard checks *)
(* the answer against it.  Uploads to the session's knowledge go on beside  *)
(* the turns and invalidate the cache.  The fields of the task state that a *)
(* new turn does not reset stay as the last turn left them.  A hit is       *)
(* described by its source, the value it states (0: none), why the          *)
(* admission gate objects to it and how many tokens its snippet takes.      *)
(***************************************************************************)
EXTENDS Naturals, FiniteSets, SequencesExt

CONSTANTS Sources,      \* documents of the knowledge store
          Claims,       \* values that a text states, 0 for none
          Reasons,      \* objections of the gate, "" for none
          SnippetSizes, \* tokens of a snippet
          MaxHits,      \* hits of a search
          PerSource,    \* chunks kept of a source
          EvidenceBudget, \* tokens of all packets
          GateModes,    \* "soft", as shipped, or "hard"
          MaxTurn, MaxUploads \* bounds

EvidenceAssumption ==
    /\ Claims \subseteq Nat /\ GateModes \subseteq {"soft", "hard"}
    /\ {MaxHits, PerSource, EvidenceBudget, MaxTurn, MaxUploads} \subseteq Nat \ {0}

VARIABLES kver,    \* version of the session's knowledge
          upload,  \* "idle", or "stored": written, the cache not yet invalidated
          rcache,  \* the cached result of the session's query: version, or none
          gate,    \* the configured mode of the admission gate
          eturn,   \* number of the turn
          estep,   \* where the turn is
          eask,    \* what planning decided for the turn
          efound,  \* the search of the turn: version read and hits
          ev       \* the fields of the state that carry evidence

evidVars == <<kver, upload, rcache, gate, eturn, estep, eask, efound, ev>>

Cands == [src : Sources, claim : Claims, reason : Reasons, size : SnippetSizes, passed : {TRUE}]
NoCache == [ver |-> 0, hits |-> <<>>, raced |-> FALSE, on |-> FALSE]
NoFound == [ver |-> 0, hits |-> <<>>, raced |-> FALSE]
NoEvidence == [know |-> <<>>, memory |-> FALSE, packets |-> <<>>, of |-> 0, conflicts |-> {}, verdict |-> "none", backed |-> TRUE]

-----------------------------------------------------------------------------
(* The evidence pipeline *)

\* The candidates with these numbers, in their order.
Selected(cands, numbers) ==
    LET at == numbers \cap DOMAIN cands
    IN [n \in 1 .. Cardinality(at) |->
            cands[CHOOSE i \in at : Cardinality({j \in at : j <= i}) = n]]

\* _admission_pass marks each candidate: soft admits all of them, hard only those it has
\* nothing against.
AdmissionPass(cands, mode) ==
    [i \in DOMAIN cands |-> [cands[i] EXCEPT !.passed = mode = "soft" \/ cands[i].reason = ""]]

\* apply_admission_gate: in soft mode the hard gate is tried afterwards, for the log, on
\* the very objects that were admitted.
AdmissionGate(cands, mode) ==
    IF mode = "soft" THEN AdmissionPass(AdmissionPass(cands, "soft"), "hard")
    ELSE LET marked == AdmissionPass(cands, "hard")
         IN Selected(marked, {i \in DOMAIN marked : marked[i].passed})

\* deduplicate_candidates: a few chunks of a source, none with the text of another.
Deduplicated(cands) ==
    LET kept[n \in 0 .. Len(cands)] ==
            IF n = 0 THEN {}
            ELSE LET same == {i \in kept[n - 1] : cands[i].src = cands[n].src}
                 IN IF Cardinality(same) >= PerSource \/ \E i \in same : cands[i].claim = cands[n].claim
                    THEN kept[n - 1] ELSE kept[n - 1] \cup {n}
    IN Selected(cands, kept[Len(cands)])

Spent(packets) == FoldLeft(LAMBDA n, p : n + p.size, 0, packets)

\* apply_token_budget: packets in order, up to the first that does not fit.
WithinBudget(packets) ==
    LET fit == {n \in 0 .. Len(packets) : Spent(SubSeq(packets, 1, n)) <= EvidenceBudget}
    IN SubSeq(packets, 1, CHOOSE n \in fit : \A k \in fit : k <= n)

\* detect_conflicts: sources that state different values.
Conflicts(cands) ==
    {i \in DOMAIN cands : cands[i].claim # 0 /\ \E j \in DOMAIN cands : cands[j].claim \notin {0, cands[i].claim}}

\* run_evidence_pipeline: when the decision says that nothing is to be retrieved, the
\* packets are emptied and the conflicts are left as they are.
EvidencePipeline(hits, need) ==
    IF ~need THEN [packets |-> <<>>, of |-> eturn, conflicts |-> ev.conflicts]
    ELSE LET admitted == Deduplicated(AdmissionGate(hits, gate))
         IN [packets |-> WithinBudget(admitted), of |-> eturn,
             conflicts |-> IF Conflicts(admitted) = {} THEN {} ELSE {eturn}]

-----------------------------------------------------------------------------
(* Uploads and the session's cache *)

UploadStored ==
    /\ upload = "idle" /\ kver < MaxUploads
    /\ kver' = kver + 1 /\ upload' = "stored"
    /\ efound' = [efound EXCEPT !.raced = TRUE]
    /\ UNCHANGED <<rcache, gate, eturn, estep, eask, ev>>

\* invalidate_session
Invalidated == NoCache

UploadEnds ==
    /\ upload = "stored" /\ upload' = "idle"
    /\ rcache' = Invalidated
    /\ UNCHANGED <<kver, gate, eturn, estep, eask, efound, ev>>

CacheExpires ==
    /\ rcache.on /\ rcache' = NoCache
    /\ UNCHANGED <<kver, upload, gate, eturn, estep, eask, efound, ev>>

-----------------------------------------------------------------------------
(* The turn *)

\* _reset_execution_fields: what was retrieved and remembered goes, packets, conflicts
\* and the trace do not.
ResetFields == [ev EXCEPT !.know = <<>>, !.memory = FALSE, !.verdict = "none", !.backed = TRUE]

BeginTurn ==
    /\ estep = "idle" /\ eturn < MaxTurn
    /\ eturn' = eturn + 1 /\ ev' = ResetFields /\ estep' = "plan"
    /\ UNCHANGED <<kver, upload, rcache, gate, eask, efound>>

\* planning_node: the answer's mode follows the purpose of the question; the decision to
\* retrieve is made before the plan is in the state, so that without tools it is no.
Planned(skip, tools, writing, retrieve, mode) ==
    [skip |-> skip, tools |-> tools, writing |-> writing, retrieve |-> retrieve, mode |-> mode, need |-> ~skip /\ tools]

\* _classify_purpose and _answer_mode_for_purpose: a short question or one for an authority is
\* answered strictly, one about code refuses, the others do their best.
AnswerModes == {"strict", "refuse", "best_effort"}

\* needs_session_memory_retrieval
NeedsMemory == eturn > 1

\* route_after_incremental_planning, the forks that lead to retrieval or past it.
ToRetrieval(a) ==
    /\ ~(a.writing /\ ~a.tools /\ a.skip)
    /\ ~(a.skip /\ ~NeedsMemory)
    /\ (NeedsMemory /\ ~a.tools /\ ~a.writing) \/ a.retrieve \/ (a.writing /\ ~a.skip)

PlanTurn ==
    /\ estep = "plan"
    /\ \E skip, tools, writing, retrieve \in BOOLEAN, mode \in AnswerModes :
        /\ retrieve => ~skip
        /\ eask' = Planned(skip, tools, writing, retrieve, mode)
        /\ estep' = IF ToRetrieval(eask') THEN "search" ELSE "answer"
    /\ efound' = NoFound
    /\ UNCHANGED <<kver, upload, rcache, gate, eturn, ev>>

\* _search_knowledge_batch: the cache first, whatever the store has meanwhile.
SearchCached ==
    /\ estep = "search" /\ ~eask.skip /\ rcache.on
    /\ efound' = [ver |-> rcache.ver, hits |-> rcache.hits, raced |-> rcache.raced]
    /\ estep' = "gate"
    /\ UNCHANGED <<kver, upload, rcache, gate, eturn, eask, ev>>

SearchStore ==
    /\ estep = "search" /\ ~eask.skip /\ ~rcache.on
    /\ \E hits \in SeqOf(Cands, MaxHits) :
        efound' = [ver |-> kver, hits |-> hits, raced |-> upload # "idle"]
    /\ estep' = "put"
    /\ UNCHANGED <<kver, upload, rcache, gate, eturn, eask, ev>>

\* cache_put comes after the search: an upload may have come and gone in between.
CachePut ==
    /\ estep = "put" /\ estep' = "gate"
    /\ rcache' = [ver |-> efound.ver, hits |-> efound.hits, raced |-> efound.raced, on |-> TRUE]
    /\ UNCHANGED <<kver, upload, gate, eturn, eask, efound, ev>>

SkipSearch ==
    /\ estep = "search" /\ eask.skip /\ estep' = "gate"
    /\ UNCHANGED <<kver, upload, rcache, gate, eturn, eask, efound, ev>>

\* gate_all_filtered: the hard gate left nothing; the question may then be asked once more,
\* with its terms put first.
AllFiltered(hits) == eask.need /\ hits # <<>> /\ AdmissionGate(hits, gate) = <<>>

\* The end of retrieval_node: the packets that came out, or else the raw hits of the first
\* search, are the knowledge of the turn; memories may be found too.
Gate ==
    /\ estep = "gate" /\ estep' = "answer"
    /\ \E memory \in {FALSE, NeedsMemory} :
       \E hits \in {efound.hits} \cup (IF AllFiltered(efound.hits) THEN SeqOf(Cands, MaxHits) ELSE {}) :
        LET out == EvidencePipeline(hits, eask.need)
        IN ev' = [ev EXCEPT !.packets = out.packets, !.of = out.of, !.conflicts = out.conflicts, !.memory = memory,
                            !.know = IF out.packets = <<>> THEN efound.hits ELSE out.packets]
    /\ efound' = NoFound
    /\ UNCHANGED <<kver, upload, rcache, gate, eturn, eask>>

\* has_injected_evidence
Injected == ev.know # <<>> \/ ev.packets # <<>> \/ ev.memory

\* Mutant of FactualMode: only refuse_if_insufficient counts as factual.
RefuseOnly(mode) == mode = "refuse"

FactualMode(mode) == mode \in {"strict", "refuse"}

\* classify_grounding_turn; observed: a tool's result can be compared with.
GroundingMode(observed, written) ==
    IF observed THEN "tool_observation"
    ELSE IF ~Injected \/ (eask.writing /\ ~written /\ ~FactualMode(eask.mode)) THEN "skip"
    ELSE "rag"

\* check_grounding: enough claims are supported; a refusing mode wants its citations too.
Grounded(supported, cited) == supported /\ (eask.mode = "refuse" => cited)

\* build_insufficient_response: conflicts, or neither packets nor hits to compare with (the
\* memories are not among them), make an answer unfaithful whatever it says.
Insufficient == ev.conflicts # {} \/ (ev.packets = <<>> /\ ev.know = <<>>)

Faithful(mode, supported, cited) ==
    Grounded(supported, cited) /\ (mode = "rag" => ~Insufficient)

\* output_guard_node: an unfaithful answer is let through with a warning when it tells of
\* tools that did their work, or when it is prose.
Demoted(mode, cited, written) ==
    /\ cited
    /\ \/ mode = "tool_observation"
       \/ eask.writing /\ ~written /\ ~FactualMode(eask.mode)

\* The node's result: a blocked answer turns the task to REJECTED.
Verdict(ok, mode) == IF ok THEN mode ELSE "rejected"

OutputGuard ==
    /\ estep = "answer" /\ estep' = "idle"
    /\ \E supported, cited, observed, written, clean \in BOOLEAN :
        /\ observed \/ written => eask.tools
        /\ LET mode == GroundingMode(observed, written)
               ok == clean /\ (mode = "skip" \/ Faithful(mode, supported, cited) \/ Demoted(mode, cited, written))
           IN ev' = [ev EXCEPT !.verdict = Verdict(ok, mode), !.backed = supported]
    /\ UNCHANGED <<kver, upload, rcache, gate, eturn, eask, efound>>

-----------------------------------------------------------------------------
EvidenceInit ==
    /\ kver = 0 /\ upload = "idle" /\ rcache = NoCache /\ gate \in GateModes
    /\ eturn = 0 /\ estep = "idle" /\ efound = NoFound /\ ev = NoEvidence
    /\ eask = Planned(TRUE, FALSE, FALSE, FALSE, "best_effort")

EvidenceNext ==
    \/ UploadStored \/ UploadEnds \/ CacheExpires
    \/ BeginTurn \/ PlanTurn \/ SearchCached \/ SearchStore \/ CachePut \/ SkipSearch \/ Gate \/ OutputGuard

EvidenceSpec == EvidenceInit /\ [][EvidenceNext]_evidVars

-----------------------------------------------------------------------------
(* What the cache holds is what the store holds, unless an upload is between its write
   and its invalidation, or was while the search ran. (retrieval_cache.invalidate_session) *)
CacheSeesUploads == rcache.on /\ ~rcache.raced => rcache.ver = kver \/ upload = "stored"

(* A factual answer that goes out, with no tool result to compare with, was checked against evidence
   and supported by it, and no source disagreed; and what the pipeline let through fits its budget.
   (output_guard_node, apply_token_budget) *)
FactualAnswersBacked ==
    /\ ev.verdict = "rag" /\ FactualMode(eask.mode) => ev.backed /\ ev.conflicts = {}
    /\ ev.verdict = "skip" /\ eask.mode \in {"strict", "refuse"} => ~Injected
    /\ Spent(ev.packets) <= EvidenceBudget

(* In soft mode whatever the gate admits counts as relevant: trying the hard gate for the
   log changes nothing ("without changing behavior", shadow_admission_eval).
   Does not hold: the evaluation marks the objects it observes. *)
ShadowHarmless == gate = "soft" => \A i \in DOMAIN ev.packets : ev.packets[i].passed

(* What counts as injected evidence was found for this turn (has_injected_evidence).
   Does not hold: a new turn keeps the packets. *)
EvidenceOfThisTurn == estep = "answer" /\ ev.packets # <<>> => ev.of = eturn
=============================================================================
