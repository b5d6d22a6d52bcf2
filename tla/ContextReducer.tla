--------------------------- MODULE ContextReducer ---------------------------
(***************************************************************************)
(* What a model call gets to see (prompt_context_gateway.py).  Items are   *)
(* collected from the turn's message, the transcript, the results of this  *)
(* turn, the registry of earlier results and the errors; each belongs to a *)
(* bucket.  reduce_context_items then brings every bucket under its cap    *)
(* and the whole under the token budget, by the policy of the call's       *)
(* purpose.  The reduction is a state machine here, one step per pass of   *)
(* its loops, so that whether it ends can be asked.                        *)
(***************************************************************************)
EXTENDS Naturals, Sequences, FiniteSets, Functions, SequencesExt

CONSTANTS
    Facts,          \* results of retrieval and tools, told apart by their key
    Sizes,          \* tokens of an item before anything is cut
    Cap,            \* bucket_max_tokens, the same for every bucket
    Budget,         \* token_budget_total
    HistoryTokens,  \* SESSION_MAX_HISTORY_CHARS, in tokens
    MinTokens,      \* min_bucket_tokens
    MaxRegistry,    \* _MAX_REGISTRY
    MaxTranscript,  \* bound: messages of the transcript
    MaxAssemblies   \* bound: envelopes that are built

ReducerAssumption ==
    /\ {Cap, Budget, HistoryTokens, MinTokens, MaxRegistry} \subseteq Nat \ {0}
    /\ {MaxTranscript, MaxAssemblies} \subseteq Nat
    /\ Sizes \subseteq Nat \ {0}

VARIABLES
    weight,     \* tokens of every fact
    found,      \* facts of this turn: tool_results, retrieved_knowledge
    registry,   \* context_item_registry, oldest first
    asm,        \* the envelope that is being assembled
    assemblies  \* history: envelopes started

reducerVars == <<weight, found, registry, asm, assemblies>>

-----------------------------------------------------------------------------
(* Policies and items                                                      *)

\* A policy per purpose: buckets that must stay, that may be cut, that may lose
\* items, that keep a minimal form, whose cap is zero, and the order in which
\* buckets are degraded.
PlanningPolicy ==
    [required |-> {"turn", "transcript"}, squeeze |-> {"transcript", "knowledge", "summary"},
     drop |-> {"knowledge", "diagnostics"}, minimal |-> {"transcript"}, none |-> {},
     order |-> <<"knowledge", "diagnostics", "transcript", "summary">>]
ReasoningPolicy ==
    [PlanningPolicy EXCEPT
        !.drop = {"diagnostics"},
        !.order = <<"diagnostics", "knowledge", "transcript", "summary">>]
WritingPolicy ==
    [required |-> {"turn", "knowledge"}, squeeze |-> {"transcript", "summary"},
     drop |-> {"transcript", "diagnostics"}, minimal |-> {}, none |-> {},
     order |-> <<"transcript", "diagnostics", "summary">>]
SummarizationPolicy ==
    [required |-> {"turn", "transcript"}, squeeze |-> {"transcript"}, drop |-> {},
     minimal |-> {}, none |-> {"knowledge", "diagnostics"}, order |-> <<"transcript">>]
Policies == [reasoning |-> ReasoningPolicy, planning |-> PlanningPolicy,
             writing |-> WritingPolicy, summarization |-> SummarizationPolicy]

\* ContextItem: priority 0 is critical, 3 low.
ContextItem(id, bucket, priority, tokens, squeeze, drop) ==
    [id |-> id, bucket |-> bucket, priority |-> priority, tokens |-> tokens,
     squeeze |-> squeeze, drop |-> drop]

TurnItem(t) == <<ContextItem(<<"turn", 0>>, "turn", 0, t, FALSE, FALSE)>>
HistoryItem(i, t) == ContextItem(<<"said", i>>, "transcript", 2, t, TRUE, FALSE)
FactItem(f) == ContextItem(<<"fact", f>>, "knowledge", 2, weight[f], TRUE, FALSE)
RegistryItem(f) == ContextItem(<<"fact", f>>, "knowledge", 2, weight[f], TRUE, TRUE)
DiagnosticItem(t) == ContextItem(<<"error", 0>>, "diagnostics", 0, t, TRUE, FALSE)
OmittedNote == ContextItem(<<"omitted", 0>>, "summary", 1, 1, TRUE, FALSE)

Tokens(items) == FoldSeq(LAMBDA item, sum : item.tokens + sum, 0, items)

Idle == [at |-> "idle", policy |-> "reasoning", todo |-> <<>>, current |-> <<>>,
         kept |-> <<>>, cut |-> {}, dropped |-> {}, all |-> {}, notes |-> 0]

ReducerInit ==
    /\ weight \in [Facts -> Sizes]
    /\ found = <<>> /\ registry = <<>>
    /\ asm = Idle
    /\ assemblies = 0

-----------------------------------------------------------------------------
(* Where items come from                                                   *)

LastOf(seq, n) == SubSeq(seq, IF Len(seq) > n THEN Len(seq) - n + 1 ELSE 1, Len(seq))

\* merge_registry_items: a known key is not stored again, the oldest go.
MergedRegistry(f) ==
    IF f \in Range(registry) THEN registry ELSE LastOf(Append(registry, f), MaxRegistry)

\* persist_retrieval_context, persist_tool_context, after the node put the
\* result into the state.
PersistResult(f) ==
    /\ asm.at = "idle" /\ f \notin Range(found)
    /\ found' = Append(found, f)
    /\ registry' = MergedRegistry(f)
    /\ UNCHANGED <<weight, asm, assemblies>>

\* A new turn clears the results; the registry goes on.
NextTurn ==
    /\ asm.at = "idle" /\ found # <<>>
    /\ found' = <<>>
    /\ UNCHANGED <<weight, registry, asm, assemblies>>

\* collect_context_items: a result whose key the registry knows is left to the
\* registry, whose items may be dropped.
Direct == SelectSeq(found, LAMBDA f : f \notin Range(registry))
FromRegistry == SelectSeq(registry, LAMBDA f : f \notin Range(Direct))
CollectedFacts ==
    [i \in 1..Len(Direct) |-> FactItem(Direct[i])]
        \o [i \in 1..Len(FromRegistry) |-> RegistryItem(FromRegistry[i])]

\* Near duplicates of an earlier message are gone from the transcript.
Collect(turn, said, error) ==
    TurnItem(turn) \o [i \in 1..Len(said) |-> HistoryItem(i, said[i])]
        \o CollectedFacts \o (IF error = 0 THEN <<>> ELSE <<DiagnosticItem(error)>>)

\* The buckets in the order in which their first item was collected.
BucketsOf(items) ==
    SelectSeq(<<"turn", "transcript", "knowledge", "diagnostics">>,
              LAMBDA b : \E i \in DOMAIN items : items[i].bucket = b)

-----------------------------------------------------------------------------
(* Sorting and cutting                                                     *)

\* _sort_items: by priority; the ids that break ties are random.
Sorted(items) ==
    {s \in {[i \in DOMAIN items |-> items[p[i]]] :
               p \in {q \in [DOMAIN items -> DOMAIN items] : IsInjective(q)}} :
        \A i, j \in DOMAIN s : i < j => s[i].priority <= s[j].priority}

AtLeast(a, b) == IF a >= b THEN a ELSE b

\* _truncate_item_content: what fits stays as it is.
Truncated(item, limit) ==
    [item EXCEPT !.tokens = IF @ <= AtLeast(1, limit) THEN @ ELSE AtLeast(1, limit)]

Ids(items) == {items[i].id : i \in DOMAIN items}

\* compress_conversation_history: as many of the last ones as fit.
FittingFrom(items) ==
    CHOOSE k \in 1..(Len(items) + 1) :
        /\ Tokens(SubSeq(items, k, Len(items))) <= HistoryTokens
        /\ k = 1 \/ Tokens(SubSeq(items, k - 1, Len(items))) > HistoryTokens
CompressedTranscript(items) ==
    LET rest == SubSeq(items, FittingFrom(items), Len(items))
    IN  IF Len(rest) = Len(items) THEN items ELSE <<OmittedNote>> \o rest

-----------------------------------------------------------------------------
(* reduce_context_items                                                    *)

Policy == Policies[asm.policy]
Bucket == Head(asm.todo)
CapOf(b) == IF b \in Policy.none THEN 0 ELSE Cap
Over == Tokens(asm.current) > CapOf(Bucket)
Step1(next) == asm' = next /\ UNCHANGED <<weight, found, registry, assemblies>>

\* build_context_envelope.
BuildEnvelope(purpose, turn, said, error) ==
    /\ asm.at = "idle" /\ assemblies < MaxAssemblies
    /\ assemblies' = assemblies + 1
    /\ LET items == Collect(turn, said, error)
       IN  asm' = [Idle EXCEPT !.at = "sort", !.policy = purpose, !.todo = BucketsOf(items),
                               !.kept = items, !.all = Ids(items)]
    /\ UNCHANGED <<weight, found, registry>>

\* The next bucket, sorted; over its cap the transcript is compressed and a
\* required bucket takes its minimal form.
Compresses(items) ==
    Tokens(items) > CapOf(Bucket) /\ Bucket = "transcript" /\ Bucket \in Policy.squeeze
Compressed(items) == IF Compresses(items) THEN CompressedTranscript(items) ELSE items
Minimal(items) ==
    IF Tokens(items) > CapOf(Bucket) /\ Bucket \in Policy.required \cap Policy.minimal
          /\ Truncated(Head(items), MinTokens).tokens < Tokens(items)
    THEN <<Truncated(Head(items), MinTokens)>> ELSE items

\* What is listed as compressed.
Noted(s, m) ==
    (IF Compresses(s) THEN Ids(s) ELSE {}) \cup {i.id : i \in Range(m) \ Range(Minimal(m))}

Taken == SelectSeq(asm.kept, LAMBDA i : i.bucket = Bucket)
SortBucket ==
    /\ asm.at = "sort" /\ asm.todo # <<>>
    /\ \E s \in Sorted(Taken) : \E m \in Sorted(Compressed(s)) :
          Step1([asm EXCEPT !.at = "cap", !.current = Minimal(m),
                   !.kept = SelectSeq(asm.kept, LAMBDA i : i.bucket # Bucket),
                   !.cut = @ \cup Noted(s, m)])

\* The while loop over a bucket that is still above its cap.
DropLast ==
    /\ asm.at = "cap" /\ Over /\ asm.current # <<>> /\ Bucket \in Policy.drop
    /\ IF Bucket \in Policy.required /\ Len(asm.current) = 1
       THEN Step1([asm EXCEPT !.at = "fits"])
       ELSE Step1([asm EXCEPT !.current = Front(@),
                              !.dropped = @ \cup {Last(asm.current).id}])

TruncateLast ==
    /\ asm.at = "cap" /\ Over /\ asm.current # <<>>
    /\ Bucket \notin Policy.drop /\ Bucket \in Policy.squeeze /\ Bucket # "transcript"
    /\ LET n == Len(asm.current)
       IN  Step1([asm EXCEPT !.current[n] = Truncated(@, CapOf(Bucket) \div n),
                             !.cut = @ \cup {Last(asm.current).id},
                             !.notes = (@ + 1) % 2])

DropHard ==
    /\ asm.at = "cap" /\ Over /\ asm.current # <<>> /\ Bucket \notin Policy.drop
    /\ Bucket \notin Policy.squeeze \/ Bucket = "transcript"
    /\ Step1([asm EXCEPT !.current = Front(@), !.dropped = @ \cup {Last(asm.current).id}])

KeepBucket ==
    /\ asm.at = "fits" \/ (asm.at = "cap" /\ (~ Over \/ asm.current = <<>>))
    /\ Step1([asm EXCEPT !.at = IF Len(asm.todo) = 1 THEN "degrade" ELSE "sort",
                         !.todo = IF Len(asm.todo) = 1 THEN Policy.order ELSE Tail(@),
                         !.kept = @ \o asm.current, !.current = <<>>])

Total == Tokens(asm.kept) + Tokens(asm.current)

\* A bucket is taken up for degradation: the transcript is compressed as a
\* whole, the items of others are gone through, the least important first.
DegradeBucket ==
    /\ asm.at = "degrade" /\ asm.todo # <<>> /\ Total > Budget /\ asm.current = <<>>
    /\ IF Bucket = "transcript" /\ Bucket \in Policy.squeeze /\ Taken # <<>>
       THEN Step1([asm EXCEPT !.todo = Tail(@), !.cut = @ \cup Ids(Taken),
                     !.kept = SelectSeq(asm.kept, LAMBDA i : i.bucket # Bucket)
                                \o CompressedTranscript(Taken)])
       ELSE IF Taken = <<>> THEN Step1([asm EXCEPT !.todo = Tail(@)])
       ELSE \E s \in Sorted(Taken) :
                Step1([asm EXCEPT !.current = s,
                         !.kept = SelectSeq(asm.kept, LAMBDA i : i.bucket # Bucket)])

\* An item that may not be dropped is cut to half, if it may be cut.
DegradeItem ==
    /\ asm.at = "degrade" /\ asm.current # <<>> /\ Total > Budget
    /\ LET item == Last(asm.current)
           rest == [asm EXCEPT !.current = Front(@),
                               !.todo = IF Len(asm.current) = 1 THEN Tail(@) ELSE @]
       IN  Step1(IF item.drop THEN [rest EXCEPT !.dropped = @ \cup {item.id}]
                 ELSE IF item.squeeze
                 THEN [rest EXCEPT !.kept = Append(@, Truncated(item, item.tokens \div 2)),
                                   !.cut = @ \cup {item.id}]
                 ELSE [rest EXCEPT !.kept = Append(@, item)])

\* Mutant of DegradeEnds: the degraded envelope is returned as it is.
DegradeReturns ==
    /\ asm.at = "degrade"
    /\ Total <= Budget \/ asm.todo = <<>>
    /\ Step1([asm EXCEPT !.at = "done", !.kept = @ \o asm.current, !.current = <<>>])

\* The buckets of degrade_order are through, or the budget is met.
DegradeEnds ==
    /\ asm.at = "degrade"
    /\ Total <= Budget \/ asm.todo = <<>>
    /\ Step1([asm EXCEPT !.at = "sweep", !.kept = @ \o asm.current, !.current = <<>>])

\* The last resort: what is neither critical nor protected goes.
Expendable(items) == {i \in DOMAIN items : items[i].drop /\ items[i].priority > 0}
Sweep ==
    /\ asm.at = "sweep" /\ Total > Budget /\ Expendable(asm.kept) # {}
    /\ \E i \in Expendable(asm.kept) :
          Step1([asm EXCEPT !.kept = SelectSeq(@, LAMBDA x : x.id # asm.kept[i].id),
                            !.dropped = @ \cup {asm.kept[i].id}])

SweepEnds ==
    /\ asm.at = "sweep"
    /\ Total <= Budget \/ Expendable(asm.kept) = {}
    /\ Step1([asm EXCEPT !.at = "done"])

\* assemble_context_envelope has rendered what is kept.
UseEnvelope == asm.at = "done" /\ Step1(Idle)

ReducerStep ==
    \/ SortBucket \/ DropLast \/ TruncateLast \/ DropHard \/ KeepBucket
    \/ DegradeBucket \/ DegradeItem \/ DegradeEnds \/ Sweep \/ SweepEnds \/ UseEnvelope

ReducerNext ==
    \/ \E f \in Facts : PersistResult(f)
    \/ NextTurn
    \/ \E purpose \in DOMAIN Policies, turn \in Sizes, error \in Sizes \cup {0},
          said \in UNION {[1..n -> Sizes] : n \in 0..MaxTranscript} :
          BuildEnvelope(purpose, turn, said, error)
    \/ ReducerStep

ReducerSpec == ReducerInit /\ [][ReducerNext]_reducerVars
FairReducerSpec == ReducerSpec /\ WF_reducerVars(ReducerStep)

-----------------------------------------------------------------------------
(* Properties                                                              *)

ItemIds ==
    ({"turn", "error", "omitted"} \X {0}) \cup ({"fact"} \X Facts)
        \cup ({"said"} \X (1..MaxTranscript))

\* Types.
ReducerTypeOK ==
    /\ weight \in [Facts -> Sizes]
    /\ Range(found) \cup Range(registry) \subseteq Facts
    /\ asm.at \in {"idle", "sort", "cap", "fits", "degrade", "sweep", "done"}
    /\ Ids(asm.kept) \cup Ids(asm.current) \cup asm.cut \cup asm.dropped \subseteq ItemIds

\* Nothing disappears silently: whatever path the two loops took, an item that
\* was collected is in the prompt, or it is listed as dropped or as compressed,
\* which is all that the trace of an envelope shows for it.
ItemsAccounted ==
    asm.at # "idle" => asm.all \subseteq Ids(asm.kept) \cup Ids(asm.current) \cup asm.dropped \cup asm.cut

\* An envelope above its budget holds only items that are critical or that may
\* not be dropped: no later stage keeps what could still have gone.
BudgetMetOrProtected ==
    asm.at = "done" /\ Tokens(asm.kept) > Budget => Expendable(asm.kept) = {}

\* Every result of the turn, and every one the registry still holds, is offered
\* to the reduction exactly once, although the registry evicts its oldest rows
\* and results it knows are not collected from the state.
FactsOfferedOnce ==
    /\ Range(found) \cup Range(registry) = {i.id[2] : i \in Range(CollectedFacts)}
    /\ Cardinality(Range(found) \cup Range(registry)) = Len(CollectedFacts)

\* reduce_context_items returns ("Return (kept, compressed, dropped) after
\* bucket caps and global budget").
ReductionEnds == asm.at # "idle" ~> asm.at = "idle"
=============================================================================
