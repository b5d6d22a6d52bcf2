---------------------------- MODULE ModelAnswers ----------------------------
(***************************************************************************)
(* One request to the language model from the inside (llm_client.py):      *)
(* the two caches of answers, the configuration that can be swapped while  *)
(* requests are under way (runtime_model_config.py), the model's text, its *)
(* bill, the parser with its repairs, and what of a streamed answer the    *)
(* user has seen.  invoke_structured and stream_structured share all of it *)
(* but the retry wrapper, which only the first one has; the wrapper and    *)
(* the circuit breaker are the subject of LlmCalls.                        *)
(***************************************************************************)
EXTENDS Integers, FiniteSets

CONSTANTS
    Askers,    \* threads with a request
    Engines,   \* configurations: provider, model, key and address
    Local,     \* the configuration with the model disabled
    Attempts,  \* MODEL_MAX_RETRIES
    MaxSwaps,  \* bound: configurations in the course of time
    MaxAsks    \* bound: requests

AnswerAssumption ==
    /\ Local \in Engines /\ Engines # {Local}
    /\ Attempts \in Nat \ {0} /\ MaxSwaps \in Nat \ {0} /\ MaxAsks \in Nat

\* The purpose of a request; requests of one purpose have the same prompt.
Purposes == {"planning", "reasoning", "routing"}
Caches == {"structured", "stream"}

\* What the text of an answer is to the parser: JSON objects (several are
\* merged, or the first is taken), a plan cut off in the middle, a cut text with a
\* whole object inside of it, no JSON at all, and nothing.
Texts == {"object", "cutPlan", "inner", "prose", "empty"}

VARIABLES
    engine,   \* the effective configuration
    swap,     \* a change of it has not yet cleared the caches
    swaps,    \* number of configurations so far
    since,    \* history: per configuration, the change that brought it, 0 for none
    returned, \* history: one of them came back
    memo,     \* _STRUCTURED_CACHE and _STREAM_CACHE: per key, whose answer
    request,  \* per thread: its request
    asks      \* number of requests

answerVars == <<engine, swap, swaps, since, returned, memo, request, asks>>

NoRequest ==
    [at |-> "idle", way |-> "structured", purpose |-> "routing",
     key |-> Local, by |-> Local,
     text |-> "empty", try |-> 1, began |-> Local, out |-> "none"]

AnswersInit ==
    /\ engine = CHOOSE e \in Engines : e # Local
    /\ swap = FALSE /\ swaps = 1 /\ returned = FALSE
    /\ since = [e \in Engines |-> IF e = engine THEN 1 ELSE 0]
    /\ memo = [c \in Caches |-> [p \in Purposes |-> [e \in Engines |-> {}]]]
    /\ request = [a \in Askers |-> NoRequest]
    /\ asks = 0

AnswersTypeOK ==
    /\ engine \in Engines /\ since \in [Engines -> 0 .. MaxSwaps]
    /\ swap \in BOOLEAN /\ returned \in BOOLEAN
    /\ memo \in [Caches -> [Purposes -> [Engines -> SUBSET [by : Engines, text : Texts]]]]
    /\ request \in [Askers ->
          [at : {"idle", "keyed", "calling", "answered", "billed", "failed"}, way : Caches,
           purpose : Purposes, key : Engines, by : Engines, text : Texts,
           try : 1 .. Attempts, began : Engines,
           out : {"none", "parsed", "inner", "repaired", "fallback", "error", "stopped"}]]
    /\ asks \in 0 .. MaxAsks

-----------------------------------------------------------------------------
(* The configuration                                                       *)

\* RuntimeModelConfigStore.apply and reset: the override, under the lock.
Swap ==
    /\ ~swap /\ swaps < MaxSwaps /\ swaps' = swaps + 1
    /\ \E e \in Engines \ {engine} :
          engine' = e /\ since' = [since EXCEPT ![e] = swaps'] /\ returned' = (returned \/ since[e] > 0)
    /\ swap' = TRUE
    /\ UNCHANGED <<memo, request, asks>>

\* Then, outside of it, invalidate_llm_cache.
Invalidate ==
    /\ swap /\ swap' = FALSE
    /\ memo' = [c \in Caches |-> [p \in Purposes |-> [e \in Engines |-> {}]]]
    /\ UNCHANGED <<engine, swaps, since, returned, request, asks>>

-----------------------------------------------------------------------------
(* The parser                                                              *)

\* _iter_json_objects: the objects that can be read, also one that lies inside
\* of a text that breaks off.
Objects(text) == CASE text = "object" -> {"parsed"} [] text = "inner" -> {"inner"} [] OTHER -> {}

\* _repair_truncated_planning_json: brackets are closed, or the steps are
\* picked out of the text.
Closed(text) == IF text = "cutPlan" THEN {"repaired"} ELSE {}

\* _extract_json: the objects, of a plan also one that breaks off.
Extract(purpose, text) ==
    IF Objects(text) # {} THEN Objects(text)
    ELSE IF purpose = "planning" THEN Closed(text) ELSE {}

\* _attempt_planning_json_repair: the model is given the text to convert,
\* without a bill, and its answer may be no better.
PlanAsked == {"repaired", "error"}

\* _reasoning_fallback_payload: the text itself is the summary.
Fallback == {"fallback"}

\* _attempt_reasoning_json_repair; the fallback when that brings nothing.
ReasoningAsked == {"repaired"} \cup Fallback

\* extract_json_with_repair; of a streamed answer of reasoning the model is not
\* asked for a repair.
Outcomes(way, purpose, text) ==
    IF Extract(purpose, text) # {} THEN Extract(purpose, text)
    ELSE CASE purpose = "planning" -> PlanAsked
           [] purpose = "reasoning" -> IF way = "stream" THEN Fallback ELSE ReasoningAsked
           [] OTHER -> {"error"}

\* _local_structured_response: an answer made of the request itself.
LocalAnswer == [by |-> Local, text |-> "object"]

-----------------------------------------------------------------------------
(* A request                                                               *)

Now(a, at) == request' = [request EXCEPT ![a].at = at]
Over(a, out) == request' = [request EXCEPT ![a].at = "idle", ![a].out = out]
others == <<engine, swap, swaps, since, returned>>

\* Mutant of Key: the key is made of the prompt alone.
KeyOfPrompt == Local

\* _cache_key: the configuration in force, with the prompt.
Key == engine

\* The function is entered: governance, the budget, the key and the cache.  A
\* hit is not billed; a streamed one is yielded as a whole and then parsed.
Lookup(r) ==
    IF memo[r.way][r.purpose][Key] = {} THEN [r EXCEPT !.at = "keyed", !.key = Key]
    ELSE LET hit == CHOOSE h \in memo[r.way][r.purpose][Key] : TRUE
         IN [r EXCEPT !.at = IF r.way = "stream" THEN "billed" ELSE "idle", !.key = Key,
                      !.by = hit.by, !.text = hit.text, !.out = "parsed"]

Ask(a) ==
    /\ request[a].at = "idle" /\ asks < MaxAsks /\ asks' = asks + 1
    /\ \E way \in Caches, purpose \in Purposes:
          /\ way = "stream" => purpose # "routing"
          /\ request' = [request EXCEPT ![a] = Lookup(
                [NoRequest EXCEPT !.way = way, !.purpose = purpose, !.began = engine])]
    /\ UNCHANGED <<others, memo>>

\* get_llm takes the configuration of this moment.  With the model disabled
\* the answer is made up here (_local_structured_response) and is cached too.
GetLlm(a) ==
    LET r == request[a] IN
    /\ r.at = "keyed"
    /\ IF engine = Local
       THEN /\ request' = [request EXCEPT ![a].at = "idle", ![a].by = Local, ![a].out = "parsed"]
            /\ memo' = [memo EXCEPT ![r.way][r.purpose][r.key] = {LocalAnswer}]
       ELSE request' = [request EXCEPT ![a].at = "calling", ![a].by = engine] /\ UNCHANGED memo
    /\ UNCHANGED <<others, asks>>

\* The stream of the model ends with a text.  One without any is asked for
\* again by a plain call, which bills as part of this answer.
Answer(a) ==
    /\ request[a].at = "calling"
    /\ \E t \in Texts \ {"empty"} :
          request' = [request EXCEPT ![a].at = "answered", ![a].text = t]
    /\ UNCHANGED <<others, memo, asks>>

\* The plain call brings nothing either: a structured answer goes on with the
\* empty text; a stream ends without bill or cache entry.
AnswerNothing(a) ==
    /\ request[a].at = "calling"
    /\ request' = [request EXCEPT ![a].text = "empty",
          ![a].at = IF request[a].way = "structured" THEN "answered" ELSE "billed"]
    /\ UNCHANGED <<others, memo, asks>>

\* The call raises, or a pause or a cancellation is found between two chunks;
\* of a stream, the reader may also just stop reading.
Break(a) ==
    /\ request[a].at = "calling"
    /\ Now(a, "failed")
    /\ UNCHANGED <<others, memo, asks>>

\* after_invoke and _record_llm_usage; a stream caches its text here.
Bill(a) ==
    LET r == request[a] IN
    /\ r.at = "answered"
    /\ Now(a, "billed")
    /\ memo' = IF r.way = "stream"
               THEN [memo EXCEPT ![r.way][r.purpose][r.key] = {[by |-> r.by, text |-> r.text]}]
               ELSE memo
    /\ UNCHANGED <<others, asks>>

\* extract_json_with_repair, in invoke_structured or by the node that read the
\* stream.  invoke_structured caches what it returns, a fallback included.
Parse(a) ==
    LET r == request[a] IN
    /\ r.at = "billed"
    /\ \E o \in Outcomes(r.way, r.purpose, r.text) :
          /\ IF o = "error" THEN Now(a, "failed") ELSE Over(a, o)
          /\ memo' = IF r.way = "structured" /\ o # "error"
                     THEN [memo EXCEPT ![r.way][r.purpose][r.key] = {[by |-> r.by, text |-> r.text]}]
                     ELSE memo
    /\ UNCHANGED <<others, asks>>

\* An error leaves the function.  The wrapper of invoke_structured enters it
\* again when the message looks like a transient one, and the message of a
\* text that cannot be parsed holds the beginning of the text.
Retry(a) ==
    LET r == request[a] IN
    /\ r.at = "failed" /\ r.way = "structured" /\ r.try < Attempts
    /\ request' = [request EXCEPT ![a] = Lookup([r EXCEPT !.try = @ + 1])]
    /\ UNCHANGED <<others, memo, asks>>

GiveUp(a) ==
    /\ request[a].at = "failed"
    /\ Over(a, "error")
    /\ UNCHANGED <<others, memo, asks>>

\* The 300 seconds of an entry are over.
Forget ==
    /\ \E c \in Caches, p \in Purposes, e \in Engines :
          memo[c][p][e] # {} /\ memo' = [memo EXCEPT ![c][p][e] = {}]
    /\ UNCHANGED <<others, request, asks>>

AnswersNext ==
    \/ Swap \/ Invalidate \/ Forget
    \/ \E a \in Askers : \/ Ask(a) \/ GetLlm(a) \/ Answer(a) \/ AnswerNothing(a) \/ Break(a)
                         \/ Bill(a) \/ Parse(a) \/ Retry(a) \/ GiveUp(a)

AnswersSpec == AnswersInit /\ [][AnswersNext]_answerVars

-----------------------------------------------------------------------------
(* Properties                                                              *)

\* A request that begins after a change of the configuration is not answered
\* by a configuration that was replaced before it began, although requests
\* under way go on and cache their answers after the caches were cleared
\* (runtime_model_config.py:115, llm_client.py:637).  True as long as no
\* configuration comes back: a request that took its key before one change and
\* its model after it leaves a wrong answer for when the first one is back.
AnswersFollowConfig ==
    ~returned => \A a \in Askers :
        (request[a].at = "idle" /\ request[a].out \in {"parsed", "inner", "repaired", "fallback"})
            => since[request[a].by] >= since[request[a].began]

=============================================================================
