------------------------------ MODULE LlmCalls ------------------------------
(***************************************************************************)
(* Calls of the language model: the retry wrapper with_retry, the circuit  *)
(* breaker that all threads share, and the two callers built on them,      *)
(* invoke_structured and invoke_artifact_draft.  The latter streams first, *)
(* then makes a tool call, then a text call; inside of the tool call a     *)
(* model that refuses tool_choice is asked again with a text call, so that *)
(* one wrapper runs within another.  Every method of the breaker holds its *)
(* lock and is one step; what the model answers is a free choice.          *)
(***************************************************************************)
EXTENDS Naturals

CONSTANTS
    Callers,        \* threads that call the model
    Retries,        \* settings.MODEL_MAX_RETRIES, attempts of one wrapper
    StreamRetries,  \* settings.ARTIFACT_STREAM_MAX_RETRIES
    Threshold,      \* CircuitBreaker.failure_threshold
    HalfOpenMax     \* CircuitBreaker.half_open_max_calls

ASSUME LlmAssumption ==
    /\ Retries \in Nat \ {0}
    /\ StreamRetries \in Nat
    /\ Threshold \in Nat \ {0}
    /\ HalfOpenMax \in Nat \ {0}

VARIABLES
    breaker,  \* the breaker "default"
    call,     \* what each thread is doing
    lost      \* history: a wrapper ended unrecorded in the half-open breaker

vars == <<breaker, call, lost>>

\* failure_count is only compared with the threshold: it stops there.
\* elapsed: recovery_timeout has passed since last_failure_time.
Breaker ==
    [state : {"CLOSED", "OPEN", "HALF_OPEN"}, failures : 0..Threshold,
     probes : 0..HalfOpenMax, elapsed : BOOLEAN]

\* How an attempt ends, by what classify_llm_error and the lists of words in
\* the message make of it:
\*   busy    timeout, rate, 529, 503
\*   cut     502, incomplete chunked, peer closed
\*   fail    a retryable category without one of these words (500, 429, ...)
\*   reject  auth, filter, context, unknown; a pause, cancel or spent budget
\*   open    CircuitOpenError
Result == {"none", "ok", "busy", "cut", "fail", "reject", "open"}

Stage == {"none", "structured", "stream", "tool", "text", "again"}

\* outer is the attempt of the tool wrapper around a nested text wrapper, or
\* 0; typed says that the result is a RetryableError.
Call ==
    [pc : {"idle", "stream", "enter", "call", "out", "twice", "up"},
     stage : Stage, n : 0..(Retries + StreamRetries + 1), outer : 0..Retries,
     res : Result, typed : BOOLEAN]

Idle ==
    [pc |-> "idle", stage |-> "none", n |-> 0, outer |-> 0,
     res |-> "none", typed |-> FALSE]

Init ==
    /\ breaker = [state |-> "CLOSED", failures |-> 0, probes |-> 0, elapsed |-> FALSE]
    /\ call = [c \in Callers |-> Idle]
    /\ lost = FALSE

-----------------------------------------------------------------------------
(***************************************************************************)
(* The circuit breaker.                                                    *)
(***************************************************************************)

\* _maybe_transition.
MaybeTransition(b) ==
    IF b.state = "OPEN" /\ b.elapsed
    THEN [state |-> "HALF_OPEN", failures |-> b.failures, probes |-> 0, elapsed |-> TRUE]
    ELSE b

Refuses(b) ==
    \/ b.state = "OPEN"
    \/ b.state = "HALF_OPEN" /\ b.probes >= HalfOpenMax

Admitting(b) ==
    IF b.state = "HALF_OPEN" THEN [b EXCEPT !.probes = b.probes + 1] ELSE b

\* record_success.
RecordSuccess ==
    /\ breaker' = [state |-> "CLOSED", failures |-> 0, probes |-> 0,
                   elapsed |-> breaker.elapsed]
    /\ lost' = FALSE

\* Mutant of RecordFailure: the comparison with the threshold is strict.
RecordFailureLate ==
    LET n == breaker.failures + 1
        opens == breaker.state = "HALF_OPEN" \/ n > Threshold
    IN  /\ breaker' = [state |-> IF opens THEN "OPEN" ELSE breaker.state,
                       failures |-> IF n > Threshold THEN Threshold ELSE n,
                       probes |-> breaker.probes, elapsed |-> FALSE]
        /\ lost' = FALSE

\* record_failure.
RecordFailure ==
    LET n == breaker.failures + 1
        opens == breaker.state = "HALF_OPEN" \/ n >= Threshold
    IN  /\ breaker' = [state |-> IF opens THEN "OPEN" ELSE breaker.state,
                       failures |-> IF n > Threshold THEN Threshold ELSE n,
                       probes |-> breaker.probes, elapsed |-> FALSE]
        /\ lost' = FALSE

\* The recovery timeout passes.
Elapse ==
    /\ breaker.state = "OPEN" /\ ~breaker.elapsed
    /\ breaker' = [breaker EXCEPT !.elapsed = TRUE]
    /\ UNCHANGED <<call, lost>>

-----------------------------------------------------------------------------
(***************************************************************************)
(* with_retry.                                                             *)
(***************************************************************************)

Set(c, k) == call' = [call EXCEPT ![c] = k]

At(c, pc) == call[c].pc = pc

\* The wrapper is entered for the given stage.
Entering(k, stage) ==
    [pc |-> "enter", stage |-> stage, n |-> 0, outer |-> k.outer,
     res |-> "none", typed |-> FALSE]

\* The wrapper ends with result r: in the function of the tool wrapper that
\* called it, or in its caller.
Ended(k, r, typed) ==
    [pc |-> IF k.outer > 0 THEN "out" ELSE "up", stage |-> k.stage,
     n |-> k.outer, outer |-> 0, res |-> r, typed |-> typed]

LastAttempt(k) == k.n >= Retries

Retried(k) ==
    [pc |-> "call", stage |-> k.stage, n |-> k.n + 1, outer |-> k.outer,
     res |-> "none", typed |-> FALSE]

\* Mutant of AllowCall: a caller that is refused tries again.
AllowCallWaits(c) ==
    /\ At(c, "enter")
    /\ breaker' = Admitting(MaybeTransition(breaker))
    /\ ~Refuses(MaybeTransition(breaker))
    /\ Set(c, Retried(call[c]))
    /\ UNCHANGED lost

\* allow_call, once per run of the wrapper.
AllowCall(c) ==
    LET b == MaybeTransition(breaker) IN
    /\ At(c, "enter")
    /\ \/ /\ Refuses(b)
          /\ breaker' = b
          /\ Set(c, Ended(call[c], "open", FALSE))
       \/ /\ ~Refuses(b)
          /\ breaker' = Admitting(b)
          /\ Set(c, Retried(call[c]))
    /\ UNCHANGED lost

\* The wrapped function runs once.  invoke_structured turns a busy error into
\* RetryableError; the functions of the gateway pass on what they get.
Attempt(c) ==
    LET k == call[c] IN
    /\ At(c, "call")
    /\ \E r \in {"ok", "busy", "cut", "fail", "reject"} :
           Set(c, [pc |-> "out", stage |-> k.stage, n |-> k.n, outer |-> k.outer,
                   res |-> r, typed |-> k.stage = "structured" /\ r = "busy"])
    /\ UNCHANGED <<breaker, lost>>

\* _invoke_with_tool meets a model in thinking mode that rejects tool_choice
\* and calls _invoke_text, which has a wrapper of its own.
FallBackInside(c) ==
    LET k == call[c] IN
    /\ At(c, "call") /\ k.stage = "tool" /\ k.outer = 0
    /\ Set(c, Entering([k EXCEPT !.outer = k.n], "tool"))
    /\ UNCHANGED <<breaker, lost>>

\* except RetryableError.
RecordTyped(c) ==
    LET k == call[c] IN
    /\ At(c, "out") /\ k.typed
    /\ RecordFailure
    /\ Set(c, IF LastAttempt(k) THEN Ended(k, k.res, TRUE) ELSE Retried(k))

\* A busy or cut error is recorded once as a failure and, when there is an
\* attempt left, a second time.
RecordTransient(c) ==
    LET k == call[c] IN
    /\ At(c, "out") /\ ~k.typed /\ k.res \in {"busy", "cut"}
    /\ RecordFailure
    /\ Set(c, IF LastAttempt(k) THEN Ended(k, k.res, TRUE) ELSE [k EXCEPT !.pc = "twice"])

RecordTwice(c) ==
    /\ At(c, "twice")
    /\ RecordFailure
    /\ Set(c, Retried(call[c]))

\* Mutant of RecordFinal: an error that is not counted is not recorded.
RecordOkOnly(c) ==
    LET k == call[c] IN
    /\ At(c, "out") /\ k.res \in {"ok", "reject"}
    /\ IF k.res = "ok" THEN RecordSuccess ELSE UNCHANGED <<breaker, lost>>
    /\ Set(c, Ended(k, k.res, FALSE))

\* A success, and every error that the breaker is not to count.
RecordFinal(c) ==
    LET k == call[c] IN
    /\ At(c, "out") /\ k.res \in {"ok", "reject"}
    /\ RecordSuccess
    /\ Set(c, Ended(k, k.res, FALSE))

\* An error that is counted and raised at once.
RecordFatal(c) ==
    LET k == call[c] IN
    /\ At(c, "out") /\ k.res = "fail"
    /\ RecordFailure
    /\ Set(c, Ended(k, "fail", FALSE))

\* except CircuitOpenError: raise.  Only the nested wrapper raises it here.
Reraise(c) ==
    LET k == call[c] IN
    /\ At(c, "out") /\ k.res = "open"
    /\ Set(c, Ended(k, "open", FALSE))
    /\ lost' = (lost \/ breaker.state = "HALF_OPEN")
    /\ UNCHANGED breaker

-----------------------------------------------------------------------------
(***************************************************************************)
(* invoke_structured and invoke_artifact_draft.                            *)
(***************************************************************************)

Streaming(n) ==
    [pc |-> "stream", stage |-> "stream", n |-> n, outer |-> 0,
     res |-> "none", typed |-> FALSE]

\* A caller starts: artifact_stream_enabled and the capabilities of the model
\* decide where invoke_artifact_draft begins.
Start(c) ==
    /\ At(c, "idle")
    /\ \/ \E s \in {"structured", "tool", "text"} : Set(c, Entering(Idle, s))
       \/ Set(c, Streaming(1))
    /\ UNCHANGED <<breaker, lost>>

\* One _stream_artifact_live, which knows nothing of the breaker: a draft (or
\* part of one), a transport error that is tried again, or, for another
\* error and when the retries are used up, the call without a stream.
StreamAttempt(c) ==
    LET k == call[c] IN
    /\ At(c, "stream")
    /\ \/ Set(c, Idle)
       \/ k.n <= StreamRetries /\ Set(c, Streaming(k.n + 1))
       \/ \E s \in {"tool", "text"} : Set(c, Entering(k, s))
    /\ UNCHANGED <<breaker, lost>>

\* _invoke_artifact_sync: the tool call failed.  A busy error goes to the
\* caller, another one leads to the text call; the words that make an error
\* busy may also occur in one that the provider rejected.
FallBackToText(c) ==
    LET k == call[c] IN
    /\ At(c, "up") /\ k.stage = "tool"
    /\ k.res \in {"cut", "fail", "reject", "open"}
    /\ Set(c, Entering(k, "text"))
    /\ UNCHANGED <<breaker, lost>>

\* _adapt_or_retry_thinking_only: an answer of nothing but thinking blocks.
AskAgain(c) ==
    LET k == call[c] IN
    /\ At(c, "up") /\ k.stage \in {"tool", "text"} /\ k.res = "ok"
    /\ Set(c, Entering(k, "again"))
    /\ UNCHANGED <<breaker, lost>>

\* The call is over, with an answer or an error.
Return(c) ==
    LET k == call[c] IN
    /\ At(c, "up")
    /\ ~(k.stage = "tool" /\ k.res \in {"cut", "fail", "open"})
    /\ Set(c, Idle)
    /\ UNCHANGED <<breaker, lost>>

-----------------------------------------------------------------------------

Step(c) ==
    \/ AllowCall(c) \/ Attempt(c) \/ FallBackInside(c)
    \/ RecordTyped(c) \/ RecordTransient(c) \/ RecordTwice(c)
    \/ RecordFinal(c) \/ RecordFatal(c) \/ Reraise(c)
    \/ StreamAttempt(c) \/ FallBackToText(c) \/ AskAgain(c) \/ Return(c)

Next == Elapse \/ \E c \in Callers : Start(c) \/ Step(c)

Spec == Init /\ [][Next]_vars

\* A thread that has begun a call goes on: the model answers or the client
\* library raises its timeout.
FairSpec == Spec /\ \A c \in Callers : WF_vars(Step(c))

-----------------------------------------------------------------------------

\* Every variable has its type: a wrapper never goes past its last attempt.
TypeOK ==
    /\ breaker \in Breaker
    /\ call \in [Callers -> Call]
    /\ lost \in BOOLEAN
    /\ \A c \in Callers : ~At(c, "stream") => call[c].n <= Retries

\* A caller that the breaker has let in and whose attempt is not recorded.
InFlight(c) ==
    \/ call[c].pc \in {"call", "out", "twice"}
    \/ call[c].pc = "enter" /\ call[c].outer > 0

\* The half-open breaker has taken a call that is going to be recorded, unless
\* a tool call ended with the CircuitOpenError of its own fallback: no other
\* way through with_retry loses a probe, whatever the other threads record.
HalfOpenHasProbe ==
    breaker.state = "HALF_OPEN" /\ ~lost => \E c \in Callers : InFlight(c)

\* The closed breaker is below its threshold, although threads that were let
\* in before it opened, and retries that do not ask again, go on recording.
ClosedBelowThreshold ==
    breaker.state = "CLOSED" => breaker.failures < Threshold

\* What always holds of the breaker and the calls.
BreakerSound == TypeOK /\ HalfOpenHasProbe /\ ClosedBelowThreshold

\* Every call of the model returns, in every order of errors and refusals.
CallsEnd ==
    \A c \in Callers : ~At(c, "idle") ~> At(c, "idle")

\* The half-open breaker opens or closes again, unless its probe was lost.
ProbeDecides ==
    breaker.state = "HALF_OPEN" ~> (breaker.state # "HALF_OPEN" \/ lost)

\* The half-open breaker opens or closes again: after recovery_timeout a
\* single call decides.  Does not hold: see Reraise.
BreakerRecovers ==
    breaker.state = "HALF_OPEN" ~> breaker.state # "HALF_OPEN"
=============================================================================
