--------------------------- MODULE LlmCallsProofs ---------------------------
(***************************************************************************)
(* The circuit breaker under with_retry, for any number of threads and any *)
(* setting of retries and thresholds.  The argument for HalfOpenHasProbe:  *)
(* the breaker becomes half-open only in the step that lets a call in; a   *)
(* call that was let in stays in flight until it records; every record     *)
(* makes the breaker open or closed; and the one way out that records      *)
(* nothing is Reraise.                                                     *)
(***************************************************************************)
EXTENDS LlmCalls, TLAPS

\* The attempt counter of a caller: where a wrapper starts, where its
\* function runs and where it goes round.
Fits(k) ==
    /\ k \in Call
    /\ k.pc # "stream" => k.n <= Retries
    /\ k.pc = "enter" => k.n = 0
    /\ k.pc = "call" => k.n > 0
    /\ k.pc = "twice" => k.n < Retries

Counting == \A c \in Callers : Fits(call[c])

BreakerAlone == UNCHANGED <<breaker, lost>>

IInv == TypeOK /\ Counting /\ ClosedBelowThreshold /\ HalfOpenHasProbe

-----------------------------------------------------------------------------

\* The fields of a caller.
LEMMA CallType ==
  ASSUME TypeOK, NEW c \in Callers
  PROVE  /\ call[c] \in Call
         /\ call[c].pc # "stream" => call[c].n \in 0..Retries
         /\ call[c].n \in Nat /\ call[c].outer \in 0..Retries
BY LlmAssumption DEF TypeOK, Call, At, LlmAssumption

\* A wrapper that ends leaves a caller of the right type, in the function of
\* the tool wrapper or in its own caller.
LEMMA EndedType ==
  ASSUME NEW k \in Call, NEW r \in Result, NEW typed \in BOOLEAN
  PROVE  /\ Fits(Ended(k, r, typed))
         /\ k.outer > 0 => Ended(k, r, typed).pc = "out"
BY LlmAssumption DEF Ended, Fits, Call, LlmAssumption

\* A wrapper that tries again does so below its limit.
LEMMA RetriedType ==
  ASSUME NEW k \in Call, k.n < Retries
  PROVE  Fits(Retried(k)) /\ Retried(k).pc = "call"
BY LlmAssumption DEF Retried, Fits, Call, Result, LlmAssumption

\* A wrapper is entered with its counter at zero.
LEMMA EnteringType ==
  ASSUME NEW k \in Call, NEW s \in Stage
  PROVE  /\ Fits(Entering(k, s))
         /\ Entering(k, s).pc = "enter"
         /\ Entering(k, s).outer = k.outer
BY LlmAssumption DEF Entering, Fits, Call, Result, LlmAssumption

\* Recording a success closes the breaker.
LEMMA SuccessCloses ==
  ASSUME breaker \in Breaker, RecordSuccess
  PROVE  /\ breaker' \in Breaker
         /\ breaker'.state # "HALF_OPEN"
         /\ breaker'.state = "CLOSED" => breaker'.failures < Threshold
<1>1. breaker' = [state |-> "CLOSED", failures |-> 0, probes |-> 0,
                  elapsed |-> breaker.elapsed]
  BY DEF RecordSuccess
<1> QED
  BY <1>1, LlmAssumption DEF Breaker, LlmAssumption

\* Recording a failure leaves the breaker open or closed, never half-open,
\* and closed only below the threshold.
LEMMA FailureDecides ==
  ASSUME breaker \in Breaker, RecordFailure
  PROVE  /\ breaker' \in Breaker
         /\ breaker'.state # "HALF_OPEN"
         /\ breaker'.state = "CLOSED" => breaker'.failures < Threshold
<1> DEFINE n == breaker.failures + 1
           opens == breaker.state = "HALF_OPEN" \/ n >= Threshold
<1>1. breaker' = [state |-> IF opens THEN "OPEN" ELSE breaker.state,
                  failures |-> IF n > Threshold THEN Threshold ELSE n,
                  probes |-> breaker.probes, elapsed |-> FALSE]
  BY DEF RecordFailure
<1> QED
  BY <1>1, LlmAssumption DEF Breaker, LlmAssumption

\* The lock section of allow_call keeps the type and never opens, closes or
\* counts; when it refuses, a half-open breaker was half-open before.
LEMMA AllowedBreaker ==
  ASSUME breaker \in Breaker
  PROVE  LET b == MaybeTransition(breaker) IN
         /\ b \in Breaker
         /\ ~Refuses(b) => Admitting(b) \in Breaker
         /\ b.failures = breaker.failures
         /\ Admitting(b).failures = breaker.failures
         /\ Admitting(b).state = b.state
         /\ b.state = "CLOSED" => breaker.state = "CLOSED"
         /\ Refuses(b) /\ b.state = "HALF_OPEN" => breaker.state = "HALF_OPEN"
<1>1. /\ MaybeTransition(breaker) \in Breaker
      /\ MaybeTransition(breaker).failures = breaker.failures
      /\ MaybeTransition(breaker).state = "CLOSED" => breaker.state = "CLOSED"
      /\ \/ MaybeTransition(breaker) = breaker
         \/ MaybeTransition(breaker).probes = 0
  BY LlmAssumption DEF Breaker, MaybeTransition, LlmAssumption
<1>2. ASSUME NEW b \in Breaker
      PROVE  /\ ~Refuses(b) => Admitting(b) \in Breaker
             /\ Admitting(b).failures = b.failures
             /\ Admitting(b).state = b.state
             /\ Refuses(b) /\ b.state = "HALF_OPEN" => b.probes # 0
  BY LlmAssumption DEF Breaker, Refuses, Admitting, LlmAssumption
<1> QED
  BY <1>1, <1>2

\* The history variable is a Boolean after each step.
LEMMA LostType ==
  ASSUME lost \in BOOLEAN, NEW c \in Callers, Start(c) \/ Step(c)
  PROVE  lost' \in BOOLEAN
<1>1. RecordSuccess \/ RecordFailure => lost' \in BOOLEAN
  BY Zenon DEF RecordSuccess, RecordFailure
<1>2. Reraise(c) => lost' \in BOOLEAN
  BY Zenon DEF Reraise
<1> QED
  BY <1>1, <1>2, Zenon
     DEF Step, Start, AllowCall, Attempt, FallBackInside, RecordTyped,
         RecordTransient, RecordTwice, RecordFinal, RecordFatal, StreamAttempt,
         FallBackToText, AskAgain, Return

\* One caller moves to k: enough to keep the types and the counters.
LEMMA Moved ==
  ASSUME TypeOK, Counting, NEW c \in Callers, NEW k, Fits(k), Set(c, k),
         breaker' \in Breaker, lost' \in BOOLEAN
  PROVE  /\ TypeOK' /\ Counting'
         /\ call'[c] = k
         /\ \A d \in Callers \ {c} : call'[d] = call[d]
BY DEF TypeOK, Counting, Fits, Set, At

\* After a record there is nothing to show of a half-open breaker.
LEMMA RecordedKeeps ==
  ASSUME TypeOK, RecordSuccess \/ RecordFailure
  PROVE  ClosedBelowThreshold' /\ HalfOpenHasProbe'
BY SuccessCloses, FailureDecides DEF TypeOK, ClosedBelowThreshold, HalfOpenHasProbe

\* The breaker is left alone and the caller that moves was not in flight, or
\* still is.
LEMMA InFlightKeeps ==
  ASSUME ClosedBelowThreshold, HalfOpenHasProbe, NEW c \in Callers,
         BreakerAlone,
         InFlight(c) => InFlight(c)',
         \A d \in Callers \ {c} : call'[d] = call[d]
  PROVE  ClosedBelowThreshold' /\ HalfOpenHasProbe'
BY DEF BreakerAlone, ClosedBelowThreshold, HalfOpenHasProbe, InFlight

-----------------------------------------------------------------------------

\* Every step of a thread keeps the invariant.
LEMMA StepKeeps ==
  ASSUME IInv, NEW c \in Callers, Start(c) \/ Step(c)
  PROVE  IInv'
<1> DEFINE k == call[c]
<1>0. /\ TypeOK /\ Counting /\ ClosedBelowThreshold /\ HalfOpenHasProbe
      /\ breaker \in Breaker
      /\ k \in Call /\ k.n \in Nat /\ k.outer \in 0..Retries
      /\ k.pc # "stream" => k.n \in 0..Retries
      /\ Retries \in Nat \ {0} /\ StreamRetries \in Nat
  BY CallType, LlmAssumption DEF IInv, TypeOK, LlmAssumption
<1>l. lost' \in BOOLEAN
  BY <1>0, LostType DEF TypeOK
<1>s. ASSUME NEW n \in 0..(StreamRetries + 1)
      PROVE  Fits(Streaming(n))
  BY <1>0 DEF Streaming, Fits, Call, Stage, Result
<1>i. Fits(Idle) /\ Idle \in Call
  BY <1>0 DEF Idle, Fits, Call, Stage, Result
\* Steps of a caller that the breaker has not let in.
<1>a. ASSUME NEW m, Fits(m), Set(c, m), BreakerAlone,
             k.pc \in {"idle", "stream", "up"}
      PROVE  IInv'
  <2>1. /\ TypeOK' /\ Counting' /\ call'[c] = m
        /\ \A d \in Callers \ {c} : call'[d] = call[d]
    BY <1>0, <1>l, <1>a, Moved DEF BreakerAlone
  <2>2. InFlight(c) => InFlight(c)'
    BY <1>a, <2>1 DEF InFlight
  <2> QED
    BY <1>0, <1>a, <2>1, <2>2, InFlightKeeps DEF IInv
\* An attempt that ends, to be recorded.
<1>b. ASSUME NEW m, Fits(m), Set(c, m), BreakerAlone,
             m.pc = "out"
      PROVE  IInv'
  <2>1. /\ TypeOK' /\ Counting' /\ call'[c] = m
        /\ \A d \in Callers \ {c} : call'[d] = call[d]
    BY <1>0, <1>l, <1>b, Moved DEF BreakerAlone
  <2>2. InFlight(c) => InFlight(c)'
    BY <1>b, <2>1 DEF InFlight
  <2> QED
    BY <1>0, <1>b, <2>1, <2>2, InFlightKeeps DEF IInv
\* A nested wrapper that is entered.
<1>n. ASSUME NEW m, Fits(m), Set(c, m), BreakerAlone,
             m.pc = "enter", m.outer > 0
      PROVE  IInv'
  <2>1. /\ TypeOK' /\ Counting' /\ call'[c] = m
        /\ \A d \in Callers \ {c} : call'[d] = call[d]
    BY <1>0, <1>l, <1>n, Moved DEF BreakerAlone
  <2>2. InFlight(c) => InFlight(c)'
    BY <1>n, <2>1 DEF InFlight
  <2> QED
    BY <1>0, <1>n, <2>1, <2>2, InFlightKeeps DEF IInv
\* Steps that record.
<1>r. ASSUME NEW m, Fits(m), Set(c, m), RecordSuccess \/ RecordFailure
      PROVE  IInv'
  <2>1. breaker' \in Breaker
    BY <1>0, <1>r, SuccessCloses, FailureDecides
  <2>2. TypeOK' /\ Counting'
    BY <1>0, <1>l, <1>r, <2>1, Moved
  <2> QED
    BY <1>0, <1>r, <2>2, RecordedKeeps DEF IInv
<1>1. CASE Start(c)
  <2>1. BreakerAlone /\ k.pc = "idle"
    BY <1>1 DEF Start, At, BreakerAlone
  <2>2. CASE \E s \in {"structured", "tool", "text"} : Set(c, Entering(Idle, s))
    <3>1. PICK s \in Stage : Set(c, Entering(Idle, s))
      BY <2>2 DEF Stage
    <3>2. Fits(Entering(Idle, s))
      BY <1>i, EnteringType
    <3> QED BY <1>0, <1>a, <2>1, <3>1, <3>2
  <2>3. CASE Set(c, Streaming(1))
    BY <1>0, <1>s, <1>a, <2>1, <2>3
  <2> QED BY <1>1, <2>2, <2>3 DEF Start
<1>2. CASE AllowCall(c)
  <2> DEFINE b == MaybeTransition(breaker)
  <2>1. /\ b \in Breaker
        /\ ~Refuses(b) => Admitting(b) \in Breaker
        /\ b.failures = breaker.failures
        /\ Admitting(b).failures = breaker.failures
        /\ Admitting(b).state = b.state
        /\ b.state = "CLOSED" => breaker.state = "CLOSED"
        /\ Refuses(b) /\ b.state = "HALF_OPEN" => breaker.state = "HALF_OPEN"
    BY <1>0, AllowedBreaker
  <2>2. k.pc = "enter" /\ k.n = 0 /\ lost' = lost
    BY <1>0, <1>2 DEF AllowCall, At, Counting, Fits
  <2>3. CASE Refuses(b) /\ breaker' = b /\ Set(c, Ended(k, "open", FALSE))
    <3>1. /\ Fits(Ended(k, "open", FALSE))
          /\ k.outer > 0 => Ended(k, "open", FALSE).pc = "out"
      BY <1>0, EndedType DEF Result
    <3>2. /\ TypeOK' /\ Counting'
          /\ call'[c] = Ended(k, "open", FALSE)
          /\ \A d \in Callers \ {c} : call'[d] = call[d]
      BY <1>0, <1>l, <2>1, <2>3, <3>1, Moved
    <3>3. ClosedBelowThreshold'
      BY <1>0, <2>1, <2>3 DEF ClosedBelowThreshold
    <3>4. InFlight(c) => InFlight(c)'
      BY <2>2, <3>1, <3>2 DEF InFlight
    <3>5. HalfOpenHasProbe'
      BY <1>0, <2>1, <2>2, <2>3, <3>2, <3>4 DEF HalfOpenHasProbe, InFlight
    <3> QED BY <3>2, <3>3, <3>5 DEF IInv
  <2>4. CASE ~Refuses(b) /\ breaker' = Admitting(b) /\ Set(c, Retried(k))
    <3>1. Fits(Retried(k)) /\ Retried(k).pc = "call"
      BY <1>0, <2>2, RetriedType
    <3>2. TypeOK' /\ Counting' /\ call'[c] = Retried(k)
      BY <1>0, <1>l, <2>1, <2>4, <3>1, Moved
    <3>3. ClosedBelowThreshold'
      BY <1>0, <2>1, <2>4 DEF ClosedBelowThreshold
    <3>4. HalfOpenHasProbe'
      BY <3>1, <3>2 DEF HalfOpenHasProbe, InFlight
    <3> QED BY <3>2, <3>3, <3>4 DEF IInv
  <2> QED BY <1>2, <2>3, <2>4 DEF AllowCall
<1>3. CASE Attempt(c)
  <2>1. PICK r \in {"ok", "busy", "cut", "fail", "reject"} :
            Set(c, [pc |-> "out", stage |-> k.stage, n |-> k.n, outer |-> k.outer,
                    res |-> r, typed |-> k.stage = "structured" /\ r = "busy"])
    BY <1>3 DEF Attempt
  <2> DEFINE m == [pc |-> "out", stage |-> k.stage, n |-> k.n, outer |-> k.outer,
                   res |-> r, typed |-> k.stage = "structured" /\ r = "busy"]
  <2>2. k.pc = "call" /\ BreakerAlone
    BY <1>3 DEF Attempt, At, BreakerAlone
  <2>3. Fits(m) /\ m.pc = "out"
    BY <1>0, <2>2 DEF Fits, Call, Result
  <2>4. Set(c, m)
    BY <2>1
  <2> HIDE DEF m
  <2> QED BY <1>b, <2>2, <2>3, <2>4
<1>4. CASE FallBackInside(c)
  <2> DEFINE m == Entering([k EXCEPT !.outer = k.n], "tool")
  <2>1. k.pc = "call" /\ BreakerAlone /\ Set(c, m)
    BY <1>4 DEF FallBackInside, At, BreakerAlone
  <2>2. k.n > 0 /\ k.n \in 0..Retries
    BY <1>0, <2>1 DEF Counting, Fits
  <2>3. [k EXCEPT !.outer = k.n] \in Call /\ [k EXCEPT !.outer = k.n].outer = k.n
    BY <1>0, <2>2 DEF Call
  <2>4. Fits(m) /\ m.pc = "enter" /\ m.outer = k.n
    BY <2>3, EnteringType DEF Stage
  <2>5. m.outer > 0
    BY <2>2, <2>4
  <2> HIDE DEF m
  <2> QED BY <1>n, <2>1, <2>4, <2>5
<1>5. CASE RecordTyped(c) \/ RecordTransient(c)
  <2>1. /\ RecordFailure /\ k.pc = "out"
        /\ \/ LastAttempt(k) /\ Set(c, Ended(k, k.res, TRUE))
           \/ ~LastAttempt(k) /\ Set(c, Retried(k))
           \/ ~LastAttempt(k) /\ Set(c, [k EXCEPT !.pc = "twice"])
    BY <1>5, Zenon DEF RecordTyped, RecordTransient, At
  <2>2. CASE Set(c, Ended(k, k.res, TRUE))
    <3>1. k.res \in Result
      BY <1>0 DEF Call
    <3>2. Fits(Ended(k, k.res, TRUE))
      BY <1>0, <3>1, EndedType
    <3> QED BY <1>0, <1>r, <2>1, <2>2, <3>2
  <2>3. CASE ~LastAttempt(k) /\ Set(c, Retried(k))
    <3>1. k.n < Retries
      BY <1>0, <2>3 DEF LastAttempt
    <3>2. Fits(Retried(k)) /\ Retried(k).pc = "call"
      BY <1>0, <3>1, RetriedType
    <3> QED BY <1>0, <1>r, <2>1, <2>3, <3>2
  <2>4. CASE ~LastAttempt(k) /\ Set(c, [k EXCEPT !.pc = "twice"])
    <3> DEFINE m == [k EXCEPT !.pc = "twice"]
    <3>1. k.n < Retries
      BY <1>0, <2>4 DEF LastAttempt
    <3>2. m \in Call /\ m.pc = "twice" /\ m.n = k.n
      BY <1>0 DEF Call
    <3>3. Set(c, m)
      BY <2>4
    <3> HIDE DEF m
    <3>4. Fits(m)
      BY <1>0, <3>1, <3>2 DEF Fits
    <3> QED BY <1>r, <2>1, <3>3, <3>4
  <2> QED BY <2>1, <2>2, <2>3, <2>4
<1>6. CASE RecordTwice(c)
  <2>1. RecordFailure /\ Set(c, Retried(k)) /\ k.n < Retries
    BY <1>0, <1>6 DEF RecordTwice, At, Counting, Fits
  <2>2. Fits(Retried(k)) /\ Retried(k).pc = "call"
    BY <1>0, <2>1, RetriedType
  <2> QED BY <1>0, <1>r, <2>1, <2>2
<1>7. CASE RecordFinal(c) \/ RecordFatal(c)
  <2>1. PICK r \in Result : Set(c, Ended(k, r, FALSE))
    BY <1>7 DEF RecordFinal, RecordFatal, Result
  <2>2. RecordSuccess \/ RecordFailure
    BY <1>7 DEF RecordFinal, RecordFatal
  <2>3. Fits(Ended(k, r, FALSE))
    BY <1>0, EndedType
  <2> QED BY <1>0, <1>r, <2>1, <2>2, <2>3
<1>8. CASE Reraise(c)
  <2>1. /\ breaker' = breaker /\ Set(c, Ended(k, "open", FALSE))
        /\ breaker.state = "HALF_OPEN" => lost'
    BY <1>8, Zenon DEF Reraise
  <2>2. Fits(Ended(k, "open", FALSE))
    BY <1>0, EndedType DEF Result
  <2>3. TypeOK' /\ Counting'
    BY <1>0, <1>l, <2>1, <2>2, Moved
  <2>4. ClosedBelowThreshold'
    BY <1>0, <2>1 DEF ClosedBelowThreshold
  <2>5. HalfOpenHasProbe'
    BY <2>1 DEF HalfOpenHasProbe
  <2> QED BY <2>3, <2>4, <2>5 DEF IInv
<1>9. CASE StreamAttempt(c)
  <2>1. k.pc = "stream" /\ BreakerAlone
    BY <1>9 DEF StreamAttempt, At, BreakerAlone
  <2>2. CASE Set(c, Idle)
    BY <1>0, <1>i, <1>a, <2>1, <2>2
  <2>3. CASE k.n <= StreamRetries /\ Set(c, Streaming(k.n + 1))
    <3>1. k.n + 1 \in 0..(StreamRetries + 1)
      BY <1>0, <2>3
    <3>2. Fits(Streaming(k.n + 1))
      BY <1>s, <3>1
    <3> QED BY <1>a, <2>1, <2>3, <3>2
  <2>4. CASE \E s \in {"tool", "text"} : Set(c, Entering(k, s))
    <3>1. PICK s \in Stage : Set(c, Entering(k, s))
      BY <2>4 DEF Stage
    <3>2. Fits(Entering(k, s))
      BY <1>0, EnteringType
    <3> QED BY <1>0, <1>a, <2>1, <3>1, <3>2
  <2> QED BY <1>9, <2>2, <2>3, <2>4 DEF StreamAttempt
<1>10. CASE FallBackToText(c) \/ AskAgain(c)
  <2>1. k.pc = "up" /\ BreakerAlone
    BY <1>10 DEF FallBackToText, AskAgain, At, BreakerAlone
  <2>2. PICK s \in Stage : Set(c, Entering(k, s))
    BY <1>10 DEF FallBackToText, AskAgain, Stage
  <2>3. Fits(Entering(k, s))
    BY <1>0, EnteringType
  <2> QED BY <1>0, <1>a, <2>1, <2>2, <2>3
<1>11. CASE Return(c)
  <2>1. k.pc = "up" /\ BreakerAlone /\ Set(c, Idle)
    BY <1>11 DEF Return, At, BreakerAlone
  <2> QED BY <1>0, <1>i, <1>a, <2>1
<1> QED
  BY <1>1, <1>2, <1>3, <1>4, <1>5, <1>6, <1>7, <1>8, <1>9, <1>10, <1>11 DEF Step

\* The recovery timeout changes nothing that the invariant speaks of.
LEMMA ElapseKeeps ==
  ASSUME IInv, Elapse
  PROVE  IInv'
<1>1. breaker \in Breaker
  BY DEF IInv, TypeOK
<1>2. /\ breaker' \in Breaker /\ breaker'.state = breaker.state
      /\ breaker'.failures = breaker.failures
  BY <1>1 DEF Elapse, Breaker
<1>3. call' = call /\ lost' = lost
  BY DEF Elapse
<1> QED
  BY <1>2, <1>3
     DEF IInv, TypeOK, Counting, ClosedBelowThreshold, HalfOpenHasProbe, InFlight, At

\* The invariant holds of every reachable state of the retry wrapper and the
\* breaker: IInv is inductive.
THEOREM Invariance == Spec => []IInv
<1>1. Init => IInv
  <2> SUFFICES ASSUME Init PROVE IInv
    OBVIOUS
  <2>1. Idle \in Call /\ Fits(Idle) /\ Idle.n = 0
    BY LlmAssumption DEF Idle, Fits, Call, Stage, Result, LlmAssumption
  <2>2. breaker \in Breaker /\ breaker.state = "CLOSED" /\ breaker.failures = 0
    BY LlmAssumption DEF Init, Breaker, LlmAssumption
  <2>3. lost \in BOOLEAN
    BY Zenon DEF Init
  <2>4. call = [c \in Callers |-> Idle]
    BY DEF Init
  <2> QED
    BY <2>1, <2>2, <2>3, <2>4, LlmAssumption
       DEF IInv, TypeOK, Counting, ClosedBelowThreshold, HalfOpenHasProbe, At, LlmAssumption
<1>2. IInv /\ [Next]_vars => IInv'
  <2> SUFFICES ASSUME IInv, [Next]_vars PROVE IInv'
    OBVIOUS
  <2>1. CASE Next
    BY <2>1, StepKeeps, ElapseKeeps DEF Next
  <2>2. CASE UNCHANGED vars
    BY <2>2 DEF vars, IInv, TypeOK, Counting, ClosedBelowThreshold, HalfOpenHasProbe, InFlight, At
  <2> QED BY <2>1, <2>2
<1> QED
  BY <1>1, <1>2, PTL DEF Spec

\* A half-open breaker always has a call in flight that will decide it, save
\* for the one path that loses it: record_success, record_failure and
\* allow_call of any number of threads in any order.
THEOREM HalfOpenHasProbeHolds == Spec => []HalfOpenHasProbe
<1>1. IInv => HalfOpenHasProbe
  BY DEF IInv
<1> QED
  BY <1>1, Invariance, PTL

\* The types of breaker and calls, the probe of the half-open breaker, and the
\* closed breaker below its threshold.
THEOREM BreakerCorrect == Spec => []BreakerSound
<1>1. IInv => BreakerSound
  BY DEF IInv, BreakerSound
<1> QED
  BY <1>1, Invariance, PTL
=============================================================================
