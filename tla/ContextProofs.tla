---------------------------- MODULE ContextProofs ----------------------------
(***************************************************************************)
(* The token budget, the evidence of a turn, the session controller and    *)
(* the knowledge store, for every value of the constants.  A behaviour of  *)
(* MCContext belongs to one of its parts, so each has an inductive         *)
(* invariant of its own.                                                   *)
(***************************************************************************)
EXTENDS MCContext, Integers, FiniteSets, Sequences, FiniteSetTheorems, SequenceTheorems,
        WellFoundedInduction, TLAPS

-----------------------------------------------------------------------------
(* The token budget (TokenBudget)                                          *)

BudgetRows == [used : Nat, billed : Nat, exhausted : BOOLEAN, downgraded : BOOLEAN]
Ways == {"billed", "estimated"}

BudgetTypeInv ==
    /\ v1 \in BudgetRows /\ v2 \in BudgetRows /\ v3 \in BOOLEAN
    /\ v4 \in Nat /\ v5 \in Nat /\ v6 \subseteq Ways /\ v7 \in BOOLEAN

\* A context or a state that has counted everything spent: the billed part is
\* all of it or nothing, by the way in which the calls were counted.
BilledSo(c) ==
    /\ "estimated" \notin v6 => c.billed = v4
    /\ "billed" \notin v6 => c.billed = 0

\* While a node is at work its context has counted all that was spent, and the
\* state shows either the same or the billed part; between the nodes the state
\* has all of it.
BudgetKept ==
    ~ v7 /\ v6 # Ways =>
        /\ BilledSo(v1)
        /\ ~ v3 => v1.used = v4
        /\ v3 => /\ BilledSo(v2) /\ v2.used = v4
                 /\ v1.used = v2.used \/ v1.used = v2.billed

BudgetInv == part = "budget" => BudgetTypeInv /\ BudgetKept /\ B!BudgetSpansNodes

LEMMA BudgetStart == Init => BudgetInv
<1> SUFFICES ASSUME part = "budget", B!BudgetInit
             PROVE  BudgetTypeInv /\ BudgetKept /\ B!BudgetSpansNodes
  BY DEF Init, BudgetInv
<1>1. TokenLimit \in Nat /\ AnswerTokens \subseteq Nat
  BY ContextAssumptions DEF B!BudgetAssumption
<1>2. BudgetTypeInv /\ BudgetKept
  BY DEF B!BudgetInit, B!Fresh, B!Counters, BudgetTypeInv, BudgetRows, BudgetKept, BilledSo
<1>3. B!BudgetSpansNodes
  BY <1>1 DEF B!BudgetInit, B!BudgetSpansNodes
<1> QED  BY <1>2, <1>3

LEMMA BudgetTypes == ASSUME BudgetTypeInv, B!BudgetNext PROVE BudgetTypeInv'
<1> USE DEF BudgetTypeInv, BudgetRows
<1>1. PromptTokens \subseteq Nat /\ AnswerTokens \subseteq Nat
  BY ContextAssumptions DEF B!BudgetAssumption
<1>2. B!Fresh \in BudgetRows  BY DEF B!Fresh, B!Counters
<1>3. CASE B!StartPlanning  BY <1>2, <1>3 DEF B!StartPlanning
<1>4. CASE B!StartReasoning  BY <1>4 DEF B!StartReasoning, B!ContextFromState
<1>5. ASSUME NEW p \in PromptTokens, B!Refuse(p) PROVE BudgetTypeInv'
  BY <1>5 DEF B!Refuse
<1>6. ASSUME NEW p \in PromptTokens, NEW a \in AnswerTokens, NEW billed \in BOOLEAN,
             B!Invoke(p, a, billed)
      PROVE  BudgetTypeInv'
  <2>1. v2' = B!AfterInvoke(v2, p, a, billed) /\ v1' = B!Recorded(v2')
    BY <1>6 DEF B!Invoke
  <2>2. p \in Nat /\ a \in Nat  BY <1>1
  <2>3. v2' \in BudgetRows
    <3> DEFINE used == v2.used + p + a
               bill == v2.billed + (IF billed THEN p + a ELSE 0)
               out == v2.exhausted \/ used >= TokenLimit
               down == v2.downgraded \/ B!Near(p)
    <3>1. used \in Nat /\ bill \in Nat  BY <2>2
    <3>2. out \in BOOLEAN /\ down \in BOOLEAN  OBVIOUS
    <3>3. v2' = [used |-> used, billed |-> bill, exhausted |-> out, downgraded |-> down]
      BY <2>1, Zenon DEF B!AfterInvoke, B!Counters
    <3> HIDE DEF used, bill, out, down
    <3> QED  BY <3>1, <3>2, <3>3
  <2>4. v1' \in BudgetRows  BY <2>1, <2>3 DEF B!Recorded
  <2>5. v3' = v3 /\ v7' = v7 /\ v4' = v4 + p + a /\ v5' = v5 + 1 /\ v6' \subseteq Ways
    BY <1>6 DEF B!Invoke, Ways
  <2> QED  BY <2>2, <2>3, <2>4, <2>5
<1>7. ASSUME NEW fails \in BOOLEAN, B!EndNode(fails) PROVE BudgetTypeInv'
  BY <1>7 DEF B!EndNode, B!AppliedBudget
<1> QED  BY <1>3, <1>4, <1>5, <1>6, <1>7 DEF B!BudgetNext

\* A new context, from the state or fresh, has counted what was spent.
LEMMA StartKeeps ==
    ASSUME BudgetTypeInv, BudgetKept, B!StartPlanning \/ B!StartReasoning
    PROVE  BudgetKept'
<1> USE DEF BudgetTypeInv, BudgetRows
<1> SUFFICES ASSUME ~ v7', v6' # Ways
             PROVE  /\ BilledSo(v1)' /\ v3' /\ BilledSo(v2)' /\ v2'.used = v4'
                    /\ v1'.used = v2'.used
  BY DEF BudgetKept
<1>1. CASE B!StartPlanning
  <2>1. v4' = v4 /\ v1' = B!Fresh /\ v2' = B!Fresh /\ v3' = TRUE /\ v7' = (v7 \/ v4 > 0)
    BY <1>1, Zenon DEF B!StartPlanning
  <2>2. ~ (v4 > 0)  BY <2>1, Zenon
  <2>3. v4 = 0 /\ v4' = 0  BY <2>1, <2>2
  <2> QED  BY <2>1, <2>3 DEF B!Fresh, B!Counters, BilledSo
<1>2. CASE B!StartReasoning
  <2>1. /\ ~ v3 /\ v3' = TRUE /\ v1' = v1 /\ v2' = v1
        /\ v4' = v4 /\ v6' = v6 /\ v7' = v7
    BY <1>2 DEF B!StartReasoning, B!ContextFromState
  <2>2. BilledSo(v1) /\ v1.used = v4  BY <2>1 DEF BudgetKept
  <2> QED  BY <2>1, <2>2 DEF BilledSo
<1> QED  BY <1>1, <1>2

\* A call counts the same in the context and in what was spent; the limit was
\* asked before.
LEMMA InvokeKeeps ==
    ASSUME BudgetTypeInv, BudgetKept, B!BudgetSpansNodes,
           NEW p \in PromptTokens, NEW a \in AnswerTokens, NEW billed \in BOOLEAN,
           B!Invoke(p, a, billed)
    PROVE  BudgetKept' /\ B!BudgetSpansNodes'
<1> USE DEF BudgetTypeInv, BudgetRows
<1> DEFINE more == IF billed THEN p + a ELSE 0
<1>0. TokenLimit \in Nat /\ p \in Nat /\ a \in Nat /\ AnswerTokens \subseteq Nat
  BY ContextAssumptions DEF B!BudgetAssumption
<1>1. /\ v3 /\ v3' = v3 /\ v7' = v7 /\ v4' = v4 + p + a
      /\ v6' = v6 \cup {IF billed THEN "billed" ELSE "estimated"}
      /\ v2.used + p <= TokenLimit
      /\ v1' = [v2' EXCEPT !.used = v2'.billed]
  BY DEF B!Invoke, B!MayInvoke, B!Recorded
<1>2. v2'.used = v2.used + p + a /\ v2'.billed = v2.billed + more
  BY DEF B!Invoke, B!AfterInvoke, B!Counters
<1>3. v2' \in BudgetRows
  BY BudgetTypes DEF B!BudgetNext
<1>4. v1'.used = v2'.billed /\ v1'.billed = v2'.billed  BY <1>1, <1>3
<1>5. ASSUME ~ v7', v6' # Ways
      PROVE  /\ v2.used = v4
             /\ "estimated" \notin v6' => v2'.billed = v4'
             /\ "billed" \notin v6' => v2'.billed = 0
  <2>1. v6 # Ways /\ ~ v7  BY <1>1, <1>5 DEF Ways
  <2>2. BilledSo(v2) /\ v2.used = v4  BY <1>1, <2>1 DEF BudgetKept
  <2>3. CASE billed
    <3>1. "billed" \in v6' /\ "estimated" \notin v6 /\ v2.billed = v4
      BY <1>1, <1>5, <2>2, <2>3 DEF Ways, BilledSo
    <3>2. v2'.billed = v4'  BY <1>0, <1>1, <1>2, <2>3, <3>1
    <3> QED  BY <2>2, <3>1, <3>2
  <2>4. CASE ~ billed
    <3>1. "estimated" \in v6' /\ "billed" \notin v6 /\ v2.billed = 0
      BY <1>1, <1>5, <2>2, <2>4 DEF Ways, BilledSo
    <3>2. v2'.billed = 0  BY <1>2, <2>4, <3>1
    <3> QED  BY <2>2, <3>1, <3>2
  <2> QED  BY <2>3, <2>4
<1>6. BudgetKept'
  <2> SUFFICES ASSUME ~ v7', v6' # Ways
               PROVE  /\ BilledSo(v1)' /\ v3' /\ BilledSo(v2)' /\ v2'.used = v4'
                      /\ v1'.used = v2'.billed
    BY DEF BudgetKept
  <2>1. v2'.used = v4'  BY <1>0, <1>1, <1>2, <1>5
  <2> QED  BY <1>1, <1>4, <1>5, <2>1 DEF BilledSo
<1>7. B!BudgetSpansNodes'
  <2> SUFFICES ASSUME ~ v7', v6' # Ways, NEW b \in AnswerTokens, \A c \in AnswerTokens : c <= b
               PROVE  v4' <= TokenLimit + b
    BY DEF B!BudgetSpansNodes, Ways
  <2>1. a <= b /\ b \in Nat  BY <1>0
  <2> QED  BY <1>0, <1>1, <1>5, <2>1
<1> QED  BY <1>6, <1>7

\* At the end of a node the state has what the context counted, unless it
\* forgets what was not billed.
LEMMA EndKeeps ==
    ASSUME BudgetTypeInv, BudgetKept,
           (\E fails \in BOOLEAN : B!EndNode(fails)) \/ (\E p \in PromptTokens : B!Refuse(p))
    PROVE  BudgetKept'
<1> USE DEF BudgetTypeInv, BudgetRows
<1> SUFFICES ASSUME ~ v7', v6' # Ways PROVE BilledSo(v1)' /\ ~ v3' /\ v1'.used = v4'
  BY DEF BudgetKept
<1>1. v3 /\ v3' = FALSE /\ v4' = v4 /\ v6' = v6
  BY DEF B!EndNode, B!Refuse
<1>2. ~ v7  BY DEF B!EndNode, B!Refuse
<1>3. /\ BilledSo(v1) /\ BilledSo(v2) /\ v2.used = v4
      /\ v1.used = v2.used \/ v1.used = v2.billed
  BY <1>1, <1>2 DEF BudgetKept
<1>4. CASE v1' = v1 /\ ~ B!Unbilled
  <2>1. v2.used = v2.billed  BY <1>4 DEF B!Unbilled
  <2> QED  BY <1>1, <1>3, <1>4, <2>1 DEF BilledSo
<1>5. CASE v1' = B!AppliedBudget(v2)
  <2>1. v1'.billed = v2.billed /\ v1'.used = (IF v2.billed > 0 THEN v2.billed ELSE v2.used)
    BY <1>5 DEF B!AppliedBudget
  <2>2. "estimated" \in v6 => "billed" \notin v6  BY <1>1 DEF Ways
  <2>3. v1'.used = v4  BY <1>3, <2>1, <2>2 DEF BilledSo
  <2> QED  BY <1>1, <1>3, <2>1, <2>3 DEF BilledSo
<1> QED  BY <1>4, <1>5 DEF B!EndNode, B!Refuse

LEMMA BudgetSteps == BudgetInv /\ [Next]_vars => BudgetInv'
<1> SUFFICES ASSUME BudgetInv, [Next]_vars, part' = "budget"
             PROVE  BudgetTypeInv' /\ BudgetKept' /\ B!BudgetSpansNodes'
  BY DEF BudgetInv
<1>1. CASE UNCHANGED vars
  <2>1. v1' = v1 /\ v2' = v2 /\ v3' = v3 /\ v4' = v4 /\ v5' = v5 /\ v6' = v6 /\ v7' = v7
        /\ part = "budget"
    BY <1>1 DEF vars
  <2> QED
    BY <2>1 DEF BudgetInv, BudgetTypeInv, BudgetKept, BilledSo, B!BudgetSpansNodes
<1>2. CASE Next
  <2>1. B!BudgetNext /\ BudgetTypeInv /\ BudgetKept /\ B!BudgetSpansNodes
    BY <1>2 DEF Next, BudgetInv
  <2>2. BudgetTypeInv'  BY <2>1, BudgetTypes
  <2>3. ASSUME NEW p \in PromptTokens, NEW a \in AnswerTokens, NEW billed \in BOOLEAN,
               B!Invoke(p, a, billed)
        PROVE  BudgetKept' /\ B!BudgetSpansNodes'
    BY <2>1, <2>3, InvokeKeeps
  <2>4. ASSUME B!StartPlanning \/ B!StartReasoning \/ (\E fails \in BOOLEAN : B!EndNode(fails))
                  \/ (\E p \in PromptTokens : B!Refuse(p))
        PROVE  BudgetKept' /\ B!BudgetSpansNodes'
    <3>1. BudgetKept'  BY <2>1, <2>4, StartKeeps, EndKeeps
    <3>2. v4' = v4 /\ v6' = v6
      BY <2>4, Zenon DEF B!StartPlanning, B!StartReasoning, B!EndNode, B!Refuse
    <3>3. v7 => v7'
      BY <2>4, Zenon DEF B!StartPlanning, B!StartReasoning, B!EndNode, B!Refuse
    <3>4. B!BudgetSpansNodes'  BY <2>1, <3>2, <3>3 DEF B!BudgetSpansNodes
    <3> QED  BY <3>1, <3>4
  <2> QED  BY <2>1, <2>2, <2>3, <2>4 DEF B!BudgetNext
<1> QED  BY <1>1, <1>2

\* For every limit and all sizes of prompts and answers: as long as the calls of
\* a turn are counted in one way and nothing was forgotten, all of them together
\* stay within the limit, but for the last answer
\* (resource_budget.BudgetContext, apply_to_state).
THEOREM BudgetSpansNodesHolds == Spec => []BudgetSpansNodes
<1>1. BudgetInv => BudgetSpansNodes  BY DEF BudgetInv, BudgetSpansNodes
<1> QED  BY <1>1, BudgetStart, BudgetSteps, PTL DEF Spec

-----------------------------------------------------------------------------
(* The evidence of a turn (Evidence)                                       *)

\* Records with the fields of efound and ev.
EvidenceShapes ==
    /\ v8 = [ver |-> v8.ver, hits |-> v8.hits, raced |-> v8.raced]
    /\ v9 = [know |-> v9.know, memory |-> v9.memory, packets |-> v9.packets, of |-> v9.of,
             conflicts |-> v9.conflicts, verdict |-> v9.verdict, backed |-> v9.backed]

\* A result on its way to the cache is the store's, unless an upload came in between.
FoundIsCurrent == v6 = "put" /\ ~ v8.raced => v8.ver = v1

\* A verdict is that of an answer that went out, and what it rests on is still there.
FactualBacked == v9.verdict = "rag" /\ E!FactualMode(v7.mode) => v9.backed /\ v9.conflicts = {}
UnguardedHasNone == v9.verdict = "skip" /\ E!FactualMode(v7.mode) => ~ E!Injected
VerdictsBacked ==
    /\ v6 # "idle" => v9.verdict = "none"
    /\ FactualBacked /\ UnguardedHasNone

\* Hits are finitely many, on their way to the cache and in it, and what the
\* pipeline let through fits its budget.
SizesSound ==
    /\ IsFiniteSet(DOMAIN v8.hits) /\ IsFiniteSet(DOMAIN v3.hits)
    /\ E!Spent(v9.packets) <= EvidenceBudget

EvidenceState ==
    EvidenceShapes /\ FoundIsCurrent /\ E!CacheSeesUploads /\ VerdictsBacked

EvidenceInv == part = "evidence" => EvidenceState /\ SizesSound

\* A set of numbers has a least element, and a bounded one a greatest.
LEMMA LeastNat == ASSUME NEW T, T \subseteq Nat, T # {} PROVE \E n \in T : \A m \in T : n <= m
<1> DEFINE less == {ss \in Nat \X Nat : ss[1] < ss[2]}
<1>1. IsWellFoundedOn(less, Nat)  BY NatLessThanWellFounded DEF OpToRel
<1>2. \A m, n \in Nat : m < n => <<m, n>> \in less  OBVIOUS
<1> HIDE DEF less
<1>3. PICK x \in T : \A y \in T : ~ (<<y, x>> \in less)  BY <1>1, WFMin
<1>4. ASSUME NEW m \in T PROVE x <= m
  <2>1. m \in Nat /\ x \in Nat  BY <1>3
  <2>2. ~ (m < x)  BY <1>2, <1>3, <2>1
  <2> QED  BY <2>1, <2>2
<1> QED  BY <1>4

LEMMA GreatestNat ==
    ASSUME NEW b \in Nat, NEW T, T \subseteq 0 .. b, T # {}
    PROVE  \E n \in T : \A m \in T : m <= n
<1> DEFINE U == {m \in 0 .. b : b - m \in T}
<1>1. U \subseteq Nat /\ U # {}
  <2>1. PICK m \in T : TRUE  OBVIOUS
  <2>2. b - m \in U  BY <2>1
  <2>3. U # {}  BY <2>2
  <2> QED  BY <2>3
<1>2. PICK k \in U : \A m \in U : k <= m  BY <1>1, LeastNat
<1>3. ASSUME NEW m \in T PROVE m <= b - k
  <2>1. b - m \in U  OBVIOUS
  <2>2. k <= b - m  BY <1>2, <2>1
  <2> QED  BY <1>2, <2>2
<1> QED  BY <1>2, <1>3

\* Packets that fit the budget are the longest such beginning: there is one,
\* for no packets cost nothing.
LEMMA SpentNone == E!Spent(<<>>) = 0
<1> DEFINE none == DOMAIN <<>>
           sum(h) == [s \in SUBSET none |->
                        IF s = {} THEN 0 ELSE LET x == E!Max(s) IN h[s \ {x}] + <<>>[x].size]
           iter == CHOOSE h : h = sum(h)
<1>1. E!Spent(<<>>) = iter[none]
  BY DEF E!Spent, E!FoldLeft, E!MapThenFoldSet
<1>2. none = {}  OBVIOUS
<1>3. iter = sum(iter)
  <2> DEFINE h == [s \in SUBSET none |-> 0]
  <2>1. h = sum(h)  BY <1>2
  <2> HIDE DEF h, sum
  <2> QED  BY <2>1
<1>4. none \in SUBSET none  OBVIOUS
<1> HIDE DEF iter, none
<1>5. iter[none] = 0  BY <1>2, <1>3, <1>4
<1> QED  BY <1>1, <1>5

\* Sizes of sets in Evidence.
LEMMA EvidenceCount == ASSUME NEW X PROVE E!Cardinality(X) = Cardinality(X)
BY Zenon DEF E!Cardinality, Cardinality, E!IsFiniteSet, IsFiniteSet

\* What is selected of finitely many candidates is a sequence.
LEMMA SelectedSeq ==
    ASSUME NEW s, IsFiniteSet(DOMAIN s), NEW numbers
    PROVE  \E values : E!Selected(s, numbers) \in Seq(values)
<1> DEFINE at == numbers \cap DOMAIN s
           m == E!Cardinality(at)
           e(n) == s[CHOOSE i \in at : E!Cardinality({j \in at : j <= i}) = n]
           p == [n \in 1 .. m |-> e(n)]
           values == {e(n) : n \in 1 .. m}
<1>1. m \in Nat  BY FS_Subset, FS_CardinalityType, EvidenceCount
<1>3. p = E!Selected(s, numbers)  BY DEF E!Selected
<1> HIDE DEF m, e
<1>2. p \in [1 .. m -> values]  OBVIOUS
<1> HIDE DEF p, values
<1>4. p \in Seq(values)  BY <1>1, <1>2
<1> QED  BY <1>3, <1>4

LEMMA BudgetMet ==
    ASSUME NEW values, NEW p \in Seq(values)
    PROVE  E!Spent(E!WithinBudget(p)) <= EvidenceBudget
<1> DEFINE fit == {n \in 0 .. Len(p) : E!Spent(SubSeq(p, 1, n)) <= EvidenceBudget}
           best == CHOOSE n \in fit : \A k \in fit : k <= n
<1>1. 0 \in fit
  <2>1. SubSeq(p, 1, 0) = <<>>  OBVIOUS
  <2>2. EvidenceBudget \in Nat  BY ContextAssumptions DEF E!EvidenceAssumption
  <2>3. E!Spent(SubSeq(p, 1, 0)) = 0  BY <2>1, SpentNone
  <2>4. 0 \in 0 .. Len(p)  OBVIOUS
  <2> QED  BY <2>2, <2>3, <2>4
<1>2. \E n \in fit : \A k \in fit : k <= n
  <2>1. Len(p) \in Nat /\ fit \subseteq 0 .. Len(p)  OBVIOUS
  <2> HIDE DEF fit
  <2> QED  BY <1>1, <2>1, GreatestNat
<1>3. best \in fit  BY <1>2
<1>4. E!WithinBudget(p) = SubSeq(p, 1, best)  BY DEF E!WithinBudget
<1> QED  BY <1>3, <1>4

LEMMA SelectedDomain ==
    ASSUME NEW s, IsFiniteSet(DOMAIN s), NEW numbers
    PROVE  IsFiniteSet(DOMAIN E!Selected(s, numbers))
<1>1. PICK values : E!Selected(s, numbers) \in Seq(values)  BY SelectedSeq
<1>2. DOMAIN E!Selected(s, numbers) = 1 .. Len(E!Selected(s, numbers))
      /\ Len(E!Selected(s, numbers)) \in Nat
  BY <1>1
<1> QED  BY <1>2, FS_Interval

\* Whatever gate and deduplication leave is a sequence, so its packets fit.
LEMMA PipelineFits ==
    ASSUME NEW hits, IsFiniteSet(DOMAIN hits), NEW need
    PROVE  E!Spent(E!EvidencePipeline(hits, need).packets) <= EvidenceBudget
<1>1. EvidenceBudget \in Nat  BY ContextAssumptions DEF E!EvidenceAssumption
<1>2. CASE ~ need
  <2>1. E!EvidencePipeline(hits, need).packets = <<>>  BY <1>2 DEF E!EvidencePipeline
  <2> QED  BY <1>1, <2>1, SpentNone
<1>3. CASE need
  <2> DEFINE through == E!AdmissionGate(hits, v4)
             admitted == E!Deduplicated(through)
  <2>1. E!EvidencePipeline(hits, need).packets = E!WithinBudget(admitted)
    BY <1>3 DEF E!EvidencePipeline
  <2>2. \A cands, mode : DOMAIN E!AdmissionPass(cands, mode) = DOMAIN cands
    BY Zenon DEF E!AdmissionPass
  <2>3. IsFiniteSet(DOMAIN through)
    <3>1. CASE v4 = "soft"
      <4>1. through = E!AdmissionPass(E!AdmissionPass(hits, "soft"), "hard")
        BY <3>1 DEF E!AdmissionGate
      <4> QED  BY <2>2, <4>1
    <3>2. CASE v4 # "soft"
      <4> DEFINE marked == E!AdmissionPass(hits, "hard")
      <4>1. through = E!Selected(marked, {i \in DOMAIN marked : marked[i].passed})
        BY <3>2 DEF E!AdmissionGate
      <4>2. IsFiniteSet(DOMAIN marked)  BY <2>2
      <4> QED  BY <4>1, <4>2, SelectedDomain
    <3> QED  BY <3>1, <3>2
  <2> HIDE DEF through
  <2>4. \E numbers : admitted = E!Selected(through, numbers)  BY DEF E!Deduplicated
  <2>5. PICK values : admitted \in Seq(values)  BY <2>3, <2>4, SelectedSeq
  <2> HIDE DEF admitted
  <2> QED  BY <2>1, <2>5, BudgetMet
<1> QED  BY <1>2, <1>3

\* A search finds finitely many hits.
LEMMA SearchedFinite ==
    ASSUME NEW hits \in E!SeqOf(E!Cands, MaxHits) PROVE IsFiniteSet(DOMAIN hits)
<1>1. PICK m \in 0 .. MaxHits : hits \in [1 .. m -> E!Cands]  BY DEF E!SeqOf
<1>2. MaxHits \in Nat  BY ContextAssumptions DEF E!EvidenceAssumption
<1>3. m \in Nat /\ DOMAIN hits = 1 .. m  BY <1>1, <1>2
<1> QED  BY <1>3, FS_Interval

LEMMA EvidenceStart == Init => EvidenceInv
<1> SUFFICES ASSUME E!EvidenceInit PROVE EvidenceState /\ SizesSound
  BY DEF Init, EvidenceInv
<1>1. EvidenceState
  BY DEF E!EvidenceInit, E!NoCache, E!NoFound, E!NoEvidence, EvidenceShapes, FoundIsCurrent,
         E!CacheSeesUploads, VerdictsBacked, FactualBacked, UnguardedHasNone, EvidenceState
<1>2. v3.hits = <<>> /\ v8.hits = <<>> /\ v9.packets = <<>>
  BY DEF E!EvidenceInit, E!NoCache, E!NoFound, E!NoEvidence
<1>3. DOMAIN <<>> = {} /\ IsFiniteSet({})  BY FS_EmptySet
<1>4. EvidenceBudget \in Nat  BY ContextAssumptions DEF E!EvidenceAssumption
<1> QED  BY <1>1, <1>2, <1>3, <1>4, SpentNone DEF SizesSound

\* Uploads and the cache do not touch the answer; the turn's flag tells of an
\* upload during its search.
LEMMA UploadsKeep ==
    ASSUME EvidenceShapes, FoundIsCurrent, E!CacheSeesUploads, VerdictsBacked,
           E!UploadStored \/ E!UploadEnds \/ E!CacheExpires
    PROVE  (EvidenceShapes /\ FoundIsCurrent /\ E!CacheSeesUploads /\ VerdictsBacked)'
<1>1. v6' = v6 /\ v7' = v7 /\ v9' = v9
  BY DEF E!UploadStored, E!UploadEnds, E!CacheExpires
<1>2. VerdictsBacked'
  BY <1>1 DEF VerdictsBacked, FactualBacked, UnguardedHasNone, E!FactualMode, E!Injected
<1>3. CASE E!UploadStored
  <2>1. v8' = [v8 EXCEPT !.raced = TRUE] /\ v2' = "stored"  BY <1>3 DEF E!UploadStored
  <2>2. v8' = [ver |-> v8.ver, hits |-> v8.hits, raced |-> TRUE]  BY <2>1 DEF EvidenceShapes
  <2>3. EvidenceShapes'  BY <1>1, <2>2 DEF EvidenceShapes
  <2>4. FoundIsCurrent'  BY <2>2 DEF FoundIsCurrent
  <2>5. E!CacheSeesUploads'  BY <2>1 DEF E!CacheSeesUploads
  <2> QED  BY <1>2, <2>3, <2>4, <2>5
<1>4. CASE E!UploadEnds \/ E!CacheExpires
  <2>1. v8' = v8 /\ v1' = v1 /\ v3' = E!NoCache
    BY <1>4 DEF E!UploadEnds, E!CacheExpires, E!Invalidated
  <2>2. EvidenceShapes' /\ FoundIsCurrent'  BY <1>1, <2>1 DEF EvidenceShapes, FoundIsCurrent
  <2>3. E!CacheSeesUploads'  BY <2>1 DEF E!CacheSeesUploads, E!NoCache
  <2> QED  BY <1>2, <2>2, <2>3
<1> QED  BY <1>3, <1>4

\* The turn up to its answer: it has no verdict, and the cache is given what the
\* search found.
LEMMA TurnKeeps ==
    ASSUME EvidenceShapes, FoundIsCurrent, E!CacheSeesUploads, VerdictsBacked,
           E!BeginTurn \/ E!PlanTurn \/ E!SearchCached \/ E!SearchStore \/ E!CachePut
              \/ E!SkipSearch \/ E!Gate
    PROVE  (EvidenceShapes /\ FoundIsCurrent /\ E!CacheSeesUploads /\ VerdictsBacked)'
<1>1. v1' = v1 /\ v2' = v2
  BY DEF E!BeginTurn, E!PlanTurn, E!SearchCached, E!SearchStore, E!CachePut, E!SkipSearch, E!Gate
<1>2. CASE E!BeginTurn
  <2>1. v3' = v3 /\ v8' = v8 /\ v6' = "plan"  BY <1>2 DEF E!BeginTurn
  <2>2. v9' = [know |-> <<>>, memory |-> FALSE, packets |-> v9.packets, of |-> v9.of,
               conflicts |-> v9.conflicts, verdict |-> "none", backed |-> TRUE]
    BY <1>2 DEF E!BeginTurn, E!ResetFields, EvidenceShapes
  <2>3. EvidenceShapes'  BY <2>1, <2>2 DEF EvidenceShapes
  <2>4. VerdictsBacked'  BY <2>2 DEF VerdictsBacked, FactualBacked, UnguardedHasNone
  <2>5. FoundIsCurrent' /\ E!CacheSeesUploads'
    BY <1>1, <2>1 DEF FoundIsCurrent, E!CacheSeesUploads
  <2> QED  BY <2>3, <2>4, <2>5
<1>3. CASE E!PlanTurn \/ E!SearchCached \/ E!SearchStore \/ E!SkipSearch
  <2>1. v3' = v3 /\ v9' = v9 /\ v6 # "idle"
    BY <1>3 DEF E!PlanTurn, E!SearchCached, E!SearchStore, E!SkipSearch
  <2>2. EvidenceShapes'
    <3>1. v8' = [ver |-> v8'.ver, hits |-> v8'.hits, raced |-> v8'.raced]
      BY <1>3 DEF E!PlanTurn, E!SearchCached, E!SearchStore, E!SkipSearch, E!NoFound, EvidenceShapes
    <3> QED  BY <2>1, <3>1 DEF EvidenceShapes
  <2>3. VerdictsBacked'
    BY <2>1 DEF VerdictsBacked, FactualBacked, UnguardedHasNone
  <2>4. FoundIsCurrent'
    <3>1. CASE E!SearchStore
      <4>1. PICK hits :
               v8' = [ver |-> v1, hits |-> hits, raced |-> v2 # "idle"]
        BY <3>1 DEF E!SearchStore
      <4> QED  BY <1>1, <4>1 DEF FoundIsCurrent
    <3>2. CASE E!PlanTurn \/ E!SearchCached \/ E!SkipSearch
      <4>1. v6' # "put"  BY <3>2 DEF E!PlanTurn, E!SearchCached, E!SkipSearch
      <4> QED  BY <4>1 DEF FoundIsCurrent
    <3> QED  BY <1>3, <3>1, <3>2
  <2>5. E!CacheSeesUploads'  BY <1>1, <2>1 DEF E!CacheSeesUploads
  <2> QED  BY <2>2, <2>3, <2>4, <2>5
<1>4. CASE E!CachePut
  <2>1. /\ v6 = "put" /\ v6' = "gate" /\ v7' = v7 /\ v8' = v8 /\ v9' = v9
        /\ v3' = [ver |-> v8.ver, hits |-> v8.hits, raced |-> v8.raced, on |-> TRUE]
    BY <1>4 DEF E!CachePut
  <2>2. E!CacheSeesUploads'  BY <1>1, <2>1 DEF E!CacheSeesUploads, FoundIsCurrent
  <2>3. EvidenceShapes' /\ FoundIsCurrent'  BY <2>1 DEF EvidenceShapes, FoundIsCurrent
  <2>4. VerdictsBacked'
    BY <2>1 DEF VerdictsBacked, FactualBacked, UnguardedHasNone
  <2> QED  BY <2>2, <2>3, <2>4
<1>5. CASE E!Gate
  <2>1. v3' = v3 /\ v6 = "gate" /\ v6' = "answer" /\ v7' = v7 /\ v8' = E!NoFound
    BY <1>5 DEF E!Gate
  <2>2. PICK memory, packets, of, conflicts, know :
           v9' = [v9 EXCEPT !.packets = packets, !.of = of, !.conflicts = conflicts,
                            !.memory = memory, !.know = know]
    <3>1. PICK found, memory :
             LET out == E!EvidencePipeline(found, v7.need)
             IN v9' = [v9 EXCEPT !.packets = out.packets, !.of = out.of,
                                 !.conflicts = out.conflicts, !.memory = memory,
                                 !.know = IF out.packets = <<>> THEN v8.hits ELSE out.packets]
      BY <1>5, Zenon DEF E!Gate
    <3> QED  BY <3>1
  <2>3. v9' = [know |-> know, memory |-> memory, packets |-> packets, of |-> of,
               conflicts |-> conflicts, verdict |-> v9.verdict, backed |-> v9.backed]
    BY <2>2 DEF EvidenceShapes
  <2>4. v9'.verdict = "none"  BY <2>1, <2>3 DEF VerdictsBacked
  <2>5. EvidenceShapes'  BY <2>1, <2>3 DEF EvidenceShapes, E!NoFound
  <2>6. VerdictsBacked'  BY <2>4 DEF VerdictsBacked, FactualBacked, UnguardedHasNone
  <2>7. FoundIsCurrent' /\ E!CacheSeesUploads'
    BY <1>1, <2>1 DEF FoundIsCurrent, E!CacheSeesUploads
  <2> QED  BY <2>5, <2>6, <2>7
<1> QED  BY <1>2, <1>3, <1>4, <1>5


\* The guard lets an answer out as checked only if it was supported and no source
\* disagreed, and leaves a factual one unchecked only where nothing was found.
LEMMA GuardKeeps ==
    ASSUME EvidenceShapes, FoundIsCurrent, E!CacheSeesUploads, VerdictsBacked, E!OutputGuard
    PROVE  (EvidenceShapes /\ FoundIsCurrent /\ E!CacheSeesUploads /\ VerdictsBacked)'
<1>1. /\ v1' = v1 /\ v2' = v2 /\ v3' = v3 /\ v7' = v7 /\ v8' = v8 /\ v6' = "idle"
  BY DEF E!OutputGuard
<1>2. PICK supported, cited, observed, written, clean \in BOOLEAN :
         /\ observed \/ written => v7.tools
         /\ LET mode == E!GroundingMode(observed, written)
                ok == clean /\ (mode = "skip" \/ E!Faithful(mode, supported, cited)
                                   \/ E!Demoted(mode, cited, written))
            IN v9' = [v9 EXCEPT !.verdict = E!Verdict(ok, mode), !.backed = supported]
  BY Zenon DEF E!OutputGuard
<1> DEFINE mode == E!GroundingMode(observed, written)
           ok == clean /\ (mode = "skip" \/ E!Faithful(mode, supported, cited)
                              \/ E!Demoted(mode, cited, written))
<1>3. v9' = [know |-> v9.know, memory |-> v9.memory, packets |-> v9.packets, of |-> v9.of,
             conflicts |-> v9.conflicts, verdict |-> E!Verdict(ok, mode), backed |-> supported]
  BY <1>2 DEF EvidenceShapes
<1>4. v9'.verdict = E!Verdict(ok, mode) /\ v9'.backed = supported /\ v9'.conflicts = v9.conflicts
      /\ v9'.know = v9.know /\ v9'.packets = v9.packets /\ v9'.memory = v9.memory
  BY <1>3
<1>5. FactualBacked'
  <2> SUFFICES ASSUME v9'.verdict = "rag", E!FactualMode(v7.mode)
               PROVE  supported /\ v9.conflicts = {}
    BY <1>1, <1>4 DEF FactualBacked, E!FactualMode
  <2>1. ok /\ mode = "rag"  BY <1>4 DEF E!Verdict
  <2>2. ~ E!Demoted(mode, cited, written)  BY <2>1 DEF E!Demoted
  <2>3. E!Faithful(mode, supported, cited)  BY <2>1, <2>2
  <2> QED  BY <2>1, <2>3 DEF E!Faithful, E!Grounded, E!Insufficient
<1>6. UnguardedHasNone'
  <2> SUFFICES ASSUME v9'.verdict = "skip", E!FactualMode(v7.mode)
               PROVE  ~ E!Injected
    BY <1>1, <1>4 DEF UnguardedHasNone, E!FactualMode, E!Injected
  <2>1. mode = "skip"  BY <1>4 DEF E!Verdict
  <2> QED  BY <2>1 DEF E!GroundingMode
<1>7. VerdictsBacked'  BY <1>1, <1>5, <1>6 DEF VerdictsBacked
<1>8. EvidenceShapes'
  <2>1. v9' = [know |-> v9'.know, memory |-> v9'.memory, packets |-> v9'.packets,
               of |-> v9'.of, conflicts |-> v9'.conflicts, verdict |-> v9'.verdict,
               backed |-> v9'.backed]
    BY <1>2 DEF EvidenceShapes
  <2> QED  BY <1>1, <2>1 DEF EvidenceShapes
<1>9. FoundIsCurrent' /\ E!CacheSeesUploads'
  BY <1>1 DEF FoundIsCurrent, E!CacheSeesUploads
<1> QED  BY <1>7, <1>8, <1>9

\* Only the gate changes the packets, and hits come from a search or the cache.
LEMMA SizesKeep ==
    ASSUME EvidenceShapes, SizesSound, E!EvidenceNext PROVE SizesSound'
<1>1. DOMAIN <<>> = {} /\ IsFiniteSet({})  BY FS_EmptySet
<1>2. CASE E!UploadStored
  <2>1. v8'.hits = v8.hits /\ v3' = v3 /\ v9' = v9
    BY <1>2 DEF E!UploadStored, EvidenceShapes
  <2> QED  BY <2>1 DEF SizesSound
<1>3. CASE E!UploadEnds \/ E!CacheExpires
  <2>1. v8' = v8 /\ v3'.hits = <<>> /\ v9' = v9
    BY <1>3 DEF E!UploadEnds, E!CacheExpires, E!Invalidated, E!NoCache
  <2> QED  BY <1>1, <2>1 DEF SizesSound
<1>4. CASE E!BeginTurn
  <2>1. v8' = v8 /\ v3' = v3 /\ v9'.packets = v9.packets
    BY <1>4 DEF E!BeginTurn, E!ResetFields, EvidenceShapes
  <2> QED  BY <2>1 DEF SizesSound
<1>5. CASE E!PlanTurn
  <2>1. v8'.hits = <<>> /\ v3' = v3 /\ v9' = v9  BY <1>5 DEF E!PlanTurn, E!NoFound
  <2> QED  BY <1>1, <2>1 DEF SizesSound
<1>6. CASE E!SearchCached
  <2>1. v8'.hits = v3.hits /\ v3' = v3 /\ v9' = v9  BY <1>6 DEF E!SearchCached
  <2> QED  BY <2>1 DEF SizesSound
<1>7. CASE E!SearchStore
  <2>1. PICK hits \in E!SeqOf(E!Cands, MaxHits) :
           v8' = [ver |-> v1, hits |-> hits, raced |-> v2 # "idle"]
    BY <1>7 DEF E!SearchStore
  <2>2. v8'.hits = hits /\ v3' = v3 /\ v9' = v9  BY <1>7, <2>1 DEF E!SearchStore
  <2> QED  BY <2>2, SearchedFinite DEF SizesSound
<1>8. CASE E!CachePut
  <2>1. v3'.hits = v8.hits /\ v8' = v8 /\ v9' = v9  BY <1>8 DEF E!CachePut
  <2> QED  BY <2>1 DEF SizesSound
<1>9. CASE E!SkipSearch
  <2>1. v3' = v3 /\ v8' = v8 /\ v9' = v9  BY <1>9 DEF E!SkipSearch
  <2> QED  BY <2>1 DEF SizesSound
<1>10. CASE E!Gate
  <2>1. v3' = v3 /\ v8'.hits = <<>>  BY <1>10 DEF E!Gate, E!NoFound
  <2>2. PICK memory \in {FALSE, E!NeedsMemory},
             hits \in {v8.hits} \cup (IF E!AllFiltered(v8.hits) THEN E!SeqOf(E!Cands, MaxHits)
                                      ELSE {}) :
           LET out == E!EvidencePipeline(hits, v7.need)
           IN v9' = [v9 EXCEPT !.packets = out.packets, !.of = out.of,
                               !.conflicts = out.conflicts, !.memory = memory,
                               !.know = IF out.packets = <<>> THEN v8.hits ELSE out.packets]
    BY <1>10, Zenon DEF E!Gate
  <2>3. v9'.packets = E!EvidencePipeline(hits, v7.need).packets
    BY <2>2 DEF EvidenceShapes
  <2>4. hits = v8.hits \/ hits \in E!SeqOf(E!Cands, MaxHits)  BY <2>2
  <2>5. IsFiniteSet(DOMAIN hits)  BY <2>4, SearchedFinite DEF SizesSound
  <2> QED  BY <1>1, <2>1, <2>3, <2>5, PipelineFits DEF SizesSound
<1>11. CASE E!OutputGuard
  <2>1. PICK verdict, backed : v9' = [v9 EXCEPT !.verdict = verdict, !.backed = backed]
    BY <1>11 DEF E!OutputGuard
  <2>2. v9'.packets = v9.packets  BY <2>1 DEF EvidenceShapes
  <2>3. v3' = v3 /\ v8' = v8  BY <1>11 DEF E!OutputGuard
  <2> QED  BY <2>2, <2>3 DEF SizesSound
<1> QED
  BY <1>2, <1>3, <1>4, <1>5, <1>6, <1>7, <1>8, <1>9, <1>10, <1>11 DEF E!EvidenceNext

LEMMA EvidenceSteps == EvidenceInv /\ [Next]_vars => EvidenceInv'
<1> SUFFICES ASSUME EvidenceInv, [Next]_vars, part' = "evidence"
             PROVE  EvidenceState' /\ SizesSound'
  BY DEF EvidenceInv
<1>1. CASE UNCHANGED vars
  <2>1. /\ part = "evidence"
        /\ v1' = v1 /\ v2' = v2 /\ v3' = v3 /\ v6' = v6 /\ v7' = v7 /\ v8' = v8 /\ v9' = v9
    BY <1>1 DEF vars
  <2> QED
    BY <2>1 DEF EvidenceInv, EvidenceState, EvidenceShapes, FoundIsCurrent, E!CacheSeesUploads,
                VerdictsBacked, FactualBacked, UnguardedHasNone, E!FactualMode, E!Injected,
                SizesSound
<1>2. CASE Next
  <2>1. E!EvidenceNext /\ EvidenceState /\ SizesSound
    BY <1>2 DEF Next, EvidenceInv
  <2>2. EvidenceState'
    BY <2>1, UploadsKeep, TurnKeeps, GuardKeeps DEF E!EvidenceNext, EvidenceState
  <2>3. SizesSound'  BY <2>1, SizesKeep DEF EvidenceState
  <2> QED  BY <2>2, <2>3
<1> QED  BY <1>1, <1>2

\* EvidenceSound for all documents, values, sizes and modes of the gate: what the
\* cache holds is what the store holds, but for an upload that is not yet
\* announced or came during the search (retrieval_cache.invalidate_session); a
\* factual answer goes out as checked only supported and without conflicts, or
\* unchecked only if nothing was found to check it with (output_guard_node); and
\* the packets fit their budget (apply_token_budget).
THEOREM EvidenceCorrect == Spec => []EvidenceSound
<1>1. EvidenceInv => EvidenceSound
  BY DEF EvidenceInv, EvidenceState, VerdictsBacked, FactualBacked, UnguardedHasNone,
         E!FactualMode, SizesSound, E!FactualAnswersBacked, EvidenceSound
<1> QED  BY <1>1, EvidenceStart, EvidenceSteps, PTL DEF Spec

-----------------------------------------------------------------------------
(* The session controller (Sessions)                                       *)

SessionAts == {"idle", "cancel", "open", "begin", "control", "turn", "stamp", "done"}

\* Deliveries that have opened their turn, or will not open one.
Opened == {d \in S!Deliveries : v3[d] \in {"begin", "control", "turn", "stamp", "done"}}

\* Deliveries whose handler or turn will still save a snapshot of its own.
Saving == {d \in S!Deliveries : v3[d] \in {"cancel", "open", "begin", "control", "turn"}}

\* No snapshot is ahead of the turns that were opened.
TurnsCounted ==
    /\ v1.turn <= Cardinality(Opened)
    /\ \A d \in S!Deliveries : v6[d].turn <= Cardinality(Opened)

\* Two deliveries under way are in each other's way.
OverlapsKnown ==
    /\ \A d \in S!Underway : v4[d] \in MessageIds
    /\ \A c, d \in S!Underway : c # d => v4[c] \in v9

\* A snapshot remembers the id that the row remembers, or one that another
\* came in the way of; a handler that remembers another id than the row knows
\* that the row's was applied meanwhile.
LastsKnown ==
    /\ \A d \in S!Deliveries : v6[d].last \in {0, v1.last} \cup v9
    /\ \A d \in S!Deliveries : v1.last = 0 => v6[d].last = 0
    /\ \A d \in Saving : v6[d].last \in {0, v1.last} \/ v1.last \in v9

\* An undisturbed id has opened one turn at most, and then it is under way
\* behind that turn or it is the id that the row remembers.
OpenedOnce(i) ==
    \/ v8[i] = 0
    \/ /\ v8[i] = 1
       /\ \A d \in S!Deliveries : v4[d] = i => v3[d] \notin {"cancel", "open"}
       /\ \/ v1.last = i
          \/ \E d \in S!Deliveries : v4[d] = i /\ v3[d] \in {"begin", "control", "turn", "stamp"}

TurnsRemembered == \A i \in MessageIds \ v9 : OpenedOnce(i)

SessionState ==
    S!SessionTypeOK /\ TurnsCounted /\ OverlapsKnown /\ LastsKnown /\ TurnsRemembered

SessionInv == part = "session" => SessionState

LEMMA SessionConstants ==
    /\ NDeliveries \in Nat \ {0} /\ MessageIds \subseteq Nat \ {0}
    /\ Kinds \subseteq {"plain", "correction", "stop", "status", "source", "okay",
                        "halt", "rewrite", "reject", "confirm", "resend"}
BY ContextAssumptions DEF S!SessionAssumption

\* What a message says is a message.
LEMMA SentTypes == ASSUME NEW k \in Kinds PROVE S!Sent(k) \in S!Message
<1>1. k \in {"plain", "correction", "stop", "status", "source", "okay",
             "halt", "rewrite", "reject", "confirm", "resend"}
  BY SessionConstants
<1>2. S!Plain \in S!Message  BY DEF S!Plain, S!Message, S!Cues, S!Actions
<1> QED  BY <1>1, <1>2 DEF S!Sent, S!Message, S!Cues, S!Actions

LEMMA PlainTypes == S!Plain \in S!Message /\ [S!Plain EXCEPT !.resume = TRUE] \in S!Message
BY DEF S!Plain, S!Message, S!Cues, S!Actions

LEMMA NoTaskTypes ==
    /\ S!NoTask \in S!Task
    /\ S!NoTask.last = 0 /\ S!NoTask.turn = 0 /\ S!NoTask.gate = FALSE
BY SessionConstants, PlainTypes DEF S!NoTask, S!Task, S!FsmStates

\* Synchronising the state machine keeps a snapshot's turn and last id, and
\* never takes its gate.
LEMMA SyncedKeeps ==
    ASSUME NEW s \in S!Task
    PROVE  /\ S!Synced(s) \in S!Task
           /\ S!Synced(s).last = s.last /\ S!Synced(s).turn = s.turn
           /\ s.gate => S!Synced(s).gate
<1>1. S!Derived(s) \in S!FsmStates  BY DEF S!Derived, S!FsmStates
<1>2. ASSUME NEW t \in S!Task
      PROVE  /\ S!SyncFlags(t) \in S!Task
             /\ S!SyncFlags(t).last = t.last /\ S!SyncFlags(t).turn = t.turn
             /\ t.gate => S!SyncFlags(t).gate
  <2>1. S!WithGate(t) \in S!Task /\ S!WithGate(t).gate
    BY ZenonT(60) DEF S!WithGate, S!Task
  <2>2. S!WithGate(t).last = t.last /\ S!WithGate(t).turn = t.turn
    BY DEF S!WithGate, S!Task
  <2>3. [t EXCEPT !.steer = FALSE] \in S!Task
    BY DEF S!Task
  <2>4. /\ [t EXCEPT !.steer = FALSE].gate = t.gate
        /\ [t EXCEPT !.steer = FALSE].last = t.last
        /\ [t EXCEPT !.steer = FALSE].turn = t.turn
    BY DEF S!Task
  <2>5. S!SyncFlags(t) \in {S!WithGate(t), [t EXCEPT !.steer = FALSE], t}
    BY DEF S!SyncFlags
  <2> QED  BY <2>1, <2>2, <2>3, <2>4, <2>5
<1>3. ASSUME NEW f \in S!FsmStates \cup {"NONE"}
      PROVE  /\ [s EXCEPT !.fsm = f] \in S!Task
             /\ [s EXCEPT !.fsm = f].last = s.last /\ [s EXCEPT !.fsm = f].turn = s.turn
             /\ [s EXCEPT !.fsm = f].gate = s.gate
  BY DEF S!Task
<1> DEFINE d == S!Derived(s)
           lost == s.fsm = "RUNNING" /\ d = "IDLE" /\ s.status = "FAILED"
           f == IF d \in {"REPLANNING", "WAITING_USER"} \/ s.fsm = "NONE" \/ lost
                THEN d ELSE s.fsm
<1>4. S!Synced(s) = S!SyncFlags([s EXCEPT !.fsm = f])  BY DEF S!Synced
<1>5. s.fsm \in S!FsmStates \cup {"NONE"}  BY DEF S!Task
<1>6. f \in S!FsmStates \cup {"NONE"}  BY <1>1, <1>5
<1> HIDE DEF f
<1> QED  BY <1>2, <1>3, <1>4, <1>6

\* What a snapshot gets back from the row.
LEMMA KeptKeeps ==
    ASSUME v1 \in S!Task, NEW s \in S!Task
    PROVE  /\ S!Kept(s) \in S!Task /\ S!Kept(s).turn = s.turn
           /\ S!Kept(s).last = IF s.last = 0 THEN v1.last ELSE s.last
           /\ v1.gate => S!Kept(s).gate
<1> DEFINE g == s.gate \/ v1.gate
           t == s.steer \/ v1.steer
           l == IF s.last = 0 THEN v1.last ELSE s.last
<1>1. S!Kept(s) = [s EXCEPT !.gate = g, !.steer = t, !.last = l]
  BY DEF S!Kept
<1>2. g \in BOOLEAN /\ t \in BOOLEAN
  BY Zenon
<1>3. l \in MessageIds \cup {0}
  BY DEF S!Task
<1>4. v1.gate => g
  BY Zenon
<1> HIDE DEF g, t, l
<1>5. S!Kept(s) \in S!Task
  BY <1>1, <1>2, <1>3, ZenonT(60) DEF S!Task
<1>6. S!Kept(s).turn = s.turn /\ S!Kept(s).last = l /\ S!Kept(s).gate = g
  BY <1>1 DEF S!Task
<1> QED  BY <1>4, <1>5, <1>6 DEF l

\* What a save stores: a snapshot's turn and last id or the row's, and the
\* gate of both.
LEMMA SavedKeeps ==
    ASSUME v1 \in S!Task, NEW s \in S!Task
    PROVE  /\ S!SessionSaved(s) \in S!Task
           /\ S!SessionSaved(s).turn \in {v1.turn, s.turn}
           /\ S!SessionSaved(s).last \in {v1.last, s.last}
           /\ S!SessionSaved(s).last = 0 => v1.last = 0
           /\ v1.gate => S!SessionSaved(s).gate
<1> DEFINE k == S!Kept(s)
<1>1. /\ k \in S!Task /\ k.turn = s.turn
      /\ k.last = IF s.last = 0 THEN v1.last ELSE s.last
      /\ v1.gate => k.gate
  BY KeptKeeps
<1>2. S!SessionSaved(s) = v1 \/ S!SessionSaved(s) = S!Synced(k)
  BY DEF S!SessionSaved
<1> HIDE DEF k
<1>3. CASE S!SessionSaved(s) = v1  BY <1>3
<1>4. CASE S!SessionSaved(s) = S!Synced(k)
  <2>1. /\ S!Synced(k) \in S!Task /\ S!Synced(k).last = k.last
        /\ S!Synced(k).turn = k.turn /\ (k.gate => S!Synced(k).gate)
    BY <1>1, SyncedKeeps
  <2>2. S!Synced(k).last \in {v1.last, s.last}  BY <1>1, <2>1
  <2>3. S!Synced(k).last = 0 => v1.last = 0  BY <1>1, <2>1
  <2>4. v1.gate => S!Synced(k).gate  BY <1>1, <2>1
  <2> QED  BY <1>1, <1>4, <2>1, <2>2, <2>3, <2>4
<1> QED  BY <1>2, <1>3, <1>4


LEMMA MergedTypes ==
    ASSUME NEW s \in S!Task, NEW m \in S!Message
    PROVE  /\ S!Merged(s, m) \in S!Message
           /\ S!Confirmed(s, S!Merged(s, m)) \in S!Message
<1> DEFINE a == IF m.action = "none" THEN s.msg.action ELSE m.action
           c == m.confirm \/ s.msg.confirm
           r == m.resend \/ s.msg.resend
           u == m.resume \/ s.msg.resume
<1>1. a \in S!Actions  BY DEF S!Task, S!Message
<1>2. c \in BOOLEAN /\ r \in BOOLEAN /\ u \in BOOLEAN  BY Zenon
<1>3. S!Merged(s, m) = [cue |-> m.cue, action |-> a, confirm |-> c, resend |-> r, resume |-> u]
  BY DEF S!Merged
<1> HIDE DEF a, c, r, u
<1>4. S!Merged(s, m) \in S!Message  BY <1>1, <1>2, <1>3 DEF S!Message
<1>5. ASSUME NEW t \in S!Message PROVE S!Confirmed(s, t) \in S!Message
  <2>1. [t EXCEPT !.cue = "pending"] \in S!Message  BY DEF S!Message, S!Cues
  <2> QED  BY <2>1 DEF S!Confirmed
<1> QED  BY <1>4, <1>5

LEMMA ClassifyTypes ==
    ASSUME NEW s, NEW m PROVE S!Classify(s, m) \in S!EventTypes
BY DEF S!Classify, S!EventTypes

\* Building the payload of a message touches neither the turn, nor the last
\* id, nor the gate.
LEMMA InboundKeeps ==
    ASSUME NEW s \in S!Task, NEW m \in S!Message
    PROVE  /\ S!Inbound(s, m) \in S!Task
           /\ S!Inbound(s, m).last = s.last /\ S!Inbound(s, m).turn = s.turn
<1> DEFINE t == S!Confirmed(s, S!Merged(s, m))
           p == s.pending /\ ~ S!Confirms(s, S!Merged(s, m))
           e == S!Classify(s, t)
           r == [s EXCEPT !.msg = t, !.pending = p, !.event = e]
<1>1. t \in S!Message  BY MergedTypes
<1>2. p \in BOOLEAN  BY Zenon
<1>3. e \in S!EventTypes  BY ClassifyTypes
<1>4. S!Inbound(s, m) = S!SourceHints(r)  BY DEF S!Inbound
<1> HIDE DEF t, p, e
<1>5. r \in S!Task /\ r.last = s.last /\ r.turn = s.turn
  BY <1>1, <1>2, <1>3 DEF S!Task
<1> HIDE DEF r
<1>6. /\ [r EXCEPT !.steer = FALSE, !.steered = TRUE] \in S!Task
      /\ [r EXCEPT !.steer = FALSE, !.steered = TRUE].last = r.last
      /\ [r EXCEPT !.steer = FALSE, !.steered = TRUE].turn = r.turn
  BY <1>5, ZenonT(60) DEF S!Task
<1>7. S!SourceHints(r) \in {r, [r EXCEPT !.steer = FALSE, !.steered = TRUE]}
  BY DEF S!SourceHints
<1> QED  BY <1>4, <1>5, <1>6, <1>7

LEMMA FirstTurnTypes ==
    ASSUME NEW m \in S!Message
    PROVE  S!FirstTurn(m) \in S!Task /\ S!FirstTurn(m).last = 0 /\ S!FirstTurn(m).turn = 1
<1> DEFINE e == S!Classify(S!NoTask, m)
<1>1. e \in S!EventTypes  BY ClassifyTypes
<1>2. S!FirstTurn(m) = [S!NoTask EXCEPT !.status = "RUNNING", !.turn = 1, !.msg = m,
                                        !.fsm = "NONE", !.event = e]
  BY DEF S!FirstTurn
<1> HIDE DEF e
<1>3. 1 \in 0 .. NDeliveries  BY SessionConstants
<1> DEFINE n == S!NoTask
<1>4. n \in S!Task /\ n.last = 0  BY NoTaskTypes
<1> HIDE DEF n
<1>5. S!FirstTurn(m) \in S!Task  BY <1>1, <1>2, <1>3, <1>4, ZenonT(60) DEF S!Task, n
<1>6. S!FirstTurn(m).last = 0 /\ S!FirstTurn(m).turn = 1
  BY <1>2, <1>4 DEF S!Task, n
<1> QED  BY <1>5, <1>6

LEMMA NextTurnTypes ==
    ASSUME NEW s \in S!Task, NEW m \in S!Message, s.turn < NDeliveries
    PROVE  /\ S!NextTurn(s, m) \in S!Task
           /\ S!NextTurn(s, m).last = s.last /\ S!NextTurn(s, m).turn = s.turn + 1
<1> DEFINE r == S!Inbound(s, m)
<1>1. r \in S!Task /\ r.last = s.last /\ r.turn = s.turn  BY InboundKeeps
<1>2. S!NextTurn(s, m) = [r EXCEPT !.status = "RUNNING", !.turn = r.turn + 1,
                                   !.asked = FALSE, !.review = FALSE]
  BY DEF S!NextTurn
<1> HIDE DEF r
<1>3. NDeliveries \in Nat /\ s.turn \in Nat  BY SessionConstants DEF S!Task
<1>4. r.turn + 1 \in 0 .. NDeliveries  BY <1>1, <1>3
<1>5. S!NextTurn(s, m) \in S!Task  BY <1>1, <1>2, <1>4, ZenonT(60) DEF S!Task
<1>6. S!NextTurn(s, m).last = r.last /\ S!NextTurn(s, m).turn = r.turn + 1
  BY <1>1, <1>2 DEF S!Task
<1> QED  BY <1>1, <1>5, <1>6

LEMMA OverlaidTypes ==
    ASSUME v1 \in S!Task, NEW h \in S!Task
    PROVE  /\ S!Overlaid(h) \in S!Task
           /\ S!Overlaid(h).turn = v1.turn
           /\ S!Overlaid(h).last = IF h.last = 0 THEN v1.last ELSE h.last
<1> DEFINE f == IF h.fsm = "NONE" THEN v1.fsm ELSE h.fsm
           g == v1.gate \/ h.gate
           t == v1.steer \/ h.steer
           l == IF h.last = 0 THEN v1.last ELSE h.last
           p == v1.pending \/ h.pending
<1>1. f \in S!FsmStates \cup {"NONE"} /\ l \in MessageIds \cup {0}  BY DEF S!Task
<1>2. g \in BOOLEAN /\ t \in BOOLEAN /\ p \in BOOLEAN  BY Zenon
<1>3. S!Overlaid(h) = [v1 EXCEPT !.msg = h.msg, !.fsm = f, !.gate = g, !.steer = t,
                                 !.steered = h.steered, !.last = l, !.pending = p]
  BY DEF S!Overlaid
<1>4. h.msg \in S!Message /\ h.steered \in BOOLEAN  BY DEF S!Task
<1> HIDE DEF f, g, t, l, p
<1>5. S!Overlaid(h) \in S!Task  BY <1>1, <1>2, <1>3, <1>4, ZenonT(60) DEF S!Task
<1>6. S!Overlaid(h).turn = v1.turn /\ S!Overlaid(h).last = l  BY <1>3 DEF S!Task
<1> QED  BY <1>5, <1>6 DEF l

\* A prepared turn counts one more than the row and remembers what the
\* handler remembered, or the row.
LEMMA PreparedTypes ==
    ASSUME v1 \in S!Task, NEW h \in S!Task, v1.turn < NDeliveries
    PROVE  /\ S!PreparedTurn(h) \in S!Task
           /\ S!PreparedTurn(h).turn <= v1.turn + 1
           /\ S!PreparedTurn(h).last \in {0, v1.last, h.last}
<1>1. h.msg \in S!Message /\ v1.turn \in Nat  BY SessionConstants DEF S!Task
<1> DEFINE f == S!FirstTurn(h.msg)
           n == S!NextTurn(S!Overlaid(h), h.msg)
<1>2. f \in S!Task /\ f.last = 0 /\ f.turn = 1  BY <1>1, FirstTurnTypes
<1>3. n \in S!Task /\ n.last \in {v1.last, h.last} /\ n.turn = v1.turn + 1
  BY <1>1, OverlaidTypes, NextTurnTypes
<1>4. S!PreparedTurn(h) = S!Synced(f) \/ S!PreparedTurn(h) = S!Synced(n)
  BY DEF S!PreparedTurn
<1> HIDE DEF f, n
<1>5. CASE S!PreparedTurn(h) = S!Synced(f)
  BY <1>1, <1>2, <1>5, SyncedKeeps
<1>6. CASE S!PreparedTurn(h) = S!Synced(n)
  BY <1>1, <1>3, <1>6, SyncedKeeps
<1> QED  BY <1>4, <1>5, <1>6


\* The number of opened turns is bounded and never falls.
LEMMA OpenedCount ==
    /\ IsFiniteSet(S!Deliveries) /\ Cardinality(S!Deliveries) = NDeliveries
    /\ IsFiniteSet(Opened) /\ Cardinality(Opened) \in Nat
    /\ Cardinality(Opened) <= NDeliveries
    /\ IsFiniteSet(Opened') /\ Cardinality(Opened') \in Nat
    /\ Cardinality(Opened') <= NDeliveries
<1>1. IsFiniteSet(S!Deliveries) /\ Cardinality(S!Deliveries) = NDeliveries
  BY SessionConstants, FS_Interval DEF S!Deliveries
<1>2. Opened \subseteq S!Deliveries /\ Opened' \subseteq S!Deliveries  BY DEF Opened
<1>3. /\ IsFiniteSet(Opened) /\ Cardinality(Opened) <= NDeliveries
      /\ IsFiniteSet(Opened') /\ Cardinality(Opened') <= NDeliveries
  BY <1>1, <1>2, FS_Subset
<1> QED  BY <1>1, <1>3, FS_CardinalityType

LEMMA OpenedGrows ==
    ASSUME Opened \subseteq Opened' PROVE Cardinality(Opened) <= Cardinality(Opened')
BY OpenedCount, FS_Subset

LEMMA OpenedMore ==
    ASSUME NEW d \in S!Deliveries, d \notin Opened, Opened' = Opened \cup {d}
    PROVE  /\ Cardinality(Opened') = Cardinality(Opened) + 1
           /\ Cardinality(Opened) < NDeliveries
<1>1. Cardinality(Opened') = Cardinality(Opened) + 1
  BY OpenedCount, FS_AddElement
<1>2. NDeliveries \in Nat  BY SessionConstants
<1> QED  BY <1>1, <1>2, OpenedCount

\* A handler that saves leaves the remembered id alone, unless both the old
\* and the new one were disturbed.
LEMMA SaveMoves ==
    ASSUME SessionState, NEW d \in Saving, NEW s \in S!Task,
           s.last \in {0, v1.last, v6[d].last}, v1' = S!SessionSaved(s)
    PROVE  /\ v1' \in S!Task /\ v1'.turn \in {v1.turn, s.turn}
           /\ v1'.last = 0 => v1.last = 0
           /\ v1'.last = v1.last \/ (v1.last \in v9 /\ v1'.last \in v9)
<1>1. /\ v1' \in S!Task /\ v1'.turn \in {v1.turn, s.turn}
      /\ v1'.last \in {v1.last, s.last}
      /\ v1'.last = 0 => v1.last = 0
  BY SavedKeeps DEF SessionState, S!SessionTypeOK
<1>2. d \in S!Deliveries  BY DEF Saving
<1>3. /\ v6[d].last \in {0, v1.last} \cup v9
      /\ v6[d].last \in {0, v1.last} \/ v1.last \in v9
  BY <1>2 DEF SessionState, LastsKnown
<1> QED  BY <1>1, <1>3

LEMMA SaveLasts ==
    ASSUME SessionState, NEW d \in Saving, NEW s \in S!Task,
           s.last \in {0, v1.last, v6[d].last}, v1' = S!SessionSaved(s),
           NEW h \in S!Task, h.last \in {0, v1.last, v1'.last, v6[d].last},
           v6' = [v6 EXCEPT ![d] = h], NEW q, v3' = [v3 EXCEPT ![d] = q], v9' = v9
    PROVE  LastsKnown'
<1> DEFINE old == v1.last  new == v1'.last  L(c) == v6[c].last
<1>1. d \in S!Deliveries /\ Saving \subseteq S!Deliveries  BY DEF Saving
<1>2. /\ new = 0 => old = 0
      /\ new = old \/ (old \in v9 /\ new \in v9)
  BY SaveMoves
<1>3. /\ \A c \in S!Deliveries : L(c) \in {0, old} \cup v9
      /\ \A c \in S!Deliveries : old = 0 => L(c) = 0
      /\ \A c \in Saving : L(c) \in {0, old} \/ old \in v9
  BY DEF SessionState, LastsKnown
<1>4. \A c \in S!Deliveries : v6'[c] = IF c = d THEN h ELSE v6[c]
  BY DEF SessionState, S!SessionTypeOK
<1>5. \A c \in Saving' : c \in Saving
  BY <1>1 DEF SessionState, S!SessionTypeOK, Saving
<1>6. h.last \in {0, old, new, L(d)}  BY Zenon
<1>7. \A c \in S!Deliveries : v6'[c].last = IF c = d THEN h.last ELSE L(c)  BY <1>4
<1>8. S!Deliveries' = S!Deliveries  OBVIOUS
<1> HIDE DEF old, new, L
<1>9. ASSUME NEW c \in S!Deliveries
      PROVE  v6'[c].last \in {0, new} \cup v9 /\ (new = 0 => v6'[c].last = 0)
  BY <1>1, <1>2, <1>3, <1>6, <1>7
<1>10. ASSUME NEW c \in Saving'
       PROVE  v6'[c].last \in {0, new} \/ new \in v9
  <2>1. c \in Saving /\ c \in S!Deliveries  BY <1>1, <1>5
  <2> QED  BY <1>2, <1>3, <1>6, <1>7, <2>1
<1> QED  BY <1>9, <1>10 DEF LastsKnown, new

LEMMA SameOverlaps ==
    ASSUME SessionState, NEW d \in S!Underway, NEW q, v3' = [v3 EXCEPT ![d] = q],
           \A c \in S!Deliveries : c # d => v4'[c] = v4[c],
           q = "done" \/ v4'[d] = v4[d], v9 \subseteq v9'
    PROVE  OverlapsKnown'
<1>1. S!Underway' \subseteq S!Underway /\ (q = "done" => d \notin S!Underway')
  BY DEF S!Underway, SessionState, S!SessionTypeOK
<1>2. \A c \in S!Underway' : c \in S!Deliveries /\ v4'[c] = v4[c]
  BY <1>1 DEF S!Underway
<1> QED  BY <1>1, <1>2 DEF SessionState, OverlapsKnown

\* A turn that is behind its opening stays there until it is stamped.
LEMMA SaveRemembers ==
    ASSUME SessionState, NEW d \in Saving, NEW q, v3' = [v3 EXCEPT ![d] = q],
           \/ v3[d] = "cancel" /\ q = "open"
           \/ v3[d] \in {"begin", "control", "turn"} /\ q \in {"control", "turn", "stamp"},
           v1'.last = v1.last \/ v1.last \in v9, v4' = v4, v8' = v8, v9' = v9
    PROVE  TurnsRemembered'
<1> SUFFICES ASSUME NEW i \in MessageIds \ v9 PROVE OpenedOnce(i)'
  BY DEF TurnsRemembered
<1>1. OpenedOnce(i)  BY DEF SessionState, TurnsRemembered
<1>2. d \in S!Deliveries  BY DEF Saving
<1>3. \A c \in S!Deliveries : v3'[c] = IF c = d THEN q ELSE v3[c]
  BY DEF SessionState, S!SessionTypeOK
<1>4. CASE v8[i] = 0  BY <1>4 DEF OpenedOnce
<1>5. CASE v8[i] = 1 /\ \A c \in S!Deliveries : v4[c] = i => v3[c] \notin {"cancel", "open"}
  <2>1. \A c \in S!Deliveries : v4[c] = i => v3'[c] \notin {"cancel", "open"}
    BY <1>3, <1>5
  <2>2. ASSUME NEW c \in S!Deliveries, v4[c] = i,
               v3[c] \in {"begin", "control", "turn", "stamp"}
        PROVE  v3'[c] \in {"begin", "control", "turn", "stamp"}
    BY <1>2, <1>3, <2>2
  <2>3. v1.last = i => v1'.last = i  OBVIOUS
  <2>4. \/ v1'.last = i
        \/ \E c \in S!Deliveries : v4[c] = i /\ v3'[c] \in {"begin", "control", "turn", "stamp"}
    <3>1. CASE v1.last = i  BY <2>3, <3>1
    <3>2. CASE v8[i] # 0 /\ v1.last # i
      <4>1. PICK c \in S!Deliveries :
               v4[c] = i /\ v3[c] \in {"begin", "control", "turn", "stamp"}
        BY <1>1, <3>2 DEF OpenedOnce
      <4> QED  BY <2>2, <4>1
    <3> QED  BY <1>5, <3>1, <3>2
  <2> QED  BY <1>5, <2>1, <2>4 DEF OpenedOnce
<1> QED  BY <1>1, <1>4, <1>5 DEF OpenedOnce


\* What the steps of a turn between its opening and its end have in common.
LEMMA SaveKeepsState ==
    ASSUME SessionState, NEW d \in Saving, NEW q \in SessionAts, v3' = [v3 EXCEPT ![d] = q],
           \/ v3[d] = "cancel" /\ q = "open"
           \/ v3[d] \in {"begin", "control", "turn"} /\ q \in {"control", "turn", "stamp"},
           NEW s \in S!Task, s.last \in {0, v1.last, v6[d].last}, s.turn = v6[d].turn,
           v1' = S!SessionSaved(s),
           NEW h \in S!Task, h.last \in {0, v1.last, v1'.last, v6[d].last},
           h.turn \in {v1'.turn, v6[d].turn}, v6' = [v6 EXCEPT ![d] = h],
           v2' \in 0 .. NDeliveries, v7' \subseteq S!Deliveries,
           v4' = v4, v5' = v5, v8' = v8, v9' = v9, v10' = v10
    PROVE  SessionState'
<1>1. d \in S!Deliveries /\ d \in S!Underway  BY DEF Saving, S!Underway
<1>2. /\ v1' \in S!Task /\ v1'.turn \in {v1.turn, s.turn}
      /\ v1'.last = v1.last \/ v1.last \in v9
  BY SaveMoves
<1>3. S!SessionTypeOK'
  BY <1>1, <1>2 DEF SessionState, S!SessionTypeOK, SessionAts
<1>4. TurnsCounted'
  <2>1. Opened \subseteq Opened'
    BY <1>1 DEF Opened, SessionState, S!SessionTypeOK
  <2>2. Cardinality(Opened) <= Cardinality(Opened')  BY <2>1, OpenedGrows
  <2>3. \A c \in S!Deliveries : v6'[c].turn = IF c = d THEN h.turn ELSE v6[c].turn
    BY DEF SessionState, S!SessionTypeOK
  <2>4. /\ v1.turn \in Nat /\ \A c \in S!Deliveries : v6[c].turn \in Nat
    BY SessionConstants DEF SessionState, S!SessionTypeOK, S!Task
  <2> QED
    BY <1>1, <1>2, <2>2, <2>3, <2>4, OpenedCount DEF SessionState, TurnsCounted
<1>5. OverlapsKnown'  BY <1>1, SameOverlaps
<1>6. LastsKnown'  BY SaveLasts
<1>7. TurnsRemembered'  BY <1>2, SaveRemembers
<1> QED  BY <1>3, <1>4, <1>5, <1>6, <1>7 DEF SessionState

LEMMA CancelKeeps ==
    ASSUME SessionState, NEW d \in S!Deliveries, S!CancelRun(d) PROVE SessionState'
<1> DEFINE h == v6[d]
           g == [h EXCEPT !.dead = TRUE, !.fsm = "REPLANNING"]
           s == S!WithGate(g)
           t == [v5[d] EXCEPT !.resend = FALSE]
           w == [v1' EXCEPT !.msg = S!Merged(v1', t)]
<1>1. d \in Saving /\ v3[d] = "cancel"  BY DEF S!CancelRun, Saving
<1>2. h \in S!Task /\ v5[d] \in S!Message  BY DEF SessionState, S!SessionTypeOK
<1>3. g \in S!Task /\ g.last = h.last /\ g.turn = h.turn
  BY <1>2 DEF S!Task, S!FsmStates
<1> HIDE DEF g
<1>4. s \in S!Task /\ s.last = h.last /\ s.turn = h.turn
  BY <1>3 DEF S!WithGate, S!Task
<1>5. v1' = S!SessionSaved(s)  BY Zenon DEF S!CancelRun, s, g, h
<1> HIDE DEF s
<1>6. v1' \in S!Task  BY <1>1, <1>4, <1>5, SaveMoves
<1>7. t \in S!Message  BY <1>2 DEF S!Message
<1>8. v6' = [v6 EXCEPT ![d] = w]  BY Zenon DEF S!CancelRun
<1> HIDE DEF t
<1>9. S!Merged(v1', t) \in S!Message  BY <1>6, <1>7, MergedTypes
<1>10. w \in S!Task /\ w.last = v1'.last /\ w.turn = v1'.turn
  BY <1>6, <1>9 DEF S!Task
<1> HIDE DEF w
<1>11. /\ v3' = [v3 EXCEPT ![d] = "open"]
       /\ v2' \in {0, v2} /\ v7' = v7
       /\ v4' = v4 /\ v5' = v5 /\ v8' = v8 /\ v9' = v9 /\ v10' = v10
  BY DEF S!CancelRun
<1>12. v2' \in 0 .. NDeliveries /\ v7' \subseteq S!Deliveries
  BY <1>11, SessionConstants DEF SessionState, S!SessionTypeOK
<1>13. "open" \in SessionAts  BY DEF SessionAts
<1> QED  BY <1>1, <1>4, <1>5, <1>8, <1>10, <1>11, <1>12, <1>13, SaveKeepsState

LEMMA BeginKeeps ==
    ASSUME SessionState, NEW d \in S!Deliveries, S!BeginRun(d) PROVE SessionState'
<1> DEFINE h == v6[d]  s == S!BeganRun(h, d)
<1>1. d \in Saving /\ v3[d] = "begin"  BY DEF S!BeginRun, Saving
<1>2. h \in S!Task  BY DEF SessionState, S!SessionTypeOK
<1>3. v1' = S!SessionSaved(s) /\ v6' = [v6 EXCEPT ![d] = s]  BY DEF S!BeginRun
<1>4. d \in 0 .. NDeliveries  BY SessionConstants DEF S!Deliveries
<1> HIDE DEF h
<1>5. s \in S!Task  BY <1>2, <1>4, ZenonT(60) DEF S!BeganRun, S!Task, S!FsmStates
<1>6. s.last = h.last /\ s.turn = h.turn  BY <1>2 DEF S!BeganRun, S!Task
<1> HIDE DEF s
<1>7. /\ v3' = [v3 EXCEPT ![d] = "control"] /\ v2' = d /\ v7' = v7
      /\ v4' = v4 /\ v5' = v5 /\ v8' = v8 /\ v9' = v9 /\ v10' = v10
  BY DEF S!BeginRun
<1>8. v7' \subseteq S!Deliveries /\ v2' \in 0 .. NDeliveries
  BY <1>4, <1>7 DEF SessionState, S!SessionTypeOK
<1>9. "control" \in SessionAts  BY DEF SessionAts
<1>10. s.last \in {0, v1.last, v6[d].last} /\ s.turn = v6[d].turn  BY <1>6 DEF h
<1> QED  BY <1>1, <1>3, <1>5, <1>7, <1>8, <1>9, <1>10, SaveKeepsState

LEMMA ControlKeeps ==
    ASSUME SessionState, NEW d \in S!Deliveries, S!ControlNodes(d) PROVE SessionState'
<1> DEFINE h == v6[d]  s == S!Interrupted(h)
<1>1. d \in Saving /\ v3[d] = "control"  BY DEF S!ControlNodes, Saving
<1>2. h \in S!Task  BY DEF SessionState, S!SessionTypeOK
<1>3. v1' = S!SessionSaved(s) /\ v6' = [v6 EXCEPT ![d] = s]  BY DEF S!ControlNodes
<1> HIDE DEF h
<1>4. s \in {[h EXCEPT !.steer = TRUE], [h EXCEPT !.asked = FALSE], h}
  BY DEF S!Interrupted
<1>5. s \in S!Task  BY <1>2, <1>4, ZenonT(60) DEF S!Task
<1>6. s.last = h.last /\ s.turn = h.turn  BY <1>2, <1>4 DEF S!Task
<1> HIDE DEF s
<1>7. /\ v3' = [v3 EXCEPT ![d] = "turn"] /\ v2' = v2 /\ v7' = v7
      /\ v4' = v4 /\ v5' = v5 /\ v8' = v8 /\ v9' = v9 /\ v10' = v10
  BY DEF S!ControlNodes
<1>8. v7' \subseteq S!Deliveries /\ v2' \in 0 .. NDeliveries
  BY <1>7 DEF SessionState, S!SessionTypeOK
<1>9. "turn" \in SessionAts  BY DEF SessionAts
<1>10. s.last \in {0, v1.last, v6[d].last} /\ s.turn = v6[d].turn  BY <1>6 DEF h
<1> QED  BY <1>1, <1>3, <1>5, <1>7, <1>8, <1>9, <1>10, SaveKeepsState

LEMMA EndedTypes ==
    ASSUME NEW h \in S!Task, NEW s \in S!Ended(h)
    PROVE  s \in S!Task /\ s.last = h.last /\ s.turn = h.turn
<1>1. /\ [h EXCEPT !.status = "COMPLETED"] \in S!Task
      /\ [h EXCEPT !.status = "COMPLETED", !.pending = TRUE] \in S!Task
      /\ [h EXCEPT !.status = "FAILED"] \in S!Task
      /\ [h EXCEPT !.status = "PAUSED", !.gate = TRUE] \in S!Task
      /\ [h EXCEPT !.status = "PAUSED", !.review = TRUE] \in S!Task
  BY DEF S!Task
<1>2. s.last = h.last /\ s.turn = h.turn  BY DEF S!Ended, S!Task
<1> QED  BY <1>1, <1>2 DEF S!Ended

LEMMA TurnEndKeeps ==
    ASSUME SessionState, NEW d \in S!Deliveries, S!EndTurn(d) PROVE SessionState'
<1>1. d \in Saving /\ v3[d] = "turn"  BY DEF S!EndTurn, Saving
<1>2. v6[d] \in S!Task  BY DEF SessionState, S!SessionTypeOK
<1>3. /\ v3' = [v3 EXCEPT ![d] = "stamp"] /\ v2' \in {0, v2} /\ v7' = v7 \cup {d}
      /\ v4' = v4 /\ v5' = v5 /\ v8' = v8 /\ v9' = v9 /\ v10' = v10
  BY DEF S!EndTurn
<1>4. v7' \subseteq S!Deliveries /\ v2' \in 0 .. NDeliveries
  BY <1>3, SessionConstants DEF SessionState, S!SessionTypeOK
<1>5. "stamp" \in SessionAts  BY DEF SessionAts
<1>6. ASSUME NEW s \in S!Ended(v6[d]), v1' = S!SessionSaved(s), v6' = [v6 EXCEPT ![d] = s]
      PROVE  SessionState'
  <2>1. s \in S!Task /\ s.last = v6[d].last /\ s.turn = v6[d].turn
    BY <1>2, EndedTypes
  <2>2. s.last \in {0, v1.last, v6[d].last} /\ s.turn = v6[d].turn  BY <2>1
  <2> QED  BY <1>1, <1>3, <1>4, <1>5, <1>6, <2>1, <2>2, SaveKeepsState
<1>7. \E s \in S!Ended(v6[d]) : v6' = [v6 EXCEPT ![d] = s] /\ v1' = S!SessionSaved(s)
  BY Zenon DEF S!EndTurn
<1> QED  BY <1>6, <1>7

LEMMA OpenKeeps ==
    ASSUME SessionState, NEW d \in S!Deliveries, S!OpenTurn(d) PROVE SessionState'
<1> DEFINE h == v6[d]  n == S!PreparedTurn(h)
<1>1. v3[d] = "open" /\ d \in Saving /\ d \in S!Underway
  BY DEF S!OpenTurn, Saving, S!Underway
<1>2. h \in S!Task /\ v1 \in S!Task  BY DEF SessionState, S!SessionTypeOK
<1>3. v1' = S!SessionSaved(n) /\ v6' = [v6 EXCEPT ![d] = n]  BY DEF S!OpenTurn
<1>4. /\ v3' = [v3 EXCEPT ![d] = "begin"] /\ v8' = [v8 EXCEPT ![v4[d]] = @ + 1]
      /\ v5' = [v5 EXCEPT ![d] = S!Plain]
      /\ v2' = v2 /\ v4' = v4 /\ v7' = v7 /\ v9' = v9 /\ v10' = v10
  BY DEF S!OpenTurn
<1>5. Opened' = Opened \cup {d} /\ d \notin Opened
  BY <1>1, <1>4 DEF Opened, SessionState, S!SessionTypeOK
<1>6. Cardinality(Opened') = Cardinality(Opened) + 1 /\ Cardinality(Opened) < NDeliveries
  BY <1>5, OpenedMore
<1>7. v1.turn < NDeliveries /\ v1.turn \in Nat
  BY <1>2, <1>6, OpenedCount, SessionConstants DEF SessionState, TurnsCounted, S!Task
<1>8. n \in S!Task /\ n.turn <= v1.turn + 1 /\ n.last \in {0, v1.last, v6[d].last}
  BY <1>2, <1>7, PreparedTypes
<1> HIDE DEF n, h
<1>9. /\ v1' \in S!Task /\ v1'.turn \in {v1.turn, n.turn}
      /\ v1'.last = v1.last \/ v1.last \in v9
  BY <1>1, <1>3, <1>8, SaveMoves
<1>10. S!SessionTypeOK'
  <2>1. v8' \in [MessageIds -> Nat]
    <3>1. v4[d] \in MessageIds  BY <1>1 DEF SessionState, OverlapsKnown
    <3> QED  BY <1>4, <3>1 DEF SessionState, S!SessionTypeOK
  <2>2. v5' \in [S!Deliveries -> S!Message]
    BY <1>4, PlainTypes DEF SessionState, S!SessionTypeOK
  <2>3. /\ v3' \in [S!Deliveries -> SessionAts] /\ v6' \in [S!Deliveries -> S!Task]
    BY <1>3, <1>4, <1>8 DEF SessionState, S!SessionTypeOK, SessionAts
  <2> QED  BY <1>4, <1>9, <2>1, <2>2, <2>3 DEF SessionState, S!SessionTypeOK, SessionAts
<1>11. TurnsCounted'
  <2>1. \A c \in S!Deliveries : v6'[c].turn = IF c = d THEN n.turn ELSE v6[c].turn
    BY <1>3 DEF SessionState, S!SessionTypeOK
  <2>2. n.turn \in Nat /\ \A c \in S!Deliveries : v6[c].turn \in Nat
    BY <1>8, SessionConstants DEF SessionState, S!SessionTypeOK, S!Task
  <2>3. v1.turn <= Cardinality(Opened) /\ \A c \in S!Deliveries : v6[c].turn <= Cardinality(Opened)
    BY DEF SessionState, TurnsCounted
  <2>4. n.turn <= Cardinality(Opened')  BY <1>6, <1>7, <1>8, <2>2, <2>3, OpenedCount
  <2>5. v1'.turn <= Cardinality(Opened')
    BY <1>6, <1>7, <1>9, <2>3, <2>4, OpenedCount
  <2>6. \A c \in S!Deliveries : v6'[c].turn <= Cardinality(Opened')
    BY <1>6, <2>1, <2>2, <2>3, <2>4, OpenedCount
  <2> QED  BY <2>5, <2>6 DEF TurnsCounted
<1>12. OverlapsKnown'  BY <1>1, <1>4, SameOverlaps
<1>13. LastsKnown'  BY <1>1, <1>3, <1>4, <1>8, SaveLasts
<1>14. TurnsRemembered'
  <2> SUFFICES ASSUME NEW i \in MessageIds \ v9 PROVE OpenedOnce(i)'
    BY <1>4 DEF TurnsRemembered
  <2>1. OpenedOnce(i)  BY DEF SessionState, TurnsRemembered
  <2>2. \A c \in S!Deliveries : v3'[c] = IF c = d THEN "begin" ELSE v3[c]
    BY <1>4 DEF SessionState, S!SessionTypeOK
  <2>3. v8'[i] = IF i = v4[d] THEN v8[i] + 1 ELSE v8[i]
    BY <1>4 DEF SessionState, S!SessionTypeOK
  <2>4. CASE i = v4[d]
    <3>1. v8[i] = 0  BY <1>1, <2>1, <2>4 DEF OpenedOnce
    <3>2. v8'[i] = 1  BY <2>3, <2>4, <3>1
    <3>3. ASSUME NEW c \in S!Deliveries, v4[c] = i, c # d
          PROVE  v3[c] \notin {"cancel", "open"}
      <4>1. c \notin S!Underway
        BY <1>1, <3>3 DEF SessionState, OverlapsKnown
      <4> QED  BY <4>1 DEF S!Underway
    <3>4. \A c \in S!Deliveries : v4'[c] = i => v3'[c] \notin {"cancel", "open"}
      BY <1>4, <2>2, <3>3
    <3>5. v4'[d] = i /\ v3'[d] = "begin"  BY <1>4, <2>2, <2>4
    <3> QED  BY <3>2, <3>4, <3>5 DEF OpenedOnce
  <2>5. CASE i # v4[d] /\ v8[i] = 0
    BY <2>3, <2>5 DEF OpenedOnce
  <2>6. CASE i # v4[d] /\ v8[i] # 0
    <3>1. /\ v8'[i] = 1
          /\ \A c \in S!Deliveries : v4'[c] = i => v3'[c] \notin {"cancel", "open"}
      BY <1>4, <2>1, <2>2, <2>3, <2>6 DEF OpenedOnce
    <3>2. CASE v1.last = i  BY <1>9, <3>1, <3>2 DEF OpenedOnce
    <3>3. CASE v1.last # i
      <4>1. PICK c \in S!Deliveries :
               v4[c] = i /\ v3[c] \in {"begin", "control", "turn", "stamp"}
        BY <2>1, <2>6, <3>3 DEF OpenedOnce
      <4>2. v4'[c] = i /\ v3'[c] \in {"begin", "control", "turn", "stamp"}
        BY <1>4, <2>2, <2>6, <4>1
      <4> QED  BY <3>1, <4>2 DEF OpenedOnce
    <3> QED  BY <3>2, <3>3
  <2> QED  BY <2>4, <2>5, <2>6
<1> QED  BY <1>10, <1>11, <1>12, <1>13, <1>14 DEF SessionState

\* The stamp is always stored: it does not reopen a row.
LEMMA StampStored ==
    ASSUME v1 \in S!Task, NEW i \in MessageIds
    PROVE  /\ S!SessionSaved([v1 EXCEPT !.last = i]) \in S!Task
           /\ S!SessionSaved([v1 EXCEPT !.last = i]).last = i
           /\ S!SessionSaved([v1 EXCEPT !.last = i]).turn = v1.turn
<1> DEFINE s == [v1 EXCEPT !.last = i]  k == S!Kept(s)
<1>1. s \in S!Task /\ s.last = i /\ s.turn = v1.turn /\ s.status = v1.status
  BY DEF S!Task
<1>2. i # 0  BY SessionConstants
<1> HIDE DEF s
<1>3. S!Unfinished(s) = S!Unfinished(v1)  BY <1>1 DEF S!Unfinished
<1>4. S!SessionSaved(s) = S!Synced(k)  BY <1>3 DEF S!SessionSaved
<1>5. k \in S!Task /\ k.last = i /\ k.turn = v1.turn
  BY <1>1, <1>2, KeptKeeps
<1> HIDE DEF k
<1>6. S!Synced(k) \in S!Task /\ S!Synced(k).last = i /\ S!Synced(k).turn = v1.turn
  BY <1>5, SyncedKeeps
<1> QED  BY <1>4, <1>6 DEF s


\* Stamping: the id that was remembered is displaced, and the id that is
\* remembered now was disturbed if another delivery is under way.
LEMMA StampKeeps ==
    ASSUME SessionState, NEW d \in S!Deliveries, S!StampApplied(d) PROVE SessionState'
<1> DEFINE i == v4[d]
<1>1. v3[d] = "stamp" /\ d \in S!Underway  BY DEF S!StampApplied, S!Underway
<1>2. i \in MessageIds /\ i # 0
  BY <1>1, SessionConstants DEF SessionState, OverlapsKnown
<1>3. v1 \in S!Task /\ v1.last \in MessageIds \cup {0}
  BY DEF SessionState, S!SessionTypeOK, S!Task
<1>4. v1' = S!SessionSaved([v1 EXCEPT !.last = i])  BY DEF S!StampApplied
<1>5. v1' \in S!Task /\ v1'.last = i /\ v1'.turn = v1.turn
  BY <1>2, <1>3, <1>4, StampStored
<1>6. /\ v9' = v9 \cup ({v1.last} \ {0, i})
      /\ v3' = [v3 EXCEPT ![d] = "done"] /\ v4' = [v4 EXCEPT ![d] = 0]
      /\ v5' = [v5 EXCEPT ![d] = S!Plain]
      /\ v6' \in {v6, [v6 EXCEPT ![d] = S!NoTask]}
      /\ v2' = v2 /\ v7' = v7 /\ v8' = v8 /\ v10' = v10
  BY DEF S!StampApplied
<1> HIDE DEF i
<1>7. \A c \in S!Deliveries :
         /\ v3'[c] = (IF c = d THEN "done" ELSE v3[c]) /\ v4'[c] = (IF c = d THEN 0 ELSE v4[c])
  BY <1>6 DEF SessionState, S!SessionTypeOK
<1>8. \A c \in S!Deliveries : v6'[c] \in {v6[c], S!NoTask}
  BY <1>6 DEF SessionState, S!SessionTypeOK
<1>9. S!SessionTypeOK'
  <2>1. v9' \subseteq MessageIds  BY <1>3, <1>6 DEF SessionState, S!SessionTypeOK
  <2>2. /\ v3' \in [S!Deliveries -> SessionAts] /\ v4' \in [S!Deliveries -> MessageIds \cup {0}]
        /\ v5' \in [S!Deliveries -> S!Message]
    BY <1>6, PlainTypes DEF SessionState, S!SessionTypeOK, SessionAts
  <2>3. v6' \in [S!Deliveries -> S!Task]
    BY <1>6, NoTaskTypes DEF SessionState, S!SessionTypeOK
  <2> QED  BY <1>5, <1>6, <2>1, <2>2, <2>3 DEF SessionState, S!SessionTypeOK, SessionAts
<1>10. TurnsCounted'
  <2>1. Opened \subseteq Opened'  BY <1>7 DEF Opened
  <2>2. Cardinality(Opened) <= Cardinality(Opened')  BY <2>1, OpenedGrows
  <2>3. /\ v1.turn \in Nat /\ \A c \in S!Deliveries : v6[c].turn \in Nat
    BY SessionConstants DEF SessionState, S!SessionTypeOK, S!Task
  <2>4. \A c \in S!Deliveries : v6'[c].turn \in {v6[c].turn, 0}
    BY <1>8, NoTaskTypes
  <2> QED  BY <1>5, <2>2, <2>3, <2>4, OpenedCount DEF SessionState, TurnsCounted
<1>11. OverlapsKnown'  BY <1>1, <1>6, <1>7, SameOverlaps, ZenonT(60)
<1>12. LastsKnown'
  <2> DEFINE old == v1.last  L(c) == v6[c].last
  <2>1. \A c \in S!Deliveries : L(c) \in {0, old} \cup v9
    BY DEF SessionState, LastsKnown
  <2>2. \A c \in S!Deliveries : v6'[c].last \in {L(c), 0}  BY <1>8, NoTaskTypes
  <2>3. v9' = v9 \cup ({old} \ {0, i})  BY <1>6
  <2>4. ASSUME NEW c \in Saving' PROVE v1'.last \in v9'
    <3>1. c # d /\ c \in S!Deliveries /\ c \in S!Underway
      BY <1>7 DEF Saving, S!Underway
    <3>2. i \in v9  BY <1>1, <3>1 DEF SessionState, OverlapsKnown, i
    <3> QED  BY <1>5, <2>3, <3>2
  <2> HIDE DEF old, L
  <2>5. \A c \in S!Deliveries : v6'[c].last \in {0, i} \cup v9'
    BY <2>1, <2>2, <2>3
  <2> QED  BY <1>2, <1>5, <2>4, <2>5 DEF LastsKnown
<1>13. TurnsRemembered'
  <2> SUFFICES ASSUME NEW j \in MessageIds \ v9' PROVE OpenedOnce(j)'
    BY DEF TurnsRemembered
  <2>1. j \notin v9 /\ j # 0  BY <1>6, SessionConstants
  <2>2. OpenedOnce(j)  BY <2>1 DEF SessionState, TurnsRemembered
  <2>3. CASE v8[j] = 0  BY <1>6, <2>3 DEF OpenedOnce
  <2>4. CASE v8[j] # 0
    <3>1. /\ v8'[j] = 1
          /\ \A c \in S!Deliveries : v4'[c] = j => v3'[c] \notin {"cancel", "open"}
      BY <1>6, <1>7, <2>2, <2>4 DEF OpenedOnce
    <3>2. CASE j = i  BY <1>5, <3>1, <3>2 DEF OpenedOnce
    <3>3. CASE j # i
      <4>1. v1.last # j  BY <1>6, <2>1, <3>3
      <4>2. PICK c \in S!Deliveries :
               v4[c] = j /\ v3[c] \in {"begin", "control", "turn", "stamp"}
        BY <2>2, <2>4, <4>1 DEF OpenedOnce
      <4>3. c # d  BY <3>3, <4>2 DEF i
      <4>4. v4'[c] = j /\ v3'[c] \in {"begin", "control", "turn", "stamp"}
        BY <1>7, <4>2, <4>3
      <4> QED  BY <3>1, <4>4 DEF OpenedOnce
    <3> QED  BY <3>2, <3>3
  <2> QED  BY <2>3, <2>4
<1> QED  BY <1>9, <1>10, <1>11, <1>12, <1>13 DEF SessionState

\* The steps outside of the handlers: a closer and a request for a pause.
LEMMA OtherSaveKeeps ==
    ASSUME SessionState, v1' \in S!Task, v3' = v3, v4' = v4, v8' = v8,
           v1'.turn <= Cardinality(Opened), v9 \subseteq v9', v9' \subseteq MessageIds,
           v1'.last = 0 => v1.last = 0,
           v1'.last = v1.last \/ (v1.last \in v9' /\ v1'.last \in v9'),
           v6' \in [S!Deliveries -> S!Task],
           \A c \in S!Deliveries : v6'[c] \in {v6[c], S!NoTask},
           v2' = v2, v5' = v5, v7' \subseteq S!Deliveries, v10' \in 0 .. 1
    PROVE  SessionState'
<1>1. S!SessionTypeOK'  BY DEF SessionState, S!SessionTypeOK
<1>2. TurnsCounted'
  <2>1. Opened' = Opened  BY DEF Opened
  <2>2. \A c \in S!Deliveries : v6'[c].turn \in {v6[c].turn, 0}  BY NoTaskTypes
  <2> QED  BY <2>1, <2>2, OpenedCount DEF SessionState, TurnsCounted
<1>3. OverlapsKnown'  BY DEF SessionState, OverlapsKnown, S!Underway
<1>4. LastsKnown'
  <2> DEFINE old == v1.last  new == v1'.last  L(c) == v6[c].last
  <2>1. /\ \A c \in S!Deliveries : L(c) \in {0, old} \cup v9
        /\ \A c \in S!Deliveries : old = 0 => L(c) = 0
        /\ \A c \in Saving : L(c) \in {0, old} \/ old \in v9
    BY DEF SessionState, LastsKnown
  <2>2. \A c \in S!Deliveries : v6'[c].last \in {L(c), 0}  BY NoTaskTypes
  <2>3. Saving' = Saving /\ Saving \subseteq S!Deliveries  BY DEF Saving
  <2>4. (new = 0 => old = 0) /\ (new = old \/ (old \in v9' /\ new \in v9'))  OBVIOUS
  <2> HIDE DEF old, new, L
  <2>5. \A c \in S!Deliveries : v6'[c].last \in {0, new} \cup v9'
    BY <2>1, <2>2, <2>4
  <2>6. \A c \in S!Deliveries : new = 0 => v6'[c].last = 0
    BY <2>1, <2>2, <2>4
  <2>7. \A c \in Saving : v6'[c].last \in {0, new} \/ new \in v9'
    BY <2>1, <2>2, <2>3, <2>4
  <2> QED  BY <2>3, <2>5, <2>6, <2>7 DEF LastsKnown, new
<1>5. TurnsRemembered'
  <2> SUFFICES ASSUME NEW i \in MessageIds \ v9' PROVE OpenedOnce(i)'
    BY DEF TurnsRemembered
  <2>1. OpenedOnce(i)  BY DEF SessionState, TurnsRemembered
  <2>2. v1.last = i => v1'.last = i  OBVIOUS
  <2> QED  BY <2>1, <2>2 DEF OpenedOnce
<1> QED  BY <1>1, <1>2, <1>3, <1>4, <1>5 DEF SessionState

LEMMA CloserKeeps ==
    ASSUME SessionState, NEW d \in S!Deliveries, S!CloseTurn(d) PROVE SessionState'
<1>1. v1 \in S!Task /\ v6[d] \in S!Task  BY DEF SessionState, S!SessionTypeOK
<1>2. v1' = S!SessionSaved(v6[d])  BY DEF S!CloseTurn
<1>3. /\ v1' \in S!Task /\ v1'.turn \in {v1.turn, v6[d].turn}
      /\ v1'.last \in {v1.last, v6[d].last} /\ (v1'.last = 0 => v1.last = 0)
  BY <1>1, <1>2, SavedKeeps
<1>4. /\ v9' = (IF v1'.last # v1.last THEN v9 \cup {v1.last} ELSE v9)
      /\ v7' = v7 \ {d} /\ v6' = [v6 EXCEPT ![d] = S!NoTask]
      /\ v2' = v2 /\ v3' = v3 /\ v4' = v4 /\ v5' = v5 /\ v8' = v8 /\ v10' = v10
  BY DEF S!CloseTurn
<1>5. /\ v6[d].last \in {0, v1.last} \cup v9 /\ (v1.last = 0 => v6[d].last = 0)
      /\ v1.turn <= Cardinality(Opened) /\ v6[d].turn <= Cardinality(Opened)
  BY DEF SessionState, LastsKnown, TurnsCounted
<1>6. v1.last \in MessageIds \cup {0}  BY <1>1 DEF S!Task
<1>7. /\ v9 \subseteq v9' /\ v9' \subseteq MessageIds
      /\ v1'.last = v1.last \/ (v1.last \in v9' /\ v1'.last \in v9')
  BY <1>3, <1>4, <1>5, <1>6 DEF SessionState, S!SessionTypeOK
<1>8. /\ v6' \in [S!Deliveries -> S!Task]
      /\ \A c \in S!Deliveries : v6'[c] \in {v6[c], S!NoTask}
  BY <1>4, NoTaskTypes DEF SessionState, S!SessionTypeOK
<1>9. v7' \subseteq S!Deliveries /\ v10' \in 0 .. 1
  BY <1>4 DEF SessionState, S!SessionTypeOK
<1>10. v1'.turn <= Cardinality(Opened)  BY <1>3, <1>5
<1> QED  BY <1>3, <1>4, <1>7, <1>8, <1>9, <1>10, OtherSaveKeeps

LEMMA PauseKeeps == ASSUME SessionState, S!RequestPause PROVE SessionState'
<1> DEFINE s == [v1 EXCEPT !.asked = TRUE]
<1>1. v1 \in S!Task  BY DEF SessionState, S!SessionTypeOK
<1>2. s \in S!Task /\ s.last = v1.last /\ s.turn = v1.turn  BY <1>1 DEF S!Task
<1>3. v1' = S!SessionSaved(s)  BY DEF S!RequestPause
<1> HIDE DEF s
<1>4. v1' \in S!Task /\ v1'.turn = v1.turn /\ v1'.last = v1.last
  BY <1>1, <1>2, <1>3, SavedKeeps
<1>5. /\ v2' = v2 /\ v3' = v3 /\ v4' = v4 /\ v5' = v5 /\ v6' = v6 /\ v7' = v7
      /\ v8' = v8 /\ v9' = v9 /\ v10' = 1
  BY DEF S!RequestPause
<1>6. v1'.turn <= Cardinality(Opened)  BY <1>4 DEF SessionState, TurnsCounted
<1>7. /\ v9' \subseteq MessageIds /\ v6' \in [S!Deliveries -> S!Task]
      /\ v7' \subseteq S!Deliveries /\ v10' \in 0 .. 1
  BY <1>5 DEF SessionState, S!SessionTypeOK
<1> QED  BY <1>4, <1>5, <1>6, <1>7, OtherSaveKeeps


\* What receiving a delivery comes to: an id that the row remembers is done
\* with, any other gets a handler with a snapshot of the row or a fresh one.
ReceivedAgain(d) ==
    v3' = [v3 EXCEPT ![d] = "done"] /\ v4' = v4 /\ v5' = v5 /\ v6' = v6

ReceivedNew(d, i, m, q, r) ==
    /\ q \in {"open", "cancel", "stamp"} /\ r \in S!Task
    /\ r.last \in {0, v1.last} /\ r.turn \in {0, v1.turn}
    /\ v3' = [v3 EXCEPT ![d] = q] /\ v4' = [v4 EXCEPT ![d] = i]
    /\ v5' = [v5 EXCEPT ![d] = m] /\ v6' = [v6 EXCEPT ![d] = r]

LEMMA ReceiveShape ==
    ASSUME v1 \in S!Task, NEW d \in S!Deliveries, NEW i \in MessageIds,
           NEW m \in S!Message, NEW direct \in BOOLEAN, S!Receive(d, i, m, direct)
    PROVE  /\ v3[d] = "idle" /\ v1' = v1 /\ v2' = v2 /\ v7' = v7 /\ v8' = v8 /\ v10' = v10
           /\ v9' = IF S!Underway = {} THEN v9
                    ELSE v9 \cup {i} \cup {v4[c] : c \in S!Underway}
           /\ \/ v1.last = i /\ ReceivedAgain(d)
              \/ v1.last # i /\ \E q, r : ReceivedNew(d, i, m, q, r)
<1> DEFINE s == S!Synced(v1)
           h == S!Inbound(s, m)
           e == S!Dispatched(s, h.event)
           fresh == direct \/ v1.status = "NONE"
           q == IF fresh THEN "open" ELSE S!DispatchOf(s, e)
           f == [S!NoTask EXCEPT !.msg = m]
           r == IF fresh THEN f ELSE IF S!DispatchOf(s, e) = "cancel" THEN s ELSE h
<1>1. s \in S!Task /\ s.last = v1.last /\ s.turn = v1.turn  BY SyncedKeeps
<1>2. h \in S!Task /\ h.last = v1.last /\ h.turn = v1.turn  BY <1>1, InboundKeeps
<1>3. f \in S!Task /\ f.last = 0 /\ f.turn = 0  BY NoTaskTypes DEF S!Task
<1>4. r \in {f, s, h}  OBVIOUS
<1>5. q \in {"open", "cancel", "stamp"}  BY DEF S!DispatchOf
<1>6. S!Receive(d, i, m, direct) =>
         IF S!AlreadyApplied(i)
         THEN v3' = [v3 EXCEPT ![d] = "done"] /\ UNCHANGED <<v4, v5, v6>>
         ELSE /\ v3' = [v3 EXCEPT ![d] = q]
              /\ v4' = [v4 EXCEPT ![d] = i]
              /\ v5' = [v5 EXCEPT ![d] = m]
              /\ v6' = [v6 EXCEPT ![d] = r]
  BY DEF S!Receive
<1>7. /\ v3[d] = "idle" /\ v1' = v1 /\ v2' = v2 /\ v7' = v7 /\ v8' = v8 /\ v10' = v10
      /\ v9' = IF S!Underway = {} THEN v9
               ELSE v9 \cup {i} \cup {v4[c] : c \in S!Underway}
  BY DEF S!Receive
<1> HIDE DEF s, h, e, f, q, r
<1>8. r \in S!Task /\ r.last \in {0, v1.last} /\ r.turn \in {0, v1.turn}
  BY <1>1, <1>2, <1>3, <1>4
<1>9. CASE v1.last = i  BY <1>6, <1>7, <1>9 DEF S!AlreadyApplied, ReceivedAgain
<1>10. CASE v1.last # i
  <2>1. ReceivedNew(d, i, m, q, r)
    BY <1>5, <1>6, <1>8, <1>10 DEF S!AlreadyApplied, ReceivedNew
  <2> QED  BY <1>7, <1>10, <2>1
<1> QED  BY <1>9, <1>10

LEMMA ReceiveKeeps ==
    ASSUME SessionState, NEW d \in S!Deliveries, NEW i \in MessageIds,
           NEW m \in S!Message, NEW direct \in BOOLEAN, S!Receive(d, i, m, direct)
    PROVE  SessionState'
<1>1. v1 \in S!Task  BY DEF SessionState, S!SessionTypeOK
<1>2. /\ v3[d] = "idle" /\ v1' = v1 /\ v2' = v2 /\ v7' = v7 /\ v8' = v8 /\ v10' = v10
      /\ v9' = IF S!Underway = {} THEN v9
               ELSE v9 \cup {i} \cup {v4[c] : c \in S!Underway}
      /\ \/ v1.last = i /\ ReceivedAgain(d)
         \/ v1.last # i /\ \E q, r : ReceivedNew(d, i, m, q, r)
  BY <1>1, ReceiveShape
<1>3. d \notin S!Underway /\ d \notin Opened  BY <1>2 DEF S!Underway, Opened
<1>4. \A c \in S!Underway : v4[c] \in MessageIds
  BY DEF SessionState, OverlapsKnown
<1>5. v9 \subseteq v9' /\ v9' \subseteq MessageIds
  BY <1>2, <1>4 DEF SessionState, S!SessionTypeOK
<1>6. S!Underway # {} => i \in v9' /\ \A c \in S!Underway : v4[c] \in v9'
  BY <1>2
<1>7. CASE v1.last = i /\ ReceivedAgain(d)
  <2>1. \A c \in S!Deliveries : v3'[c] = IF c = d THEN "done" ELSE v3[c]
    BY <1>7 DEF ReceivedAgain, SessionState, S!SessionTypeOK
  <2>2. v4' = v4 /\ v5' = v5 /\ v6' = v6  BY <1>7 DEF ReceivedAgain
  <2>3. S!SessionTypeOK'
    BY <1>2, <1>5, <1>7 DEF ReceivedAgain, SessionState, S!SessionTypeOK
  <2>4. TurnsCounted'
    <3>1. Opened \subseteq Opened'  BY <2>1 DEF Opened
    <3>2. Cardinality(Opened) <= Cardinality(Opened')  BY <3>1, OpenedGrows
    <3>3. /\ v1.turn \in Nat /\ \A c \in S!Deliveries : v6[c].turn \in Nat
      BY SessionConstants DEF SessionState, S!SessionTypeOK, S!Task
    <3> QED  BY <1>2, <2>2, <3>2, <3>3, OpenedCount DEF SessionState, TurnsCounted
  <2>5. S!Underway' = S!Underway  BY <1>2, <2>1 DEF S!Underway
  <2>6. OverlapsKnown'  BY <1>5, <2>2, <2>5 DEF SessionState, OverlapsKnown
  <2>7. LastsKnown'
    <3>1. Saving' = Saving  BY <1>2, <2>1 DEF Saving
    <3> QED  BY <1>2, <1>5, <2>2, <3>1 DEF SessionState, LastsKnown
  <2>8. TurnsRemembered'
    <3> SUFFICES ASSUME NEW j \in MessageIds \ v9' PROVE OpenedOnce(j)'
      BY DEF TurnsRemembered
    <3>1. OpenedOnce(j)  BY <1>5 DEF SessionState, TurnsRemembered
    <3>2. \A c \in S!Deliveries :
             /\ v3[c] \notin {"cancel", "open"} => v3'[c] \notin {"cancel", "open"}
             /\ v3[c] \in {"begin", "control", "turn", "stamp"} => v3'[c] = v3[c]
      BY <1>2, <2>1
    <3> QED  BY <1>2, <2>2, <3>1, <3>2 DEF OpenedOnce
  <2> QED  BY <2>3, <2>4, <2>6, <2>7, <2>8 DEF SessionState
<1>8. ASSUME v1.last # i, NEW q, NEW r, ReceivedNew(d, i, m, q, r)
      PROVE  SessionState'
  <2> DEFINE at(c) == v3'[c]  name(c) == v4'[c]  h(c) == v6'[c]
  <2>1. /\ \A c \in S!Deliveries : at(c) = IF c = d THEN q ELSE v3[c]
        /\ \A c \in S!Deliveries : name(c) = IF c = d THEN i ELSE v4[c]
        /\ \A c \in S!Deliveries : h(c) = IF c = d THEN r ELSE v6[c]
    BY <1>8 DEF ReceivedNew, SessionState, S!SessionTypeOK
  <2>2. /\ q \in {"open", "cancel", "stamp"} /\ r \in S!Task
        /\ r.last \in {0, v1.last} /\ r.turn \in {0, v1.turn}
    BY <1>8 DEF ReceivedNew
  <2>3. S!SessionTypeOK'
    BY <1>2, <1>5, <1>8, <2>2 DEF ReceivedNew, SessionState, S!SessionTypeOK
  <2>4. TurnsCounted'
    <3>1. Opened \subseteq Opened'  BY <1>3, <2>1 DEF Opened
    <3>2. Cardinality(Opened) <= Cardinality(Opened')  BY <3>1, OpenedGrows
    <3>3. /\ v1.turn \in Nat /\ \A c \in S!Deliveries : v6[c].turn \in Nat
      BY SessionConstants DEF SessionState, S!SessionTypeOK, S!Task
    <3>4. \A c \in S!Deliveries : v6'[c].turn = IF c = d THEN r.turn ELSE v6[c].turn
      BY <2>1
    <3>5. v1.turn <= Cardinality(Opened) /\ \A c \in S!Deliveries : v6[c].turn <= Cardinality(Opened)
      BY DEF SessionState, TurnsCounted
    <3>6. \A c \in S!Deliveries : v6'[c].turn <= Cardinality(Opened')
      BY <2>2, <3>2, <3>3, <3>4, <3>5, OpenedCount
    <3>7. v1'.turn <= Cardinality(Opened')
      BY <1>2, <3>2, <3>3, <3>5, OpenedCount
    <3> QED  BY <3>6, <3>7 DEF TurnsCounted
  <2>5. S!Underway' = S!Underway \cup {d}
    BY <1>2, <2>1, <2>2 DEF S!Underway
  <2>6. OverlapsKnown'
    <3>1. \A c \in S!Underway' : c = d \/ (c \in S!Underway /\ c # d /\ c \in S!Deliveries)
      BY <1>3, <2>5 DEF S!Underway
    <3>2. \A c \in S!Underway' : name(c) \in MessageIds
      BY <1>4, <2>1, <3>1
    <3>3. ASSUME NEW b \in S!Underway', NEW c \in S!Underway', b # c
          PROVE  name(b) \in v9'
      <4>1. S!Underway # {}  BY <3>1, <3>3
      <4> QED  BY <1>6, <2>1, <3>1, <4>1
    <3> QED  BY <3>2, <3>3 DEF OverlapsKnown
  <2>7. LastsKnown'
    <3> DEFINE old == v1.last  L(c) == v6[c].last
    <3>1. /\ \A c \in S!Deliveries : L(c) \in {0, old} \cup v9
          /\ \A c \in S!Deliveries : old = 0 => L(c) = 0
          /\ \A c \in Saving : L(c) \in {0, old} \/ old \in v9
      BY DEF SessionState, LastsKnown
    <3>2. \A c \in S!Deliveries : v6'[c].last = IF c = d THEN r.last ELSE L(c)
      BY <2>1
    <3>3. \A c \in Saving' : c \in S!Deliveries /\ (c = d \/ c \in Saving)
      BY <2>1 DEF Saving
    <3>4. v1'.last = old  BY <1>2
    <3>5. r.last \in {0, old}  BY <2>2
    <3> HIDE DEF old, L
    <3>6. \A c \in S!Deliveries : v6'[c].last \in {0, old} \cup v9'
      BY <1>5, <3>1, <3>2, <3>5
    <3>7. \A c \in S!Deliveries : old = 0 => v6'[c].last = 0
      BY <3>1, <3>2, <3>5
    <3>8. \A c \in Saving' : v6'[c].last \in {0, old} \/ old \in v9'
      BY <1>5, <3>1, <3>2, <3>3, <3>5
    <3> QED  BY <3>4, <3>6, <3>7, <3>8 DEF LastsKnown
  <2>8. TurnsRemembered'
    <3> SUFFICES ASSUME NEW j \in MessageIds \ v9' PROVE OpenedOnce(j)'
      BY DEF TurnsRemembered
    <3>1. OpenedOnce(j)  BY <1>5 DEF SessionState, TurnsRemembered
    <3>2. CASE v8[j] = 0  BY <1>2, <3>2 DEF OpenedOnce
    <3>3. CASE v8[j] # 0
      <4>1. j # i
        <5>1. SUFFICES ASSUME j = i PROVE FALSE  OBVIOUS
        <5>2. S!Underway = {}  BY <1>6, <5>1
        <5>3. PICK c \in S!Deliveries : v3[c] \in {"begin", "control", "turn", "stamp"}
          BY <1>8, <3>1, <3>3, <5>1 DEF OpenedOnce
        <5>4. c \in S!Underway  BY <5>3 DEF S!Underway
        <5> QED  BY <5>2, <5>4
      <4>2. \A c \in S!Deliveries :
               /\ v4'[c] = j => v4[c] = j /\ v3'[c] = v3[c]
               /\ v4[c] = j /\ v3[c] # "idle" => v4'[c] = j /\ v3'[c] = v3[c]
        BY <1>2, <2>1, <4>1
      <4> HIDE DEF at, name, h
      <4>3. /\ v8'[j] = 1
            /\ \A c \in S!Deliveries : v4'[c] = j => v3'[c] \notin {"cancel", "open"}
        BY <1>2, <3>1, <3>3, <4>2 DEF OpenedOnce
      <4>4. CASE v1.last = j  BY <1>2, <4>3, <4>4 DEF OpenedOnce
      <4>5. CASE v1.last # j
        <5>1. PICK c \in S!Deliveries :
                 v4[c] = j /\ v3[c] \in {"begin", "control", "turn", "stamp"}
          BY <3>1, <3>3, <4>5 DEF OpenedOnce
        <5>2. v4'[c] = j /\ v3'[c] \in {"begin", "control", "turn", "stamp"}
          BY <4>2, <5>1
        <5> QED  BY <4>3, <5>2 DEF OpenedOnce
      <4> QED  BY <4>4, <4>5
    <3> QED  BY <3>2, <3>3
  <2> QED  BY <2>3, <2>4, <2>6, <2>7, <2>8 DEF SessionState
<1> QED  BY <1>2, <1>7, <1>8


LEMMA SessionStart == Init => SessionInv
<1> SUFFICES ASSUME part = "session", S!SessionInit PROVE SessionState
  BY DEF Init, SessionInv
<1>1. /\ v1 = S!NoTask /\ v2 = 0 /\ v7 = {} /\ v9 = {} /\ v10 = 0
      /\ v3 = [d \in S!Deliveries |-> "idle"] /\ v4 = [d \in S!Deliveries |-> 0]
      /\ v5 = [d \in S!Deliveries |-> S!Plain] /\ v6 = [d \in S!Deliveries |-> S!NoTask]
      /\ v8 = [i \in MessageIds |-> 0]
  BY DEF S!SessionInit
<1>2. S!SessionTypeOK
  BY <1>1, NoTaskTypes, PlainTypes, SessionConstants DEF S!SessionTypeOK
<1>3. TurnsCounted
  BY <1>1, NoTaskTypes, OpenedCount DEF TurnsCounted
<1>4. OverlapsKnown /\ TurnsRemembered
  BY <1>1 DEF OverlapsKnown, TurnsRemembered, OpenedOnce, S!Underway
<1>5. LastsKnown
  BY <1>1, NoTaskTypes DEF LastsKnown, Saving
<1> QED  BY <1>2, <1>3, <1>4, <1>5 DEF SessionState

LEMMA SessionStep == ASSUME SessionState, S!SessionNext PROVE SessionState'
<1>1. ASSUME NEW d \in S!Deliveries, NEW i \in MessageIds, NEW k \in Kinds,
             S!Receive(d, i, S!Sent(k), FALSE)
      PROVE  SessionState'
  BY <1>1, SentTypes, ReceiveKeeps
<1>2. ASSUME NEW d \in S!Deliveries, NEW i \in MessageIds,
             S!Receive(d, i, [S!Plain EXCEPT !.resume = TRUE], TRUE)
      PROVE  SessionState'
  BY <1>2, PlainTypes, ReceiveKeeps
<1>3. ASSUME NEW d \in S!Deliveries, S!HandlerStep(d) PROVE SessionState'
  BY <1>3, CancelKeeps, OpenKeeps, BeginKeeps, ControlKeeps, TurnEndKeeps, StampKeeps
     DEF S!HandlerStep
<1> QED  BY <1>1, <1>2, <1>3, CloserKeeps, PauseKeeps DEF S!SessionNext

LEMMA SessionInductive == SessionInv /\ [Next]_vars => SessionInv'
<1> SUFFICES ASSUME SessionInv, [Next]_vars, part' = "session" PROVE SessionState'
  BY DEF SessionInv
<1>1. CASE Next
  <2>1. part = "session" /\ S!SessionNext  BY <1>1 DEF Next
  <2> QED  BY <2>1, SessionStep DEF SessionInv
<1>2. CASE UNCHANGED vars
  <2>1. /\ part = "session" /\ v1' = v1 /\ v2' = v2 /\ v3' = v3 /\ v4' = v4 /\ v5' = v5
        /\ v6' = v6 /\ v7' = v7 /\ v8' = v8 /\ v9' = v9 /\ v10' = v10
    BY <1>2 DEF vars
  <2> QED
    BY <2>1 DEF SessionInv, SessionState, S!SessionTypeOK, TurnsCounted, OverlapsKnown,
       LastsKnown, TurnsRemembered, OpenedOnce, Opened, Saving, S!Underway
<1> QED  BY <1>1, <1>2

\* An id that was not disturbed has opened one turn at most.
LEMMA RepeatsFromInv == SessionInv => SessionSound
<1> SUFFICES ASSUME SessionState PROVE S!RepeatsAreRecognised
  BY DEF SessionInv, SessionSound, SessionState
<1>1. \A i \in MessageIds : v8[i] \in Nat  BY DEF SessionState, S!SessionTypeOK
<1>2. \A i \in MessageIds \ v9 : v8[i] = 0 \/ v8[i] = 1
  BY DEF SessionState, TurnsRemembered, OpenedOnce
<1> QED  BY <1>1, <1>2 DEF S!RepeatsAreRecognised

\* SessionSound for every number of deliveries, of message ids and of handlers
\* at the same time: a message that is delivered again opens no second turn,
\* unless another delivery came in its way (SessionController.handle_message,
\* _check_idempotent and the turn closer).
THEOREM SessionCorrect == Spec => []SessionSound
<1>1. Init => SessionInv  BY SessionStart
<1>2. SessionInv /\ [Next]_vars => SessionInv'  BY SessionInductive
<1>3. SessionInv => SessionSound  BY RepeatsFromInv
<1> QED  BY <1>1, <1>2, <1>3, PTL DEF Spec

\* Every save carries the row's gate over.
LEMMA GateCarried == ASSUME SessionState, S!SessionNext PROVE S!KeepsGate
<1>1. v1 \in S!Task /\ \A d \in S!Deliveries : v6[d] \in S!Task
  BY DEF SessionState, S!SessionTypeOK
<1>2. ASSUME NEW s \in S!Task, v1' = S!SessionSaved(s) PROVE S!KeepsGate
  BY <1>1, <1>2, SavedKeeps DEF S!KeepsGate
<1>3. ASSUME v1' = v1 PROVE S!KeepsGate
  BY <1>3 DEF S!KeepsGate
<1>4. ASSUME NEW d \in S!Deliveries, S!HandlerStep(d) PROVE S!KeepsGate
  <2>1. CASE S!CancelRun(d)
    <3> DEFINE g == [v6[d] EXCEPT !.dead = TRUE, !.fsm = "REPLANNING"]
    <3>1. g \in S!Task  BY <1>1, ZenonT(60) DEF S!Task, S!FsmStates
    <3>2. v1' = S!SessionSaved(S!WithGate(g))  BY Zenon, <2>1 DEF S!CancelRun
    <3> HIDE DEF g
    <3>3. S!WithGate(g) \in S!Task  BY <3>1 DEF S!WithGate, S!Task
    <3> QED  BY <1>2, <3>2, <3>3
  <2>2. CASE S!OpenTurn(d)
    <3>1. v3[d] = "open"  BY <2>2 DEF S!OpenTurn
    <3>2. v1' = S!SessionSaved(S!PreparedTurn(v6[d]))  BY <2>2 DEF S!OpenTurn
    <3>3. v1.turn < NDeliveries
      <4>1. d \notin Opened  BY <3>1 DEF Opened
      <4>2. Cardinality(Opened) < NDeliveries
        <5>1. IsFiniteSet(Opened \cup {d}) /\ Cardinality(Opened \cup {d}) = Cardinality(Opened) + 1
          BY <4>1, OpenedCount, FS_AddElement
        <5>2. Opened \cup {d} \subseteq S!Deliveries  BY DEF Opened
        <5>3. Cardinality(Opened \cup {d}) <= NDeliveries
          BY <5>2, OpenedCount, FS_Subset
        <5> QED  BY <5>1, <5>3, OpenedCount, SessionConstants
      <4> QED
        BY <1>1, <4>2, OpenedCount, SessionConstants DEF SessionState, TurnsCounted, S!Task
    <3>4. S!PreparedTurn(v6[d]) \in S!Task  BY <1>1, <3>3, PreparedTypes
    <3> QED  BY <1>2, <3>2, <3>4
  <2>3. CASE S!BeginRun(d)
    <3> DEFINE h == v6[d]
    <3>1. d \in 0 .. NDeliveries  BY SessionConstants DEF S!Deliveries
    <3>2. h \in S!Task  BY <1>1
    <3>3. v1' = S!SessionSaved(S!BeganRun(h, d))  BY <2>3 DEF S!BeginRun
    <3> HIDE DEF h
    <3>4. S!BeganRun(h, d) \in S!Task  BY <3>1, <3>2, ZenonT(60) DEF S!BeganRun, S!Task, S!FsmStates
    <3> QED  BY <1>2, <3>3, <3>4
  <2>4. CASE S!ControlNodes(d)
    <3> DEFINE h == v6[d]
    <3>1. h \in S!Task  BY <1>1
    <3>2. v1' = S!SessionSaved(S!Interrupted(h))  BY <2>4 DEF S!ControlNodes
    <3> HIDE DEF h
    <3>3. S!Interrupted(h) \in {[h EXCEPT !.steer = TRUE], [h EXCEPT !.asked = FALSE], h}
      BY DEF S!Interrupted
    <3>4. S!Interrupted(h) \in S!Task  BY <3>1, <3>3, ZenonT(60) DEF S!Task
    <3> QED  BY <1>2, <3>2, <3>4
  <2>5. CASE S!EndTurn(d)
    <3>1. PICK s \in S!Ended(v6[d]) : v1' = S!SessionSaved(s)
      BY Zenon, <2>5 DEF S!EndTurn
    <3>2. s \in S!Task  BY <1>1, <3>1, EndedTypes
    <3> QED  BY <1>2, <3>1, <3>2
  <2>6. CASE S!StampApplied(d)
    <3>1. d \in S!Underway  BY <2>6 DEF S!StampApplied, S!Underway
    <3>2. v4[d] \in MessageIds  BY <3>1 DEF SessionState, OverlapsKnown
    <3>3. [v1 EXCEPT !.last = v4[d]] \in S!Task  BY <1>1, <3>2 DEF S!Task
    <3> QED  BY <1>2, <2>6, <3>3 DEF S!StampApplied
  <2> QED  BY <1>4, <2>1, <2>2, <2>3, <2>4, <2>5, <2>6 DEF S!HandlerStep
<1>5. ASSUME NEW d \in S!Deliveries, S!CloseTurn(d) PROVE S!KeepsGate
  BY <1>1, <1>2, <1>5 DEF S!CloseTurn
<1>6. ASSUME S!RequestPause PROVE S!KeepsGate
  <2>1. [v1 EXCEPT !.asked = TRUE] \in S!Task  BY <1>1 DEF S!Task
  <2> QED  BY <1>2, <1>6, <2>1 DEF S!RequestPause
<1>7. ASSUME NEW d, NEW i, NEW m, NEW direct, S!Receive(d, i, m, direct) PROVE v1' = v1
  BY <1>7 DEF S!Receive
<1> QED  BY <1>3, <1>4, <1>5, <1>6, <1>7 DEF S!SessionNext

\* GateStays for every value of the constants: whatever saves race for the row,
\* the planning gate of a redirect is not taken back (apply_replan_gate,
\* StateStore._preserve_volatile_fields).
THEOREM GateCorrect == Spec => GateStays
<1>1. Init => SessionInv  BY SessionStart
<1>2. SessionInv /\ [Next]_vars => SessionInv'  BY SessionInductive
<1>3. SessionInv /\ [Next]_vars => [part = "session" => S!KeepsGate]_vars
  <2> SUFFICES ASSUME SessionInv, Next, part = "session" PROVE S!KeepsGate
    OBVIOUS
  <2>1. S!SessionNext  BY DEF Next
  <2> QED  BY <2>1, GateCarried DEF SessionInv
<1> QED  BY <1>1, <1>2, <1>3, PTL DEF Spec, GateStays

-----------------------------------------------------------------------------
(* The knowledge store (Knowledge)                                         *)

Numbers == 0 .. MaxChunks
StoredRow == [kind : {"none", "single", "parent", "chunk"}, ver : Nat, own : K!Scopes,
              hash : Nat, of : Nat]
JobOrNone == [op : {"none", "upsert", "delete"}, doc : Docs, n : 1 .. MaxChunks,
              ver : Nat, own : K!Scopes, hash : Nat]
Jobs == {job \in JobOrNone : job.op # "none"}
Steps == {"del", "put", "parent", "index", "unindex"} \X K!Rows \X StoredRow

\* A place holds what belongs there: chunks have numbers, other rows have none.
Fits(r, row) ==
    /\ row.kind = "none" => row = K!NoRow
    /\ row.kind = "chunk" => r[2] # 0
    /\ r[2] # 0 => row.kind \in {"none", "chunk"}
    /\ row.kind = "parent" => row.of \in 1 .. MaxChunks

StoreSound(store) == store \in [K!Rows -> StoredRow] /\ \A r \in K!Rows : Fits(r, store[r])

\* The steps of a write are about its document; the index is behind the
\* catalogue by the step under way, no more.
StepsSound(job, todo) ==
    /\ todo \in Seq(Steps)
    /\ \A i \in DOMAIN todo :
          /\ todo[i][2][1] = job.doc /\ Fits(todo[i][2], todo[i][3])
          /\ todo[i][1] \in {"index", "unindex"} => i = 1

WriterSound(w) ==
    /\ w \in [job : JobOrNone, left : Seq(Jobs), todo : Seq(Steps), alone : BOOLEAN]
    /\ StepsSound(w.job, w.todo)
    /\ w.job.op = "none" => w.todo = <<>>

\* What a write leaves at each place of its document.
Wanted(job, n) ==
    IF job.op = "delete" THEN K!NoRow
    ELSE IF n = 0 THEN K!Row(IF job.n = 1 THEN "single" ELSE "parent", job, job.n)
    ELSE IF job.n > 1 /\ n <= job.n THEN K!Row("chunk", job, job.n)
    ELSE K!NoRow

InPlace(rows, index, job, n) ==
    /\ rows[<<job.doc, n>>] = Wanted(job, n)
    /\ Wanted(job, n).kind \in {"single", "chunk"} => index[<<job.doc, n>>] = Wanted(job, n)

Untouched(todo, r) == \A i \in DOMAIN todo : todo[i][2] # r
Decides(todo, i, r) ==
    /\ i \in DOMAIN todo /\ todo[i][2] = r
    /\ \A j \in DOMAIN todo : todo[j][2] = r => j <= i

\* The step leaves at its place what the write wants there.
Settles(rows, step, job, n) ==
    \/ step[1] = "put" /\ step[3] = Wanted(job, n)
    \/ step[1] = "parent" /\ step[3] = Wanted(job, n) /\ step[3].kind = "parent"
    \/ step[1] = "del" /\ Wanted(job, n) = K!NoRow
    \/ step[1] = "index" /\ step[3] = Wanted(job, n) /\ rows[<<job.doc, n>>] = Wanted(job, n)
    \/ step[1] = "unindex" /\ Wanted(job, n) = K!NoRow /\ rows[<<job.doc, n>>] = K!NoRow

\* A place is as the write wants it, or its last step there will make it so.
Settling(rows, index, job, todo, n) ==
    \/ Untouched(todo, <<job.doc, n>>) /\ InPlace(rows, index, job, n)
    \/ \E i \in DOMAIN todo : Decides(todo, i, <<job.doc, n>>) /\ Settles(rows, todo[i], job, n)

\* What a step does at its place, and what it leaves to be done there.
Effect(rows, rows2, index2, step, more) ==
    \/ /\ step[1] = "del" /\ rows2[step[2]] = K!NoRow
       /\ more = << <<"unindex", step[2], K!NoRow>> >> \/ more = <<>>
    \/ /\ step[1] = "put" /\ rows2[step[2]] = step[3]
       /\ more = << <<"index", step[2], step[3]>> >>
    \/ step[1] = "parent" /\ rows2[step[2]] = step[3] /\ more = <<>>
    \/ /\ step[1] = "index" /\ rows2[step[2]] = rows[step[2]] /\ index2[step[2]] = step[3]
       /\ more = <<>>
    \/ step[1] = "unindex" /\ rows2[step[2]] = rows[step[2]] /\ more = <<>>

\* What the constants of the store are.
LEMMA KnowledgeConstants ==
    /\ MaxChunks \in Nat /\ MaxChunks > 1 /\ Builtin \in Docs /\ IsFiniteSet(Docs)
    /\ {MaxWrites, MaxSearches, TopK, PerDoc, MaxRank} \subseteq Nat
<1>1. K!IsFiniteSet(Docs) => IsFiniteSet(Docs)  BY Zenon DEF K!IsFiniteSet, IsFiniteSet
<1> QED  BY <1>1, ContextAssumptions DEF K!KnowledgeAssumption

\* The store's way of counting is the usual one.
LEMMA KnowledgeCount == ASSUME NEW X PROVE K!Cardinality(X) = Cardinality(X)
BY Zenon DEF K!Cardinality, Cardinality, K!IsFiniteSet, IsFiniteSet

\* A finite set can be listed: SetToSeq names every element.
LEMMA SetListed ==
    ASSUME NEW X, IsFiniteSet(X)
    PROVE  /\ K!SetToSeq(X) \in Seq(X)
           /\ \A x \in X : \E i \in DOMAIN K!SetToSeq(X) : K!SetToSeq(X)[i] = x
           /\ \A i, j \in DOMAIN K!SetToSeq(X) : K!SetToSeq(X)[i] = K!SetToSeq(X)[j] => i = j
<1> DEFINE n == Cardinality(X)
           s == K!SetToSeq(X)
           P(f) == \A a, b \in DOMAIN f : f[a] = f[b] => a = b
<1>1. n \in Nat /\ ExistsBijection(1 .. n, X)  BY FS_CardinalityType
<1>2. PICK g \in Bijection(1 .. n, X) : TRUE  BY <1>1 DEF ExistsBijection
<1>3. g \in [1 .. n -> X] /\ P(g)  BY <1>2 DEF Bijection, Injection, IsInjective
<1>4. s = CHOOSE f \in [1 .. n -> X] : P(f)
  BY KnowledgeCount DEF K!SetToSeq, K!IsInjective
<1>5. s \in [1 .. n -> X] /\ P(s)  BY <1>3, <1>4
<1> HIDE DEF s
<1>6. s \in Injection(1 .. n, X)  BY <1>5 DEF Injection, IsInjective
<1>7. Cardinality(1 .. n) = n /\ IsFiniteSet(1 .. n)  BY <1>1, FS_Interval
<1>8. s \in Surjection(1 .. n, X)  BY <1>6, <1>7, FS_Injection
<1>9. \A x \in X : \E i \in 1 .. n : s[i] = x  BY <1>8 DEF Surjection
<1>10. DOMAIN s = 1 .. n  BY <1>5
<1>11. s \in Seq(X)  BY <1>1, <1>5
<1> QED  BY <1>5, <1>9, <1>10, <1>11 DEF s

\* Where steps stand when others are put before them, or the first is done.
LEMMA Joined ==
    ASSUME NEW s \in Seq(Steps), NEW t \in Seq(Steps), NEW r
    PROVE  /\ s \o t \in Seq(Steps) /\ Len(s \o t) = Len(s) + Len(t)
           /\ \A i \in DOMAIN s : i \in DOMAIN (s \o t) /\ (s \o t)[i] = s[i]
           /\ \A i \in DOMAIN t : Len(s) + i \in DOMAIN (s \o t) /\ (s \o t)[Len(s) + i] = t[i]
           /\ Untouched(s, r) /\ Untouched(t, r) => Untouched(s \o t, r)
           /\ \A i \in DOMAIN t : Decides(t, i, r) => Decides(s \o t, Len(s) + i, r)
           /\ \A i \in DOMAIN s : Decides(s, i, r) /\ Untouched(t, r) => Decides(s \o t, i, r)
<1> DEFINE u == s \o t
<1>1. /\ u \in Seq(Steps) /\ Len(u) = Len(s) + Len(t) /\ Len(s) \in Nat /\ Len(t) \in Nat
      /\ DOMAIN u = 1 .. Len(s) + Len(t) /\ DOMAIN s = 1 .. Len(s) /\ DOMAIN t = 1 .. Len(t)
      /\ \A i \in DOMAIN u : u[i] = IF i <= Len(s) THEN s[i] ELSE t[i - Len(s)]
  OBVIOUS
<1> HIDE DEF u
<1>2. \A i \in DOMAIN s : i \in DOMAIN u /\ u[i] = s[i]  BY <1>1
<1>3. \A i \in DOMAIN t : Len(s) + i \in DOMAIN u /\ u[Len(s) + i] = t[i]  BY <1>1
<1>4. \A i \in DOMAIN u :
         \/ i \in DOMAIN s
         \/ i > Len(s) /\ i - Len(s) \in DOMAIN t /\ u[i] = t[i - Len(s)]
  <2> TAKE i \in DOMAIN u
  <2>1. CASE i <= Len(s)
    <3>1. i \in 1 .. Len(s)  BY <1>1, <2>1
    <3> QED  BY <1>1, <3>1
  <2>2. CASE i > Len(s)
    <3>1. i - Len(s) \in 1 .. Len(t)  BY <1>1, <2>2
    <3> QED  BY <1>1, <2>2, <3>1
  <2> QED  BY <1>1, <2>1, <2>2
<1>5. Untouched(s, r) /\ Untouched(t, r) => Untouched(u, r)
  BY <1>2, <1>4 DEF Untouched
<1>6. ASSUME NEW i \in DOMAIN t, Decides(t, i, r) PROVE Decides(u, Len(s) + i, r)
  <2>1. \A j \in DOMAIN u : u[j][2] = r => j <= Len(s) + i
    <3> SUFFICES ASSUME NEW j \in DOMAIN u, u[j][2] = r PROVE j <= Len(s) + i
      OBVIOUS
    <3>1. CASE j \in DOMAIN s  BY <1>1, <3>1
    <3>2. CASE j > Len(s) /\ j - Len(s) \in DOMAIN t /\ u[j] = t[j - Len(s)]
      <4>1. j - Len(s) <= i  BY <1>6, <3>2 DEF Decides
      <4> QED  BY <1>1, <4>1
    <3> QED  BY <1>4, <3>1, <3>2
  <2> QED  BY <1>3, <1>6, <2>1 DEF Decides
<1>7. ASSUME NEW i \in DOMAIN s, Decides(s, i, r), Untouched(t, r) PROVE Decides(u, i, r)
  <2>1. \A j \in DOMAIN u : u[j][2] = r => j <= i
    BY <1>2, <1>4, <1>7 DEF Decides, Untouched
  <2> QED  BY <1>2, <1>7, <2>1 DEF Decides
<1> QED  BY <1>1, <1>2, <1>3, <1>5, <1>6, <1>7 DEF u

\* Where the steps of a write stand when the first of them is done.
LEMMA Rested ==
    ASSUME NEW todo \in Seq(Steps), todo # <<>>, NEW r
    PROVE  /\ Tail(todo) \in Seq(Steps) /\ Head(todo) = todo[1] /\ 1 \in DOMAIN todo
           /\ todo[1] \in Steps
           /\ \A i \in DOMAIN Tail(todo) : i + 1 \in DOMAIN todo /\ Tail(todo)[i] = todo[i + 1]
           /\ Untouched(todo, r) => Untouched(Tail(todo), r)
           /\ Decides(todo, 1, r) => Untouched(Tail(todo), r)
           /\ \A i \in DOMAIN todo : i # 1 /\ Decides(todo, i, r) =>
                 i - 1 \in DOMAIN Tail(todo) /\ Decides(Tail(todo), i - 1, r)
                 /\ Tail(todo)[i - 1] = todo[i]
<1> DEFINE t == Tail(todo)
<1>1. /\ t \in Seq(Steps) /\ Len(todo) \in Nat \ {0} /\ Len(t) = Len(todo) - 1
      /\ DOMAIN t = 1 .. Len(todo) - 1 /\ DOMAIN todo = 1 .. Len(todo)
      /\ \A i \in 1 .. Len(todo) - 1 : t[i] = todo[i + 1]
      /\ Head(todo) = todo[1]
  OBVIOUS
<1> HIDE DEF t
<1>2. \A i \in DOMAIN t : i + 1 \in DOMAIN todo /\ t[i] = todo[i + 1]  BY <1>1
<1>3. \A i \in DOMAIN todo : i # 1 => i - 1 \in DOMAIN t /\ t[i - 1] = todo[i]  BY <1>1
<1>4. Untouched(todo, r) => Untouched(t, r)  BY <1>2 DEF Untouched
<1>5. Decides(todo, 1, r) => Untouched(t, r)
  <2> SUFFICES ASSUME Decides(todo, 1, r), NEW i \in DOMAIN t, t[i][2] = r PROVE FALSE
    BY DEF Untouched
  <2>1. i + 1 <= 1  BY <1>2 DEF Decides
  <2> QED  BY <1>1, <2>1
<1>6. ASSUME NEW i \in DOMAIN todo, i # 1, Decides(todo, i, r) PROVE Decides(t, i - 1, r)
  <2>1. ASSUME NEW j \in DOMAIN t, t[j][2] = r PROVE j <= i - 1
    <3>1. j + 1 <= i  BY <1>2, <1>6, <2>1 DEF Decides
    <3> QED  BY <1>1, <3>1
  <2> QED  BY <1>3, <1>6, <2>1 DEF Decides
<1>7. 1 \in DOMAIN todo /\ todo[1] \in Steps  BY <1>1
<1> QED  BY <1>1, <1>2, <1>3, <1>4, <1>5, <1>6, <1>7 DEF t

\* A row and the rows of a write fit their places.
LEMMA RowTypes ==
    /\ K!NoRow \in StoredRow /\ \A r \in K!Rows : Fits(r, K!NoRow)
    /\ \A job \in Jobs, n \in Numbers :
              /\ Wanted(job, n) \in StoredRow /\ Fits(<<job.doc, n>>, Wanted(job, n))
              /\ <<job.doc, n>> \in K!Rows
<1> USE KnowledgeConstants
<1>1. K!NoRow \in StoredRow /\ \A r \in K!Rows : Fits(r, K!NoRow)
  BY DEF K!NoRow, StoredRow, K!Scopes, Fits
<1>2. ASSUME NEW job \in Jobs, NEW n \in Numbers
      PROVE  /\ Wanted(job, n) \in StoredRow /\ Fits(<<job.doc, n>>, Wanted(job, n))
             /\ <<job.doc, n>> \in K!Rows
  <2>1. /\ job.n \in 1 .. MaxChunks /\ job.doc \in Docs /\ job.ver \in Nat /\ job.own \in K!Scopes
        /\ job.hash \in Nat
    BY DEF Jobs, JobOrNone
  <2>2. <<job.doc, n>> \in K!Rows  BY <2>1 DEF K!Rows, Numbers
  <2>3. ASSUME NEW kind \in {"single", "parent", "chunk"} PROVE K!Row(kind, job, job.n) \in StoredRow
    BY <2>1 DEF K!Row, StoredRow
  <2>4. Wanted(job, n) \in StoredRow  BY <1>1, <2>3 DEF Wanted
  <2>5. Fits(<<job.doc, n>>, Wanted(job, n))
    BY <1>1, <2>1, <2>2 DEF Wanted, Fits, K!Row, K!NoRow
  <2> QED  BY <2>2, <2>4, <2>5
<1> QED  BY <1>1, <1>2

\* A step that was taken, followed by what it leaves to do, brings the place
\* where it belongs (_delete_row, _upsert_row, the index).
LEMMA HeadSettles ==
    ASSUME NEW rows \in [K!Rows -> StoredRow], NEW index \in [K!Rows -> StoredRow],
           NEW rows2 \in [K!Rows -> StoredRow], NEW index2 \in [K!Rows -> StoredRow],
           NEW job \in Jobs, NEW todo \in Seq(Steps), todo # <<>>, StepsSound(job, todo),
           NEW n \in Numbers, Settling(rows, index, job, todo, n),
           NEW more \in Seq(Steps), Len(more) <= 1,
           NEW step, step = todo[1],
           \A i \in DOMAIN more : more[i][2] = step[2],
           \A r \in K!Rows : r # step[2] => rows2[r] = rows[r] /\ index2[r] = index[r],
           Effect(rows, rows2, index2, step, more)
    PROVE  Settling(rows2, index2, job, more \o Tail(todo), n)
<1> DEFINE r == <<job.doc, n>>
           tail == Tail(todo)
           todo2 == more \o tail
<1>1. /\ tail \in Seq(Steps) /\ 1 \in DOMAIN todo
      /\ Untouched(todo, r) => Untouched(tail, r)
      /\ Decides(todo, 1, r) => Untouched(tail, r)
      /\ \A i \in DOMAIN todo : i # 1 /\ Decides(todo, i, r) =>
            i - 1 \in DOMAIN tail /\ Decides(tail, i - 1, r) /\ tail[i - 1] = todo[i]
  BY Rested
<1> HIDE DEF tail
<1>2. /\ \A i \in DOMAIN more : i \in DOMAIN todo2 /\ todo2[i] = more[i]
      /\ \A i \in DOMAIN tail : Len(more) + i \in DOMAIN todo2 /\ todo2[Len(more) + i] = tail[i]
      /\ Untouched(more, r) /\ Untouched(tail, r) => Untouched(todo2, r)
      /\ \A i \in DOMAIN tail : Decides(tail, i, r) => Decides(todo2, Len(more) + i, r)
      /\ \A i \in DOMAIN more : Decides(more, i, r) /\ Untouched(tail, r) => Decides(todo2, i, r)
  BY <1>1, Joined
<1>3. r \in K!Rows /\ Wanted(job, n) \in StoredRow /\ Fits(r, Wanted(job, n))  BY RowTypes
<1> SUFFICES Settling(rows2, index2, job, todo2, n)  BY DEF tail
<1> HIDE DEF todo2
<1>4. CASE Untouched(todo, r) /\ InPlace(rows, index, job, n)
  <2>1. step[2] # r  BY <1>1, <1>4 DEF Untouched
  <2>2. Untouched(more, r)  BY <2>1 DEF Untouched
  <2>3. Untouched(todo2, r)  BY <1>1, <1>2, <1>4, <2>2
  <2>4. InPlace(rows2, index2, job, n)  BY <1>3, <1>4, <2>1 DEF InPlace
  <2> QED  BY <2>3, <2>4 DEF Settling
<1>5. ASSUME NEW i \in DOMAIN todo, i # 1, Decides(todo, i, r), Settles(rows, todo[i], job, n)
      PROVE  Settling(rows2, index2, job, todo2, n)
  <2>1. todo[i][1] \notin {"index", "unindex"}  BY <1>5 DEF StepsSound
  <2>2. Settles(rows2, todo[i], job, n)  BY <1>5, <2>1 DEF Settles
  <2>3. Decides(todo2, Len(more) + (i - 1), r) /\ todo2[Len(more) + (i - 1)] = todo[i]
    BY <1>1, <1>2, <1>5
  <2>4. Len(more) + (i - 1) \in DOMAIN todo2  BY <2>3 DEF Decides
  <2> QED  BY <2>2, <2>3, <2>4 DEF Settling
<1>6. CASE Decides(todo, 1, r) /\ Settles(rows, todo[1], job, n)
  <2>1. step[2] = r /\ Untouched(tail, r)  BY <1>1, <1>6 DEF Decides
  <2>2. ASSUME more = <<>>, InPlace(rows2, index2, job, n) PROVE Settling(rows2, index2, job, todo2, n)
    <3>1. Untouched(more, r)  BY <2>2 DEF Untouched
    <3>2. Untouched(todo2, r)  BY <1>2, <2>1, <3>1
    <3> QED  BY <2>2, <3>2 DEF Settling
  <2>3. ASSUME NEW next, more = << next >>, next[2] = r, Settles(rows2, next, job, n)
        PROVE  Settling(rows2, index2, job, todo2, n)
    <3>1. 1 \in DOMAIN more /\ more[1] = next /\ DOMAIN more = {1}  BY <2>3
    <3>2. Decides(more, 1, r)  BY <2>3, <3>1 DEF Decides
    <3>3. Decides(todo2, 1, r) /\ 1 \in DOMAIN todo2 /\ todo2[1] = next
      BY <1>2, <2>1, <3>1, <3>2
    <3> QED  BY <2>3, <3>3 DEF Settling
  <2>4. CASE step[1] = "del"
    <3>1. Wanted(job, n) = K!NoRow  BY <1>6, <2>4 DEF Settles
    <3>2. rows2[r] = K!NoRow  BY <2>1, <2>4 DEF Effect
    <3>3. InPlace(rows2, index2, job, n)  BY <3>1, <3>2 DEF InPlace, K!NoRow
    <3>4. CASE more = <<>>  BY <2>2, <3>3, <3>4
    <3>5. CASE more = << <<"unindex", step[2], K!NoRow>> >>
      <4>1. Settles(rows2, <<"unindex", step[2], K!NoRow>>, job, n)  BY <3>1, <3>2 DEF Settles
      <4> QED  BY <2>1, <2>3, <3>5, <4>1
    <3> QED  BY <2>4, <3>4, <3>5 DEF Effect
  <2>5. CASE step[1] = "put"
    <3>1. step[3] = Wanted(job, n)  BY <1>6, <2>5 DEF Settles
    <3>2. rows2[r] = Wanted(job, n) /\ more = << <<"index", step[2], step[3]>> >>
      BY <2>1, <2>5, <3>1 DEF Effect
    <3>3. Settles(rows2, <<"index", step[2], step[3]>>, job, n)  BY <3>1, <3>2 DEF Settles
    <3> QED  BY <2>1, <2>3, <3>2, <3>3
  <2>6. CASE step[1] = "parent"
    <3>1. step[3] = Wanted(job, n) /\ step[3].kind = "parent"  BY <1>6, <2>6 DEF Settles
    <3>2. rows2[r] = step[3] /\ more = <<>>  BY <2>1, <2>6 DEF Effect
    <3>3. InPlace(rows2, index2, job, n)  BY <3>1, <3>2 DEF InPlace
    <3> QED  BY <2>2, <3>2, <3>3
  <2>7. CASE step[1] = "index"
    <3>1. step[3] = Wanted(job, n) /\ rows[r] = Wanted(job, n)  BY <1>6, <2>7 DEF Settles
    <3>2. rows2[r] = rows[r] /\ index2[r] = step[3] /\ more = <<>>  BY <2>1, <2>7 DEF Effect
    <3>3. InPlace(rows2, index2, job, n)  BY <3>1, <3>2 DEF InPlace
    <3> QED  BY <2>2, <3>2, <3>3
  <2>8. CASE step[1] = "unindex"
    <3>1. Wanted(job, n) = K!NoRow /\ rows[r] = K!NoRow  BY <1>6, <2>8 DEF Settles
    <3>2. rows2[r] = rows[r] /\ more = <<>>  BY <2>1, <2>8 DEF Effect
    <3>3. InPlace(rows2, index2, job, n)  BY <3>1, <3>2 DEF InPlace, K!NoRow
    <3> QED  BY <2>2, <3>2, <3>3
  <2> QED  BY <2>4, <2>5, <2>6, <2>7, <2>8 DEF Effect
<1> QED  BY <1>4, <1>5, <1>6 DEF Settling

\* The deletion of a document's chunks names each of them once.
LEMMA DeletesKnown ==
    ASSUME StoreSound(v1), NEW d \in Docs, NEW s, s = K!DeleteSteps(K!Children(d))
    PROVE  /\ s \in Seq(Steps)
           /\ \A i \in DOMAIN s : /\ s[i][1] = "del" /\ s[i][3] = K!NoRow
                                  /\ s[i][2] \in K!Rows /\ s[i][2][1] = d /\ s[i][2][2] # 0
           /\ \A r \in K!Rows : r[1] = d /\ v1[r].kind # "chunk" => Untouched(s, r)
           /\ \A r \in K!Rows : r[1] = d /\ v1[r].kind = "chunk" => \E i \in DOMAIN s : Decides(s, i, r)
<1> DEFINE X == K!Children(d)
           q == K!SetToSeq(X)
<1>1. X = {r \in K!Rows : v1[r].kind = "chunk" /\ r[1] = d}
  BY DEF K!Children, K!Stored
<1>2. IsFiniteSet(X)
  <2>1. IsFiniteSet(Docs) /\ IsFiniteSet(Numbers)
    BY KnowledgeConstants, FS_Interval DEF Numbers
  <2>2. IsFiniteSet(K!Rows)  BY <2>1, FS_Product DEF K!Rows, Numbers
  <2> QED  BY <1>1, <2>2, FS_Subset
<1>3. /\ q \in Seq(X) /\ \A x \in X : \E i \in DOMAIN q : q[i] = x
      /\ \A i, j \in DOMAIN q : q[i] = q[j] => i = j
  BY <1>2, SetListed
<1>4. s = [i \in DOMAIN q |-> <<"del", q[i], K!NoRow>>]  BY DEF K!DeleteSteps
<1> HIDE DEF X, q
<1>5. /\ DOMAIN q = 1 .. Len(q) /\ Len(q) \in Nat
      /\ \A i \in DOMAIN q : q[i] \in X
  BY <1>3
<1>6. DOMAIN s = DOMAIN q /\ \A i \in DOMAIN q : s[i] = <<"del", q[i], K!NoRow>>
  BY <1>4
<1>7. \A i \in DOMAIN q : s[i][1] = "del" /\ s[i][2] = q[i] /\ s[i][3] = K!NoRow
  BY <1>6
<1>8. \A i \in DOMAIN q : q[i] \in K!Rows /\ v1[q[i]].kind = "chunk" /\ q[i][1] = d /\ q[i][2] # 0
  BY <1>1, <1>5 DEF StoreSound, Fits
<1>9. s \in Seq(Steps)
  <2>1. K!NoRow \in StoredRow  BY RowTypes
  <2>2. s \in [1 .. Len(q) -> Steps]  BY <1>4, <1>5, <1>8, <2>1 DEF Steps
  <2> QED  BY <1>5, <2>2
<1>10. ASSUME NEW r \in K!Rows, r[1] = d, v1[r].kind # "chunk" PROVE Untouched(s, r)
  BY <1>6, <1>7, <1>8, <1>10 DEF Untouched
<1>11. ASSUME NEW r \in K!Rows, r[1] = d, v1[r].kind = "chunk"
       PROVE  \E i \in DOMAIN s : Decides(s, i, r)
  <2>1. r \in X  BY <1>1, <1>11
  <2>2. PICK i \in DOMAIN q : q[i] = r  BY <1>3, <2>1
  <2>3. \A j \in DOMAIN s : s[j][2] = r => j = i  BY <1>3, <1>6, <1>7, <2>2
  <2>4. i \in Nat  BY <1>5
  <2>5. \A j \in DOMAIN s : s[j][2] = r => j <= i  BY <2>3, <2>4
  <2> QED  BY <1>6, <1>7, <2>2, <2>5 DEF Decides
<1> QED  BY <1>6, <1>7, <1>8, <1>9, <1>10, <1>11

\* What follows the deletion decides the other places: the write is laid out
\* so that every place of the document settles.
LEMMA LaidOut ==
    ASSUME StoreSound(v1), NEW index, NEW job \in Jobs, NEW t \in Seq(Steps),
           NEW todo, todo = K!DeleteSteps(K!Children(job.doc)) \o t,
           \A i \in DOMAIN t : /\ t[i][2][1] = job.doc /\ Fits(t[i][2], t[i][3])
                               /\ t[i][1] \notin {"index", "unindex"},
           \A n \in Numbers :
              \/ n # 0 /\ Wanted(job, n) = K!NoRow /\ Untouched(t, <<job.doc, n>>)
              \/ \E i \in DOMAIN t : Decides(t, i, <<job.doc, n>>) /\ Settles(v1, t[i], job, n)
    PROVE  /\ StepsSound(job, todo)
           /\ \A n \in Numbers : Settling(v1, index, job, todo, n)
<1> DEFINE s == K!DeleteSteps(K!Children(job.doc))
           u == s \o t
<1>1. job.doc \in Docs  BY DEF Jobs, JobOrNone
<1>2. /\ s \in Seq(Steps)
      /\ \A i \in DOMAIN s : /\ s[i][1] = "del" /\ s[i][3] = K!NoRow
                             /\ s[i][2] \in K!Rows /\ s[i][2][1] = job.doc
      /\ \A r \in K!Rows : r[1] = job.doc /\ v1[r].kind # "chunk" => Untouched(s, r)
      /\ \A r \in K!Rows : r[1] = job.doc /\ v1[r].kind = "chunk" => \E i \in DOMAIN s : Decides(s, i, r)
  BY <1>1, DeletesKnown
<1> HIDE DEF s
<1>3. StepsSound(job, u)
  <2>1. u \in Seq(Steps) /\ Len(u) = Len(s) + Len(t)  BY <1>2
  <2>2. \A i \in DOMAIN u : (i \in DOMAIN s /\ u[i] = s[i]) \/ \E j \in DOMAIN t : u[i] = t[j]
    <3> SUFFICES ASSUME NEW i \in DOMAIN u
                 PROVE (i \in DOMAIN s /\ u[i] = s[i]) \/ \E j \in DOMAIN t : u[i] = t[j]
      OBVIOUS
    <3>1. /\ Len(s) \in Nat /\ Len(t) \in Nat /\ DOMAIN s = 1 .. Len(s) /\ DOMAIN t = 1 .. Len(t)
          /\ i \in 1 .. Len(s) + Len(t) /\ u[i] = IF i <= Len(s) THEN s[i] ELSE t[i - Len(s)]
      BY <1>2
    <3> HIDE DEF u
    <3>2. CASE i <= Len(s)
      <4>1. i \in DOMAIN s /\ u[i] = s[i]  BY <3>1, <3>2
      <4> QED  BY <4>1
    <3>3. CASE ~ (i <= Len(s))
      <4>1. i - Len(s) \in DOMAIN t /\ u[i] = t[i - Len(s)]  BY <3>1, <3>3
      <4> QED  BY <4>1
    <3> QED  BY <3>2, <3>3
  <2> HIDE DEF u
  <2>3. \A i \in DOMAIN s : Fits(s[i][2], s[i][3])  BY <1>2, RowTypes
  <2> QED  BY <1>2, <2>1, <2>2, <2>3 DEF StepsSound
<1>4. ASSUME NEW n \in Numbers PROVE Settling(v1, index, job, u, n)
  <2> DEFINE r == <<job.doc, n>>
  <2>1. r \in K!Rows /\ r[1] = job.doc /\ r[2] = n  BY RowTypes
  <2>2. /\ \A i \in DOMAIN s : i \in DOMAIN u /\ u[i] = s[i]
        /\ \A i \in DOMAIN t : Len(s) + i \in DOMAIN u /\ u[Len(s) + i] = t[i]
        /\ Untouched(s, r) /\ Untouched(t, r) => Untouched(u, r)
        /\ \A i \in DOMAIN t : Decides(t, i, r) => Decides(u, Len(s) + i, r)
        /\ \A i \in DOMAIN s : Decides(s, i, r) /\ Untouched(t, r) => Decides(u, i, r)
    BY <1>2, Joined
  <2> HIDE DEF u
  <2>3. ASSUME NEW i \in DOMAIN t, Decides(t, i, r), Settles(v1, t[i], job, n)
        PROVE  Settling(v1, index, job, u, n)
    BY <2>2, <2>3 DEF Settling
  <2>4. ASSUME n # 0, Wanted(job, n) = K!NoRow, Untouched(t, r)
        PROVE  Settling(v1, index, job, u, n)
    <3>1. CASE v1[r].kind = "chunk"
      <4>1. PICK i \in DOMAIN s : Decides(s, i, r)  BY <1>2, <2>1, <3>1
      <4>2. Settles(v1, s[i], job, n)  BY <1>2, <2>4 DEF Settles
      <4> QED  BY <2>2, <2>4, <4>1, <4>2 DEF Settling
    <3>2. CASE v1[r].kind # "chunk"
      <4>1. Untouched(s, r)  BY <1>2, <2>1, <3>2
      <4>2. Fits(r, v1[r])  BY <2>1 DEF StoreSound
      <4>3. v1[r] = K!NoRow  BY <2>1, <2>4, <3>2, <4>2 DEF Fits
      <4>4. InPlace(v1, index, job, n)  BY <2>4, <4>3 DEF InPlace, K!NoRow
      <4> QED  BY <2>2, <2>4, <4>1, <4>4 DEF Settling
    <3> QED  BY <3>1, <3>2
  <2> QED  BY <2>3, <2>4
<1> QED  BY <1>3, <1>4 DEF s

\* delete_document: when its steps are laid out, every place of the document settles.
LEMMA RemoveSettles ==
    ASSUME StoreSound(v1), NEW index, NEW job \in Jobs, job.op = "delete"
    PROVE  /\ StepsSound(job, K!RemoveSteps(job))
           /\ \A n \in Numbers : Settling(v1, index, job, K!RemoveSteps(job), n)
<1> DEFINE r0 == <<job.doc, 0>>
           t == << <<"del", r0, K!NoRow>> >>
<1>1. r0 \in K!Rows /\ K!NoRow \in StoredRow /\ Fits(r0, K!NoRow)
  BY RowTypes, KnowledgeConstants DEF Numbers
<1>2. t \in Seq(Steps) /\ DOMAIN t = {1} /\ t[1] = <<"del", r0, K!NoRow>>
  BY <1>1 DEF Steps
<1> HIDE DEF t
<1>3. \A n \in Numbers : Wanted(job, n) = K!NoRow  BY DEF Wanted
<1>4. Decides(t, 1, r0) /\ Settles(v1, t[1], job, 0)
  BY <1>2, <1>3, KnowledgeConstants DEF Decides, Settles, Numbers
<1>5. \A n \in Numbers : n # 0 => Untouched(t, <<job.doc, n>>)  BY <1>2 DEF Untouched
<1>6. \A n \in Numbers :
         \/ n # 0 /\ Wanted(job, n) = K!NoRow /\ Untouched(t, <<job.doc, n>>)
         \/ \E i \in DOMAIN t : Decides(t, i, <<job.doc, n>>) /\ Settles(v1, t[i], job, n)
  BY <1>2, <1>3, <1>4, <1>5
<1>7. \A i \in DOMAIN t : /\ t[i][2][1] = job.doc /\ Fits(t[i][2], t[i][3])
                          /\ t[i][1] \notin {"index", "unindex"}
  BY <1>1, <1>2
<1>8. K!RemoveSteps(job) = K!DeleteSteps(K!Children(job.doc)) \o t
  BY DEF K!RemoveSteps, t
<1> QED  BY <1>2, <1>6, <1>7, <1>8, LaidOut

\* upsert_document: when its steps are laid out, every place of the document settles.
LEMMA UpsertSettles ==
    ASSUME StoreSound(v1), NEW index, NEW job \in Jobs, job.op = "upsert"
    PROVE  /\ StepsSound(job, K!UpsertSteps(job))
           /\ \A n \in Numbers : Settling(v1, index, job, K!UpsertSteps(job), n)
<1> DEFINE r0 == <<job.doc, 0>>
           del == K!DeleteSteps(K!Children(job.doc))
           w(n) == Wanted(job, n)
<1>1. job.n \in 1 .. MaxChunks /\ MaxChunks \in Nat /\ 0 \in Numbers
  BY KnowledgeConstants DEF Jobs, JobOrNone, Numbers
<1>2. \A n \in Numbers : /\ w(n) \in StoredRow /\ Fits(<<job.doc, n>>, w(n))
                         /\ <<job.doc, n>> \in K!Rows
  BY RowTypes
<1>3. K!NoRow \in StoredRow /\ Fits(r0, K!NoRow)  BY <1>1, <1>2, RowTypes
<1>4. CASE job.n = 1
  <2> DEFINE t == << <<"del", r0, K!NoRow>>, <<"put", r0, K!Row("single", job, 1)>> >>
  <2>1. w(0) = K!Row("single", job, 1) /\ \A n \in Numbers : n # 0 => w(n) = K!NoRow
    BY <1>4 DEF Wanted
  <2>2. /\ t \in Seq(Steps) /\ DOMAIN t = {1, 2} /\ t[1] = <<"del", r0, K!NoRow>>
        /\ t[2] = <<"put", r0, w(0)>>
    BY <1>1, <1>2, <1>3, <2>1 DEF Steps
  <2>3. K!UpsertSteps(job) = del \o t  BY <1>4 DEF K!UpsertSteps
  <2> HIDE DEF t, del, w
  <2>4. Decides(t, 2, r0) /\ Settles(v1, t[2], job, 0)
    BY <2>2 DEF Decides, Settles, w
  <2>5. \A n \in Numbers : n # 0 => Untouched(t, <<job.doc, n>>)  BY <2>2 DEF Untouched
  <2>6. \A n \in Numbers :
           \/ n # 0 /\ Wanted(job, n) = K!NoRow /\ Untouched(t, <<job.doc, n>>)
           \/ \E i \in DOMAIN t : Decides(t, i, <<job.doc, n>>) /\ Settles(v1, t[i], job, n)
    BY <2>1, <2>2, <2>4, <2>5 DEF w
  <2>7. \A i \in DOMAIN t : /\ t[i][2][1] = job.doc /\ Fits(t[i][2], t[i][3])
                            /\ t[i][1] \notin {"index", "unindex"}
    <3>1. Fits(r0, w(0))  BY <1>1, <1>2
    <3>2. t[1][1] = "del" /\ t[1][2] = r0 /\ t[1][3] = K!NoRow  BY <2>2
    <3>3. t[2][1] = "put" /\ t[2][2] = r0 /\ t[2][3] = w(0)  BY <2>2
    <3> TAKE i \in DOMAIN t
    <3>4. CASE i = 1  BY <1>3, <3>2, <3>4
    <3>5. CASE i = 2  BY <3>1, <3>3, <3>5
    <3> QED  BY <2>2, <3>4, <3>5
  <2> QED  BY <2>2, <2>3, <2>6, <2>7, LaidOut DEF del
<1>5. CASE job.n # 1
  <2> DEFINE p == << <<"parent", r0, K!Row("parent", job, job.n)>> >>
             c == [i \in 1 .. job.n |-> <<"put", <<job.doc, i>>, K!Row("chunk", job, job.n)>>]
             t == p \o c
  <2>1. /\ w(0) = K!Row("parent", job, job.n)
        /\ \A n \in Numbers : n # 0 => w(n) = IF n <= job.n THEN K!Row("chunk", job, job.n) ELSE K!NoRow
    BY <1>1, <1>5 DEF Wanted
  <2>2. p \in Seq(Steps) /\ DOMAIN p = {1} /\ p[1] = <<"parent", r0, w(0)>> /\ Len(p) = 1
    BY <1>1, <1>2, <2>1 DEF Steps
  <2>3. \A i \in 1 .. job.n : i \in Numbers /\ i # 0 /\ w(i) = K!Row("chunk", job, job.n)
    BY <1>1, <2>1 DEF Numbers
  <2>4. DOMAIN c = 1 .. job.n /\ \A i \in 1 .. job.n : c[i] = <<"put", <<job.doc, i>>, w(i)>>
    BY <2>3
  <2>5. c \in Seq(Steps)
    <3>1. \A i \in 1 .. job.n : <<"put", <<job.doc, i>>, K!Row("chunk", job, job.n)>> \in Steps
      BY <1>2, <2>3 DEF Steps
    <3>2. c \in [1 .. job.n -> Steps]  BY <3>1
    <3>3. job.n \in Nat  BY <1>1
    <3> HIDE DEF c
    <3> QED  BY <3>2, <3>3
  <2>6. K!UpsertSteps(job) = del \o t  BY <1>5 DEF K!UpsertSteps
  <2> HIDE DEF p, c, del, w
  <2>7. Decides(p, 1, r0) /\ Settles(v1, p[1], job, 0)
    <3>1. w(0).kind = "parent"  BY <2>1 DEF K!Row
    <3> QED  BY <2>2, <3>1 DEF Decides, Settles, w
  <2>8. Untouched(c, r0)  BY <2>3, <2>4 DEF Untouched
  <2>9. \A i \in 1 .. job.n : Decides(c, i, <<job.doc, i>>) /\ Settles(v1, c[i], job, i)
    <3> TAKE i \in 1 .. job.n
    <3>1. \A j \in 1 .. job.n : c[j][2] = <<job.doc, i>> => j = i  BY <2>4
    <3>2. Decides(c, i, <<job.doc, i>>)  BY <1>1, <2>4, <3>1 DEF Decides
    <3> QED  BY <2>4, <3>2 DEF Settles, w
  <2>10. \A n \in Numbers :
            \/ n # 0 /\ Wanted(job, n) = K!NoRow /\ Untouched(t, <<job.doc, n>>)
            \/ \E i \in DOMAIN t : Decides(t, i, <<job.doc, n>>) /\ Settles(v1, t[i], job, n)
    <3> TAKE n \in Numbers
    <3> DEFINE r == <<job.doc, n>>
    <3>1. /\ t \in Seq(Steps)
          /\ \A i \in DOMAIN p : i \in DOMAIN t /\ t[i] = p[i]
          /\ \A i \in DOMAIN c : Len(p) + i \in DOMAIN t /\ t[Len(p) + i] = c[i]
          /\ Untouched(p, r) /\ Untouched(c, r) => Untouched(t, r)
          /\ \A i \in DOMAIN c : Decides(c, i, r) => Decides(t, Len(p) + i, r)
          /\ \A i \in DOMAIN p : Decides(p, i, r) /\ Untouched(c, r) => Decides(t, i, r)
      BY <2>2, <2>5, Joined
    <3> HIDE DEF t
    <3>2. CASE n = 0  BY <2>2, <2>7, <2>8, <3>1, <3>2
    <3>3. CASE n \in 1 .. job.n  BY <2>4, <2>9, <3>1, <3>3
    <3>4. CASE n # 0 /\ n \notin 1 .. job.n
      <4>1. Wanted(job, n) = K!NoRow  BY <1>1, <2>1, <3>4 DEF w, Numbers
      <4>2. Untouched(p, r) /\ Untouched(c, r)  BY <2>2, <2>4, <3>4 DEF Untouched
      <4> QED  BY <3>1, <3>4, <4>1, <4>2
    <3> QED  BY <3>2, <3>3, <3>4
  <2>11. t \in Seq(Steps) /\ \A i \in DOMAIN t : (i = 1 /\ t[i] = p[1]) \/ \E j \in DOMAIN c : t[i] = c[j]
    <3>1. t \in Seq(Steps) /\ Len(t) = 1 + Len(c) /\ Len(c) = job.n
      <4>1. Len(c) \in Nat /\ 1 .. Len(c) = 1 .. job.n  BY <2>4, <2>5
      <4>2. Len(c) = job.n  BY <1>1, <4>1
      <4>3. p \in Seq(Steps) /\ c \in Seq(Steps)  BY <2>2, <2>5
      <4>4. t \in Seq(Steps) /\ Len(t) = Len(p) + Len(c)  BY <4>3, Joined, Zenon
      <4> QED  BY <2>2, <4>2, <4>4
    <3>2. \A i \in 1 .. 1 + job.n : t[i] = IF i <= 1 THEN p[i] ELSE c[i - 1]
      BY <1>1, <2>2, <2>4, <2>5, <3>1
    <3> HIDE DEF t
    <3>3. DOMAIN t = 1 .. 1 + job.n  BY <1>1, <3>1
    <3> SUFFICES ASSUME NEW i \in DOMAIN t
                 PROVE (i = 1 /\ t[i] = p[1]) \/ \E j \in DOMAIN c : t[i] = c[j]
      BY <3>1
    <3>4. CASE i = 1  BY <1>1, <3>2, <3>4
    <3>5. CASE i # 1
      <4>1. i - 1 \in DOMAIN c /\ t[i] = c[i - 1]  BY <1>1, <2>4, <3>2, <3>3, <3>5
      <4> QED  BY <4>1
    <3> QED  BY <3>4, <3>5
  <2> HIDE DEF t
  <2>12. \A i \in DOMAIN t : /\ t[i][2][1] = job.doc /\ Fits(t[i][2], t[i][3])
                             /\ t[i][1] \notin {"index", "unindex"}
    <3>1. /\ p[1][2][1] = job.doc /\ Fits(p[1][2], p[1][3]) /\ p[1][1] \notin {"index", "unindex"}
      BY <1>1, <1>2, <2>2
    <3>2. \A j \in DOMAIN c : /\ c[j][2][1] = job.doc /\ Fits(c[j][2], c[j][3])
                              /\ c[j][1] \notin {"index", "unindex"}
      BY <1>2, <2>3, <2>4
    <3> QED  BY <2>11, <3>1, <3>2
  <2> QED  BY <2>6, <2>10, <2>11, <2>12, LaidOut DEF del
<1> QED  BY <1>4, <1>5

\* Only one request writes a document that a request writes alone, and each of
\* its places settles; a document that was written well is written by none.
AloneSound ==
    \A t \in Threads : v3[t].job.op # "none" /\ v3[t].alone =>
        /\ \A u \in Threads : v3[u].job.op # "none" /\ v3[u].job.doc = v3[t].job.doc => u = t
        /\ \A n \in Numbers : Settling(v1, v2, v3[t].job, v3[t].todo, n)

LastSound ==
    \A d \in Docs : v7[d].op # "none" =>
        /\ v7[d].doc = d
        /\ \A t \in Threads : v3[t].job.op # "none" => v3[t].job.doc # d
        /\ \A n \in Numbers : InPlace(v1, v2, v7[d], n)

HitRow == [row : K!Rows, own : K!Scopes, kind : {"none", "single", "parent", "chunk"}]

Queries == [pc : {"none", "expand", "done"}, own : K!Scopes, hits : Seq(HitRow),
            near : Seq(HitRow), rank : Nat, offset : {-1, 1}, sure : SUBSET Docs]
QueryTypes == v4 \in Queries

RowsOnce(hits, near) ==
    /\ \A i, j \in DOMAIN hits : hits[i].row = hits[j].row => i = j
    /\ \A i, j \in DOMAIN near : near[i].row = near[j].row => i = j
    /\ \A i \in DOMAIN hits, j \in DOMAIN near : hits[i].row # near[j].row

InScope(hits, sure, own) ==
    \A i \in DOMAIN hits : hits[i].row[1] \in sure => hits[i].own \in {Shared, own}

\* The chunks around which a search reads belong to documents whose rows are
\* all of one session, or are not sure any more.
CentresSound ==
    v4.pc = "expand" =>
        /\ \A d \in v4.sure : v7[d].op # "none"
        /\ \A i \in DOMAIN v4.hits : v4.hits[i].kind = "chunk" /\ v4.hits[i].row[1] \in v4.sure =>
              v7[v4.hits[i].row[1]].own \in {Shared, v4.own}

QuerySound ==
    /\ QueryTypes /\ RowsOnce(v4.hits, v4.near)
    /\ InScope(v4.hits, v4.sure, v4.own) /\ InScope(v4.near, v4.sure, v4.own)
    /\ CentresSound

StoresSound ==
    /\ StoreSound(v1) /\ StoreSound(v2) /\ v5 \in Nat
    /\ v7 \in [Docs -> JobOrNone]
    /\ DOMAIN v3 = Threads /\ \A t \in Threads : WriterSound(v3[t])

KnowledgeState == StoresSound /\ AloneSound /\ LastSound /\ QuerySound
KnowledgeInv == part = "knowledge" => KnowledgeState

\* A request that waits for its next document has no step to take.
LEMMA RestingTypes ==
    ASSUME NEW jobs \in Seq(Jobs)
    PROVE  /\ WriterSound([K!Resting EXCEPT !.left = jobs])
           /\ [K!Resting EXCEPT !.left = jobs].job.op = "none"
           /\ WriterSound(K!Resting) /\ K!Resting.job.op = "none"
<1>1. K!NoJob \in JobOrNone /\ K!NoJob.op = "none"
  BY KnowledgeConstants DEF K!NoJob, JobOrNone, K!Scopes
<1>2. <<>> \in Seq(Steps) /\ <<>> \in Seq(Jobs) /\ DOMAIN <<>> = {}  OBVIOUS
<1>4. K!Resting \in [job : {K!NoJob}, left : {<<>>}, todo : {<<>>}, alone : BOOLEAN]
  BY DEF K!Resting
<1>3. [K!Resting EXCEPT !.left = jobs]
          \in [job : {K!NoJob}, left : Seq(Jobs), todo : {<<>>}, alone : BOOLEAN]
  BY DEF K!Resting
<1> QED  BY <1>1, <1>2, <1>3, <1>4 DEF WriterSound, StepsSound

\* A step of the stores that leaves the search as it is.
LEMMA SearchStays ==
    ASSUME QuerySound, v4' = v4, v7' = v7 PROVE QuerySound'
BY DEF QuerySound, QueryTypes, RowsOnce, InScope, CentresSound

\* Requests that rest, or go on as they were, over the same stores.
LEMMA WritersRest ==
    ASSUME StoresSound, AloneSound, LastSound, v1' = v1, v2' = v2,
           v5' \in Nat, v7' \in [Docs -> JobOrNone], DOMAIN v3' = Threads, \A u \in Threads : WriterSound(v3'[u]),
           \A u \in Threads : v3'[u].job.op = "none" \/ v3'[u] = v3[u]
    PROVE  StoresSound' /\ AloneSound' /\ (v7' = v7 => LastSound')
<1>1. StoresSound'
  <2>1. \A u \in Threads : WriterSound(v3[u])'  BY DEF WriterSound, StepsSound
  <2> QED  BY <2>1 DEF StoresSound, StoreSound
<1>2. AloneSound'
  <2> SUFFICES ASSUME NEW t \in Threads, v3'[t].job.op # "none", v3'[t].alone
               PROVE /\ \A u \in Threads : v3'[u].job.op # "none" /\ v3'[u].job.doc = v3'[t].job.doc => u = t
                     /\ \A n \in Numbers : Settling(v1, v2, v3'[t].job, v3'[t].todo, n)
    BY DEF AloneSound, Settling, Settles, InPlace
  <2>1. v3'[t] = v3[t]  OBVIOUS
  <2> QED  BY <2>1 DEF AloneSound
<1>3. ASSUME v7' = v7 PROVE LastSound'
  <2> SUFFICES ASSUME NEW d \in Docs, v7[d].op # "none"
               PROVE /\ v7[d].doc = d
                     /\ \A t \in Threads : v3'[t].job.op # "none" => v3'[t].job.doc # d
                     /\ \A n \in Numbers : InPlace(v1, v2, v7[d], n)
    BY <1>3 DEF LastSound, InPlace
  <2> QED  BY DEF LastSound
<1> QED  BY <1>1, <1>2, <1>3

\* A step of the catalogue or of the index is the first of its request and
\* leaves the index to follow.
LEMMA HeadShape ==
    ASSUME StoresSound, NEW t \in Threads,
           K!DeleteRow(t) \/ K!UpsertRow(t) \/ K!IndexRow(t) \/ K!UnindexRow(t)
    PROVE  \E more \in Seq(Steps), step \in Steps :
             /\ v3[t].todo # <<>> /\ step = v3[t].todo[1] /\ Fits(step[2], step[3])
             /\ v3[t].job \in Jobs /\ step[2][1] = v3[t].job.doc
             /\ StoreSound(v1') /\ StoreSound(v2')
             /\ v3' = [v3 EXCEPT ![t].todo = more \o Tail(v3[t].todo)]
             /\ v4' = v4 /\ v5' = v5 /\ v6' = v6 /\ v7' = v7
             /\ Len(more) <= 1
             /\ \A i \in DOMAIN more : /\ more[i][2] = step[2] /\ Fits(more[i][2], more[i][3])
             /\ \A r \in K!Rows : r # step[2] => v1'[r] = v1[r] /\ v2'[r] = v2[r]
             /\ Effect(v1, v1', v2', step, more)
<1> DEFINE todo == v3[t].todo
           step == todo[1]
           r0 == step[2]
           Set(m) == v3' = [v3 EXCEPT ![t].todo = m \o Tail(v3[t].todo)]
           Same == v4' = v4 /\ v5' = v5 /\ v6' = v6 /\ v7' = v7
           none == <<>>
           next(kind, row) == << <<kind, r0, row>> >>
<1>1. todo # <<>> /\ Head(todo) = todo[1]
  BY DEF K!DeleteRow, K!UpsertRow, K!IndexRow, K!UnindexRow
<1>2. /\ todo \in Seq(Steps) /\ WriterSound(v3[t]) /\ v3[t].job \in JobOrNone
      /\ DOMAIN v3 = Threads
  BY DEF StoresSound, WriterSound
<1>3. 1 \in DOMAIN todo /\ step \in Steps
  BY <1>1, <1>2, Rested
<1>4. /\ step[2][1] = v3[t].job.doc /\ Fits(step[2], step[3]) /\ v3[t].job.op # "none"
  BY <1>1, <1>2, <1>3 DEF WriterSound, StepsSound
<1>5. v3[t].job \in Jobs  BY <1>2, <1>4 DEF Jobs
<1>6. r0 \in K!Rows /\ step[3] \in StoredRow  BY <1>3 DEF Steps
<1>7. K!NoRow \in StoredRow /\ Fits(r0, K!NoRow)  BY <1>6, RowTypes
<1>8. /\ StoreSound(v1) /\ StoreSound(v2)
      /\ \A row \in StoredRow : Fits(r0, row) =>
            StoreSound([v1 EXCEPT ![r0] = row]) /\ StoreSound([v2 EXCEPT ![r0] = row])
  BY <1>6 DEF StoresSound, StoreSound
<1>9. \A row \in StoredRow :
         /\ [v1 EXCEPT ![r0] = row][r0] = row /\ [v2 EXCEPT ![r0] = row][r0] = row
         /\ \A r \in K!Rows : r # r0 => [v1 EXCEPT ![r0] = row][r] = v1[r] /\ [v2 EXCEPT ![r0] = row][r] = v2[r]
  BY <1>6, <1>8 DEF StoreSound
<1>10. none \in Seq(Steps) /\ Len(none) <= 1 /\ DOMAIN none = {}
  OBVIOUS
<1>11. ASSUME NEW kind \in {"index", "unindex"}, NEW row \in StoredRow, Fits(r0, row)
       PROVE  /\ next(kind, row) \in Seq(Steps) /\ Len(next(kind, row)) <= 1
              /\ \A i \in DOMAIN next(kind, row) :
                    next(kind, row)[i][2] = r0 /\ Fits(next(kind, row)[i][2], next(kind, row)[i][3])
  BY <1>6, <1>11 DEF Steps
<1> HIDE DEF todo, r0, step
<1>12. CASE K!DeleteRow(t)
  <2>1. /\ step[1] = "del" /\ v1' = [v1 EXCEPT ![r0] = K!NoRow] /\ v2' = v2 /\ Same
        /\ Set(next("unindex", K!NoRow)) \/ Set(none)
    <3>1. CASE v1[r0].kind = "none"
      BY <1>1, <1>12, <3>1 DEF K!DeleteRow, K!Rest, todo, step, r0
    <3>2. CASE v1[r0].kind # "none"
      BY <1>1, <1>12, <3>2 DEF K!DeleteRow, K!Rest, todo, step, r0
    <3> QED  BY <3>1, <3>2
  <2>2. StoreSound(v1') /\ StoreSound(v2') /\ v1'[r0] = K!NoRow
        /\ \A r \in K!Rows : r # r0 => v1'[r] = v1[r] /\ v2'[r] = v2[r]
    BY <1>7, <1>8, <1>9, <2>1
  <2>3. CASE Set(next("unindex", K!NoRow))
    <3> QED  BY <1>1, <1>3, <1>4, <1>5, <1>7, <1>11, <2>1, <2>2, <2>3 DEF todo, step, r0, Effect
  <2>4. CASE Set(none)
    <3> QED  BY <1>1, <1>3, <1>4, <1>5, <1>10, <2>1, <2>2, <2>4 DEF todo, step, r0, Effect
  <2> QED  BY <2>1, <2>3, <2>4
<1>13. CASE K!UpsertRow(t)
  <2>1. /\ v1' = [v1 EXCEPT ![r0] = step[3]] /\ v2' = v2 /\ Same
        /\ \/ step[1] = "put" /\ Set(next("index", step[3]))
           \/ step[1] = "parent" /\ Set(none)
    BY <1>1, <1>13 DEF K!UpsertRow, K!Rest, todo, step, r0
  <2>2. StoreSound(v1') /\ StoreSound(v2') /\ v1'[r0] = step[3]
        /\ \A r \in K!Rows : r # r0 => v1'[r] = v1[r] /\ v2'[r] = v2[r]
    BY <1>4, <1>6, <1>8, <1>9, <2>1 DEF r0
  <2>3. CASE step[1] = "put" /\ Set(next("index", step[3]))
    <3> QED  BY <1>1, <1>3, <1>4, <1>5, <1>6, <1>11, <2>1, <2>2, <2>3 DEF todo, step, r0, Effect
  <2>4. CASE step[1] = "parent" /\ Set(none)
    <3> QED  BY <1>1, <1>3, <1>4, <1>5, <1>10, <2>1, <2>2, <2>4 DEF todo, step, r0, Effect
  <2> QED  BY <2>1, <2>3, <2>4
<1>14. CASE K!IndexRow(t)
  <2>1. /\ step[1] = "index" /\ v2' = [v2 EXCEPT ![r0] = step[3]] /\ v1' = v1 /\ Same /\ Set(none)
    BY <1>1, <1>14 DEF K!IndexRow, K!Rest, todo, step, r0
  <2>2. StoreSound(v1') /\ StoreSound(v2') /\ v2'[r0] = step[3]
        /\ \A r \in K!Rows : r # r0 => v1'[r] = v1[r] /\ v2'[r] = v2[r]
    BY <1>4, <1>6, <1>8, <1>9, <2>1 DEF r0
  <2> QED  BY <1>1, <1>3, <1>4, <1>5, <1>10, <2>1, <2>2 DEF todo, step, r0, Effect
<1>15. CASE K!UnindexRow(t)
  <2>1. /\ step[1] = "unindex" /\ v2' = [v2 EXCEPT ![r0] = K!NoRow] /\ v1' = v1 /\ Same /\ Set(none)
    BY <1>1, <1>15 DEF K!UnindexRow, K!Rest, todo, step, r0
  <2>2. StoreSound(v1') /\ StoreSound(v2')
        /\ \A r \in K!Rows : r # r0 => v1'[r] = v1[r] /\ v2'[r] = v2[r]
    BY <1>7, <1>8, <1>9, <2>1
  <2> QED  BY <1>1, <1>3, <1>4, <1>5, <1>10, <2>1, <2>2 DEF todo, step, r0, Effect
<1> QED  BY <1>12, <1>13, <1>14, <1>15

\* What is left to do after a step is laid out as it was.
LEMMA StepsGoOn ==
    ASSUME NEW job, NEW todo, todo # <<>>, StepsSound(job, todo), NEW more \in Seq(Steps), Len(more) <= 1,
           \A i \in DOMAIN more : more[i][2][1] = job.doc /\ Fits(more[i][2], more[i][3])
    PROVE  StepsSound(job, more \o Tail(todo))
<1> DEFINE t == Tail(todo)
           u == more \o t
<1>1. todo \in Seq(Steps)  BY DEF StepsSound
<1>2. t \in Seq(Steps) /\ \A i \in DOMAIN t : i + 1 \in DOMAIN todo /\ t[i] = todo[i + 1]
  BY <1>1, Rested
<1> HIDE DEF t
<1>3. /\ Len(more) \in Nat /\ Len(t) \in Nat /\ DOMAIN more = 1 .. Len(more) /\ DOMAIN t = 1 .. Len(t)
      /\ u \in Seq(Steps) /\ DOMAIN u = 1 .. Len(more) + Len(t)
      /\ \A i \in DOMAIN u : u[i] = IF i <= Len(more) THEN more[i] ELSE t[i - Len(more)]
  BY <1>2
<1> HIDE DEF u
<1>4. ASSUME NEW i \in DOMAIN u
      PROVE  /\ u[i][2][1] = job.doc /\ Fits(u[i][2], u[i][3])
             /\ u[i][1] \in {"index", "unindex"} => i = 1
  <2>1. CASE i <= Len(more)
    <3>1. i \in DOMAIN more /\ u[i] = more[i] /\ i = 1  BY <1>3, <2>1
    <3> QED  BY <3>1
  <2>2. CASE ~ (i <= Len(more))
    <3>1. i - Len(more) \in DOMAIN t /\ u[i] = t[i - Len(more)]  BY <1>3, <2>2
    <3> DEFINE j == i - Len(more) + 1
    <3>2. j \in DOMAIN todo /\ u[i] = todo[j] /\ j # 1  BY <1>2, <1>3, <3>1
    <3> HIDE DEF j
    <3> QED  BY <3>2 DEF StepsSound
  <2> QED  BY <2>1, <2>2
<1> QED  BY <1>3, <1>4 DEF StepsSound, u, t

\* Rows of a document that a step does not touch settle, or are in place, as before.
LEMMA OthersSettle ==
    ASSUME NEW rows, NEW index, NEW rows2, NEW index2, NEW job, NEW todo, NEW n,
           rows2[<<job.doc, n>>] = rows[<<job.doc, n>>],
           index2[<<job.doc, n>>] = index[<<job.doc, n>>]
    PROVE  /\ Settling(rows, index, job, todo, n) => Settling(rows2, index2, job, todo, n)
           /\ InPlace(rows, index, job, n) => InPlace(rows2, index2, job, n)
<1>1. InPlace(rows, index, job, n) => InPlace(rows2, index2, job, n)  BY DEF InPlace
<1>2. \A step : Settles(rows, step, job, n) => Settles(rows2, step, job, n)  BY DEF Settles
<1> QED  BY <1>1, <1>2 DEF Settling

\* A step of a request, with the requests beside it (_delete_row, _upsert_row).
LEMMA HeadKeeps ==
    ASSUME KnowledgeState, NEW t \in Threads,
           K!DeleteRow(t) \/ K!UpsertRow(t) \/ K!IndexRow(t) \/ K!UnindexRow(t)
    PROVE  KnowledgeState'
<1>0. StoresSound /\ AloneSound /\ LastSound /\ QuerySound  BY DEF KnowledgeState
<1> DEFINE job == v3[t].job
           todo == v3[t].todo
           Moves(more, step) ==
             /\ todo # <<>> /\ step = todo[1] /\ Fits(step[2], step[3])
             /\ job \in Jobs /\ step[2][1] = job.doc
             /\ StoreSound(v1') /\ StoreSound(v2')
             /\ v3' = [v3 EXCEPT ![t].todo = more \o Tail(todo)]
             /\ v4' = v4 /\ v5' = v5 /\ v6' = v6 /\ v7' = v7
             /\ Len(more) <= 1
             /\ \A i \in DOMAIN more : /\ more[i][2] = step[2] /\ Fits(more[i][2], more[i][3])
             /\ \A r \in K!Rows : r # step[2] => v1'[r] = v1[r] /\ v2'[r] = v2[r]
<1>1. PICK more \in Seq(Steps), step \in Steps : Moves(more, step) /\ Effect(v1, v1', v2', step, more)
  BY <1>0, HeadShape
<1>2. WriterSound(v3[t]) /\ DOMAIN v3 = Threads /\ \A u \in Threads : WriterSound(v3[u])
  BY <1>0 DEF StoresSound
<1>3. todo \in Seq(Steps) /\ StepsSound(job, todo)  BY <1>2 DEF WriterSound
<1>4. StepsSound(job, more \o Tail(todo))  BY <1>1, <1>3, StepsGoOn
<1>5. /\ DOMAIN v3' = Threads
      /\ \A u \in Threads : u # t => v3'[u] = v3[u]
      /\ v3'[t] = [v3[t] EXCEPT !.todo = more \o Tail(todo)]
  BY <1>1, <1>2
<1>6. /\ v3'[t] \in [job : JobOrNone, left : Seq(Jobs), todo : Seq(Steps), alone : BOOLEAN]
      /\ v3'[t].job = job /\ v3'[t].todo = more \o Tail(todo) /\ v3'[t].alone = v3[t].alone
  <2>1. more \o Tail(todo) \in Seq(Steps)  BY <1>4 DEF StepsSound
  <2>2. v3[t] \in [job : JobOrNone, left : Seq(Jobs), todo : Seq(Steps), alone : BOOLEAN]
    BY <1>2 DEF WriterSound
  <2> QED  BY <1>5, <2>1, <2>2
<1>7. WriterSound(v3'[t])
  <2>1. job.op # "none"  BY <1>1 DEF Jobs
  <2> QED  BY <1>4, <1>6, <2>1 DEF WriterSound
<1>8. \A u \in Threads : v3'[u].job = v3[u].job /\ v3'[u].alone = v3[u].alone
  BY <1>5, <1>6
<1>9. job.op # "none" /\ job.doc \in Docs /\ step[2] \in K!Rows
  BY <1>1 DEF Jobs, JobOrNone, Steps
<1>10. StoresSound'
  <2>1. \A u \in Threads : WriterSound(v3'[u])  BY <1>2, <1>5, <1>7
  <2>2. \A u \in Threads : WriterSound(v3[u])'  BY <2>1 DEF WriterSound, StepsSound
  <2>3. StoreSound(v1)' /\ StoreSound(v2)'  BY <1>1 DEF StoreSound
  <2> QED  BY <1>0, <1>1, <1>5, <2>2, <2>3 DEF StoresSound
<1>11. \A d \in Docs, n \in Numbers : d # job.doc =>
          v1'[<<d, n>>] = v1[<<d, n>>] /\ v2'[<<d, n>>] = v2[<<d, n>>]
  <2> TAKE d \in Docs, n \in Numbers
  <2>1. <<d, n>> \in K!Rows  BY DEF K!Rows, Numbers
  <2> QED  BY <1>1, <2>1
<1>12. AloneSound'
  <2> SUFFICES ASSUME NEW u \in Threads, v3[u].job.op # "none", v3[u].alone
               PROVE /\ \A c \in Threads : v3[c].job.op # "none" /\ v3[c].job.doc = v3[u].job.doc => c = u
                     /\ \A n \in Numbers : Settling(v1', v2', v3[u].job, v3'[u].todo, n)
    <3>1. ASSUME NEW u \in Threads, v3'[u].job.op # "none", v3'[u].alone
          PROVE /\ \A c \in Threads : v3'[c].job.op # "none" /\ v3'[c].job.doc = v3'[u].job.doc => c = u
                /\ \A n \in Numbers : Settling(v1', v2', v3'[u].job, v3'[u].todo, n)
      BY <1>8, <3>1
    <3> QED  BY <3>1 DEF AloneSound, Settling, Settles, InPlace
  <2>1. /\ \A c \in Threads : v3[c].job.op # "none" /\ v3[c].job.doc = v3[u].job.doc => c = u
        /\ \A n \in Numbers : Settling(v1, v2, v3[u].job, v3[u].todo, n)
    BY <1>0 DEF AloneSound
  <2>2. ASSUME NEW n \in Numbers PROVE Settling(v1', v2', v3[u].job, v3'[u].todo, n)
    <3>1. CASE u = t
      <4>1. Settling(v1, v2, job, todo, n)  BY <2>1, <3>1
      <4>2. /\ v1 \in [K!Rows -> StoredRow] /\ v2 \in [K!Rows -> StoredRow]
            /\ v1' \in [K!Rows -> StoredRow] /\ v2' \in [K!Rows -> StoredRow]
        BY <1>0, <1>1 DEF StoresSound, StoreSound
      <4>3. Settling(v1', v2', job, more \o Tail(todo), n)
        <5>1. \A i \in DOMAIN more : more[i][2] = step[2]  BY <1>1
        <5>2. job \in Jobs /\ todo # <<>> /\ step = todo[1] /\ Len(more) <= 1
              /\ \A r \in K!Rows : r # step[2] => v1'[r] = v1[r] /\ v2'[r] = v2[r]
          BY <1>1
        <5>3. Effect(v1, v1', v2', step, more)  BY <1>1
        <5> HIDE DEF job, todo, Moves
        <5> QED  BY <1>3, <4>1, <4>2, <5>1, <5>2, <5>3, HeadSettles
      <4> QED  BY <1>6, <3>1, <4>3
    <3>2. CASE u # t
      <4>1. v3[u].job.doc # job.doc  BY <1>9, <2>1, <3>2
      <4>2. v3[u].job.doc \in Docs  BY <1>2 DEF WriterSound, JobOrNone
      <4>3. v1'[<<v3[u].job.doc, n>>] = v1[<<v3[u].job.doc, n>>]
            /\ v2'[<<v3[u].job.doc, n>>] = v2[<<v3[u].job.doc, n>>]
        BY <1>11, <4>1, <4>2
      <4> QED  BY <1>5, <2>1, <3>2, <4>3, OthersSettle
    <3> QED  BY <3>1, <3>2
  <2> QED  BY <2>1, <2>2
<1>13. LastSound'
  <2> SUFFICES ASSUME NEW d \in Docs, v7[d].op # "none"
               PROVE /\ v7[d].doc = d
                     /\ \A c \in Threads : v3[c].job.op # "none" => v3[c].job.doc # d
                     /\ \A n \in Numbers : InPlace(v1', v2', v7[d], n)
    BY <1>1, <1>8 DEF LastSound, InPlace
  <2>1. /\ v7[d].doc = d
        /\ \A c \in Threads : v3[c].job.op # "none" => v3[c].job.doc # d
        /\ \A n \in Numbers : InPlace(v1, v2, v7[d], n)
    BY <1>0 DEF LastSound
  <2>2. d # job.doc  BY <1>9, <2>1
  <2>3. ASSUME NEW n \in Numbers PROVE InPlace(v1', v2', v7[d], n)
    BY <1>11, <2>1, <2>2, OthersSettle
  <2> QED  BY <2>1, <2>3
<1>14. QuerySound'  BY <1>0, <1>1, SearchStays
<1> QED  BY <1>10, <1>12, <1>13, <1>14 DEF KnowledgeState

\* A request is queued as a list of writes (upsert_document, delete_session_knowledge).
LEMMA QueueKeeps ==
    ASSUME KnowledgeState, NEW t \in Threads, NEW jobs \in Seq(Jobs), K!Queue(t, jobs)
    PROVE  KnowledgeState'
<1> DEFINE w == [K!Resting EXCEPT !.left = jobs]
<1>1. /\ v1' = v1 /\ v2' = v2 /\ v4' = v4 /\ v7' = v7 /\ v5' = v5 + 1
      /\ v3' = [v3 EXCEPT ![t] = w]
  BY DEF K!Queue
<1>2. WriterSound(w) /\ w.job.op = "none"  BY RestingTypes
<1> HIDE DEF w
<1>3. DOMAIN v3 = Threads /\ v5 \in Nat /\ v7 \in [Docs -> JobOrNone]
      /\ \A u \in Threads : WriterSound(v3[u])
  BY DEF KnowledgeState, StoresSound
<1>4. /\ DOMAIN v3' = Threads /\ v5' \in Nat
      /\ \A u \in Threads : WriterSound(v3'[u]) /\ (v3'[u].job.op = "none" \/ v3'[u] = v3[u])
  BY <1>1, <1>2, <1>3
<1>5. StoresSound' /\ AloneSound' /\ LastSound'
  BY <1>1, <1>3, <1>4, WritersRest DEF KnowledgeState
<1>6. QuerySound'  BY <1>1, SearchStays DEF KnowledgeState
<1> QED  BY <1>5, <1>6 DEF KnowledgeState

\* Some of the documents, in a list.
LEMMA OneOfDocs == ASSUME NEW X, X \subseteq Docs PROVE K!SetToSeq(X) \in Seq(Docs)
<1>1. IsFiniteSet(X)  BY KnowledgeConstants, FS_Subset
<1>2. K!SetToSeq(X) \in Seq(X)  BY <1>1, SetListed
<1> HIDE DEF K!SetToSeq
<1> QED  BY <1>2

\* What is read of a document can be written again (get_document).
LEMMA DocumentRead ==
    ASSUME StoreSound(v1), NEW d \in Docs
    PROVE  K!GetDocument(d) \in Jobs
<1> DEFINE r0 == <<d, 0>>
           kids == K!Children(d)
           f == [r \in kids |-> r[2]]
<1>1. MaxChunks \in Nat /\ MaxChunks > 1  BY KnowledgeConstants
<1>2. r0 \in K!Rows /\ v1[r0] \in StoredRow /\ Fits(r0, v1[r0])
  BY <1>1 DEF K!Rows, StoreSound
<1>3. kids = {r \in K!Rows : v1[r].kind = "chunk" /\ r[1] = d}
  BY DEF K!Children, K!Stored
<1>4. \A r \in kids : r \in K!Rows /\ r = <<d, r[2]>> /\ r[2] \in 1 .. MaxChunks /\ v1[r] \in StoredRow
  BY <1>1, <1>3 DEF StoreSound, Fits, K!Rows
<1> HIDE DEF kids
<1>5. IsFiniteSet(kids) /\ Cardinality(kids) <= MaxChunks /\ Cardinality(kids) \in Nat
  <2>1. f \in [kids -> 1 .. MaxChunks]  BY <1>4
  <2>2. \A a, b \in kids : f[a] = f[b] => a = b  BY <1>4
  <2>3. f \in Injection(kids, 1 .. MaxChunks)  BY <2>1, <2>2 DEF Injection, IsInjective
  <2>4. IsFiniteSet(1 .. MaxChunks) /\ Cardinality(1 .. MaxChunks) = MaxChunks
    BY <1>1, FS_Interval
  <2> HIDE DEF f
  <2> QED  BY <2>3, <2>4, FS_Injection, FS_CardinalityType
<1>6. kids # {} => K!Cardinality(kids) \in 1 .. MaxChunks
  <2>1. kids # {} => Cardinality(kids) # 0  BY <1>5, FS_EmptySet
  <2> QED  BY <1>1, <1>5, <2>1, KnowledgeCount
<1>7. ASSUME kids # {} PROVE K!FirstOf(kids) \in kids
  <2> DEFINE T == {r[2] : r \in kids}
  <2>1. T \subseteq Nat /\ T # {}  BY <1>1, <1>4, <1>7
  <2>2. PICK n \in T : \A m \in T : n <= m  BY <2>1, LeastNat
  <2>3. PICK r \in kids : r[2] = n  BY <2>2
  <2>4. \A q \in kids : r[2] <= q[2]  BY <2>2, <2>3
  <2> QED  BY <2>4 DEF K!FirstOf
<1> DEFINE text == IF v1[r0].kind = "parent" \/ kids = {} THEN v1[r0] ELSE v1[K!FirstOf(kids)]
           n == IF v1[r0].kind = "parent" THEN v1[r0].of ELSE IF kids = {} THEN 1 ELSE K!Cardinality(kids)
<1>8. text \in StoredRow  BY <1>2, <1>4, <1>7
<1>9. n \in 1 .. MaxChunks  BY <1>1, <1>2, <1>6 DEF Fits
<1>10. K!GetDocument(d) = [op |-> "upsert", doc |-> d, n |-> n, ver |-> text.ver,
                           own |-> v1[r0].own, hash |-> v1[r0].hash]
  BY DEF K!GetDocument, kids
<1> HIDE DEF text, n
<1>11. text.ver \in Nat /\ v1[r0].own \in K!Scopes /\ v1[r0].hash \in Nat
  BY <1>2, <1>8 DEF StoredRow
<1> QED  BY <1>9, <1>10, <1>11 DEF Jobs, JobOrNone

\* The requests of the API and of the start: an upload, a deletion, the documents of
\* a session, a new embedding model.
LEMMA RequestsKeep ==
    ASSUME KnowledgeState, NEW t \in Threads,
           \/ K!UpsertDocument(t) \/ K!DeleteDocument(t)
           \/ K!DeleteBySession(t) \/ K!ReindexCollection(t)
    PROVE  KnowledgeState'
<1>1. StoreSound(v1) /\ v5 \in Nat  BY DEF KnowledgeState, StoresSound
<1>2. \A d \in Docs : [K!NoJob EXCEPT !.op = "delete", !.doc = d] \in Jobs
  <2>1. K!NoJob \in JobOrNone
    BY KnowledgeConstants DEF K!NoJob, JobOrNone, K!Scopes
  <2> SUFFICES ASSUME NEW d \in Docs, NEW job, job = [K!NoJob EXCEPT !.op = "delete", !.doc = d]
               PROVE  job \in Jobs
    OBVIOUS
  <2>2. job \in JobOrNone /\ job.op = "delete"  BY <2>1 DEF JobOrNone
  <2> QED  BY <2>2 DEF Jobs
<1>3. CASE K!UpsertDocument(t)
  <2>1. PICK d \in Docs, n \in K!ChunkDocument, own \in K!Scopes :
           K!Queue(t, << [op |-> "upsert", doc |-> d, n |-> n, ver |-> v5 + 1, own |-> own, hash |-> 0] >>)
    BY <1>3 DEF K!UpsertDocument
  <2>2. [op |-> "upsert", doc |-> d, n |-> n, ver |-> v5 + 1, own |-> own, hash |-> 0] \in Jobs
    BY <1>1 DEF Jobs, JobOrNone, K!ChunkDocument
  <2>3. << [op |-> "upsert", doc |-> d, n |-> n, ver |-> v5 + 1, own |-> own, hash |-> 0] >> \in Seq(Jobs)
    BY <2>2
  <2> QED  BY <2>1, <2>3, QueueKeeps
<1>4. CASE K!DeleteDocument(t)
  <2>1. PICK d \in Docs : K!Queue(t, << [K!NoJob EXCEPT !.op = "delete", !.doc = d] >>)
    BY <1>4 DEF K!DeleteDocument
  <2> DEFINE job == [K!NoJob EXCEPT !.op = "delete", !.doc = d]
  <2>2. job \in Jobs  BY <1>2
  <2> HIDE DEF job
  <2>3. <<job>> \in Seq(Jobs)  BY <2>2
  <2> QED  BY <2>1, <2>3, QueueKeeps DEF job
<1>5. CASE K!DeleteBySession(t)
  <2>1. PICK own \in Owners :
          LET docs == {r[1] : r \in {q \in K!Rows : v1[q].kind # "none" /\ v1[q].own = own}}
              seq == K!SetToSeq(docs)
          IN K!Queue(t, [i \in DOMAIN seq |-> [K!NoJob EXCEPT !.op = "delete", !.doc = seq[i]]])
    BY <1>5 DEF K!DeleteBySession
  <2> DEFINE docs == {r[1] : r \in {q \in K!Rows : v1[q].kind # "none" /\ v1[q].own = own}}
             seq == K!SetToSeq(docs)
             jobs == [i \in DOMAIN seq |-> [K!NoJob EXCEPT !.op = "delete", !.doc = seq[i]]]
  <2>2. docs \subseteq Docs  BY DEF K!Rows
  <2>3. seq \in Seq(Docs)  BY <2>2, OneOfDocs
  <2>4. K!Queue(t, jobs)  BY <2>1
  <2> HIDE DEF seq
  <2>5. DOMAIN seq = 1 .. Len(seq) /\ Len(seq) \in Nat /\ \A i \in DOMAIN seq : seq[i] \in Docs
    BY <2>3
  <2>6. jobs \in [1 .. Len(seq) -> Jobs]  BY <1>2, <2>5
  <2> HIDE DEF jobs
  <2>7. jobs \in Seq(Jobs)  BY <2>5, <2>6
  <2> QED  BY <2>4, <2>7, QueueKeeps
<1>6. CASE K!ReindexCollection(t)
  <2> DEFINE seq == K!SetToSeq(K!ListDocuments)
             jobs == [i \in DOMAIN seq |-> K!GetDocument(seq[i])]
  <2>1. K!Queue(t, jobs)  BY <1>6 DEF K!ReindexCollection
  <2>2. seq \in Seq(Docs)  BY OneOfDocs DEF K!ListDocuments
  <2> HIDE DEF seq
  <2>3. DOMAIN seq = 1 .. Len(seq) /\ Len(seq) \in Nat /\ \A i \in DOMAIN seq : seq[i] \in Docs
    BY <2>2
  <2>4. jobs \in [1 .. Len(seq) -> Jobs]  BY <1>1, <2>3, DocumentRead
  <2> HIDE DEF jobs
  <2>5. jobs \in Seq(Jobs)  BY <2>3, <2>4
  <2> QED  BY <2>1, <2>5, QueueKeeps
<1> QED  BY <1>3, <1>4, <1>5, <1>6

\* The steps of a write are laid out: the request is alone with the document,
\* or all that write it know that they are not.
LEMMA JobBeginKeeps ==
    ASSUME KnowledgeState, NEW t \in Threads, K!BeginJob(t)
    PROVE  KnowledgeState'
<1> DEFINE job == Head(v3[t].left)
           others == K!Overlap(t, job.doc)
           todo == IF job.op = "upsert" THEN K!UpsertSteps(job) ELSE K!RemoveSteps(job)
           w == [job |-> job, left |-> Tail(v3[t].left), alone |-> others = {}, todo |-> todo]
<1>1. /\ v3[t].job.op = "none" /\ v3[t].left # <<>>
      /\ v3' = [u \in Threads |-> IF u = t THEN w
                                  ELSE IF u \in others THEN [v3[u] EXCEPT !.alone = FALSE] ELSE v3[u]]
      /\ v7' = [v7 EXCEPT ![job.doc] = K!NoJob]
      /\ v4' = [v4 EXCEPT !.sure = @ \ {job.doc}]
      /\ v1' = v1 /\ v2' = v2 /\ v5' = v5
  BY DEF K!BeginJob
<1>2. StoresSound /\ AloneSound /\ LastSound /\ QuerySound  BY DEF KnowledgeState
<1>3. /\ StoreSound(v1) /\ v5 \in Nat /\ v7 \in [Docs -> JobOrNone]
      /\ \A u \in Threads : WriterSound(v3[u])
  BY <1>2 DEF StoresSound
<1>4. v3[t].left \in Seq(Jobs)  BY <1>3 DEF WriterSound
<1>5. job \in Jobs /\ Tail(v3[t].left) \in Seq(Jobs)  BY <1>1, <1>4
<1> HIDE DEF job
<1>6. job \in JobOrNone /\ job.doc \in Docs /\ job.op \in {"upsert", "delete"}
  BY <1>5 DEF Jobs, JobOrNone
<1>7. StepsSound(job, todo) /\ \A n \in Numbers : Settling(v1, v2, job, todo, n)
  BY <1>3, <1>5, <1>6, UpsertSettles, RemoveSettles
<1>8. others = {u \in Threads \ {t} : v3[u].job.op # "none" /\ v3[u].job.doc = job.doc}
  BY DEF K!Overlap
<1> HIDE DEF others, todo
<1>9. K!NoJob \in JobOrNone /\ K!NoJob.op = "none"
  BY KnowledgeConstants DEF K!NoJob, JobOrNone, K!Scopes
<1>10. /\ w \in [job : JobOrNone, left : Seq(Jobs), todo : Seq(Steps), alone : BOOLEAN]
       /\ w.job = job /\ w.todo = todo /\ (w.alone <=> others = {})
  <2>1. todo \in Seq(Steps)  BY <1>7 DEF StepsSound
  <2>2. (others = {}) \in BOOLEAN  OBVIOUS
  <2> QED  BY <1>5, <1>6, <2>1, <2>2
<1> HIDE DEF w
<1>11. WriterSound(w)  BY <1>6, <1>7, <1>10 DEF WriterSound
<1>12. ASSUME NEW u \in others
       PROVE  /\ WriterSound(v3'[u]) /\ v3'[u].job = v3[u].job /\ ~ v3'[u].alone
  <2>1. v3'[u] = [v3[u] EXCEPT !.alone = FALSE] /\ WriterSound(v3[u])  BY <1>1, <1>3, <1>8
  <2>2. /\ v3'[u] \in [job : JobOrNone, left : Seq(Jobs), todo : Seq(Steps), alone : BOOLEAN]
        /\ v3'[u].job = v3[u].job /\ v3'[u].todo = v3[u].todo /\ v3'[u].alone = FALSE
    BY <2>1 DEF WriterSound
  <2> QED  BY <2>1, <2>2 DEF WriterSound
<1>13. /\ v3'[t] = w /\ DOMAIN v3' = Threads
       /\ \A u \in Threads : u # t /\ u \notin others => v3'[u] = v3[u]
  BY <1>1, <1>8
<1>14. \A u \in Threads : u # t => v3'[u].job = v3[u].job  BY <1>12, <1>13
<1>15. /\ v7' \in [Docs -> JobOrNone] /\ v7'[job.doc].op = "none"
       /\ \A d \in Docs : d # job.doc => v7'[d] = v7[d]
  BY <1>1, <1>3, <1>6, <1>9
<1>16. StoresSound'
  <2>1. \A u \in Threads : WriterSound(v3'[u])  BY <1>3, <1>11, <1>12, <1>13
  <2>2. \A u \in Threads : WriterSound(v3[u])'  BY <2>1 DEF WriterSound, StepsSound
  <2> QED  BY <1>1, <1>2, <1>13, <1>15, <2>2 DEF StoresSound, StoreSound
<1>17. AloneSound'
  <2> SUFFICES ASSUME NEW u \in Threads, v3'[u].job.op # "none", v3'[u].alone
               PROVE /\ \A c \in Threads : v3'[c].job.op # "none" /\ v3'[c].job.doc = v3'[u].job.doc => c = u
                     /\ \A n \in Numbers : Settling(v1, v2, v3'[u].job, v3'[u].todo, n)
    BY <1>1 DEF AloneSound, Settling, Settles, InPlace
  <2>1. CASE u = t
    <3>1. others = {}  BY <1>10, <1>13, <2>1
    <3>2. \A c \in Threads : v3'[c].job.op # "none" /\ v3'[c].job.doc = job.doc => c = t
      BY <1>8, <1>14, <3>1
    <3> QED  BY <1>7, <1>10, <1>13, <2>1, <3>2
  <2>2. CASE u # t
    <3>1. u \notin others /\ v3'[u] = v3[u]  BY <1>12, <1>13, <2>2
    <3>2. v3[u].job.doc # job.doc  BY <1>8, <2>2, <3>1
    <3>3. \A c \in Threads : v3[c].job.op # "none" /\ v3[c].job.doc = v3[u].job.doc => c = u
      BY <1>2, <3>1 DEF AloneSound
    <3>4. \A c \in Threads : v3'[c].job.op # "none" /\ v3'[c].job.doc = v3[u].job.doc => c = u
      BY <1>10, <1>13, <1>14, <3>2, <3>3
    <3>5. \A n \in Numbers : Settling(v1, v2, v3[u].job, v3[u].todo, n)
      BY <1>2, <3>1 DEF AloneSound
    <3> QED  BY <3>1, <3>4, <3>5
  <2> QED  BY <2>1, <2>2
<1>18. LastSound'
  <2> SUFFICES ASSUME NEW d \in Docs, v7'[d].op # "none"
               PROVE /\ v7'[d].doc = d
                     /\ \A c \in Threads : v3'[c].job.op # "none" => v3'[c].job.doc # d
                     /\ \A n \in Numbers : InPlace(v1, v2, v7'[d], n)
    BY <1>1 DEF LastSound, InPlace
  <2>1. d # job.doc /\ v7'[d] = v7[d]  BY <1>15
  <2> QED  BY <1>2, <1>10, <1>13, <1>14, <2>1 DEF LastSound
<1>19. QuerySound'
  <2>1. QueryTypes /\ RowsOnce(v4.hits, v4.near) /\ InScope(v4.hits, v4.sure, v4.own)
        /\ InScope(v4.near, v4.sure, v4.own) /\ CentresSound
    BY <1>2 DEF QuerySound
  <2>2. /\ v4'.pc = v4.pc /\ v4'.own = v4.own /\ v4'.hits = v4.hits /\ v4'.near = v4.near
        /\ v4'.sure = v4.sure \ {job.doc} /\ QueryTypes'
    BY <1>1, <2>1 DEF QueryTypes, Queries
  <2>3. InScope(v4'.hits, v4'.sure, v4'.own) /\ InScope(v4'.near, v4'.sure, v4'.own)
    BY <2>1, <2>2 DEF InScope
  <2>4. CentresSound'
    <3>1. \A d \in v4'.sure : d \in v4.sure /\ d \in Docs /\ v7'[d] = v7[d]
      BY <1>15, <2>1, <2>2 DEF QueryTypes, Queries
    <3> QED  BY <2>1, <2>2, <3>1 DEF CentresSound
  <2>5. RowsOnce(v4'.hits, v4'.near)  BY <2>1, <2>2
  <2> QED  BY <2>2, <2>3, <2>4, <2>5 DEF QuerySound, RowsOnce, InScope
<1> QED  BY <1>16, <1>17, <1>18, <1>19 DEF KnowledgeState

\* A write that ended alone has brought its document where it belongs.
LEMMA JobEndKeeps ==
    ASSUME KnowledgeState, NEW t \in Threads, K!EndJob(t)
    PROVE  KnowledgeState'
<1> DEFINE job == v3[t].job
           w == [K!Resting EXCEPT !.left = v3[t].left]
           ended == IF v3[t].alone THEN job ELSE K!NoJob
<1>1. /\ job.op # "none" /\ v3[t].todo = <<>>
      /\ v3' = [v3 EXCEPT ![t] = w] /\ v7' = [v7 EXCEPT ![job.doc] = ended]
      /\ v1' = v1 /\ v2' = v2 /\ v4' = v4 /\ v5' = v5
  BY DEF K!EndJob
<1>2. StoresSound /\ AloneSound /\ LastSound /\ QuerySound  BY DEF KnowledgeState
<1>3. /\ v5 \in Nat /\ v7 \in [Docs -> JobOrNone] /\ DOMAIN v3 = Threads
      /\ \A u \in Threads : WriterSound(v3[u])
  BY <1>2 DEF StoresSound
<1>4. v3[t].left \in Seq(Jobs) /\ job \in JobOrNone /\ job.doc \in Docs
  BY <1>3 DEF WriterSound, JobOrNone
<1>5. WriterSound(w) /\ w.job.op = "none"  BY <1>4, RestingTypes
<1>6. K!NoJob \in JobOrNone /\ K!NoJob.op = "none"
  BY KnowledgeConstants DEF K!NoJob, JobOrNone, K!Scopes
<1> HIDE DEF w
<1>7. /\ DOMAIN v3' = Threads /\ v3'[t] = w /\ \A u \in Threads : u # t => v3'[u] = v3[u]
  BY <1>1, <1>3
<1>8. ended \in JobOrNone  BY <1>4, <1>6
<1>9. /\ v7' \in [Docs -> JobOrNone] /\ v7'[job.doc] = ended
      /\ \A d \in Docs : d # job.doc => v7'[d] = v7[d]
  BY <1>1, <1>3, <1>4, <1>8
<1>10. \A u \in Threads : WriterSound(v3'[u]) /\ (v3'[u].job.op = "none" \/ v3'[u] = v3[u])
  BY <1>3, <1>5, <1>7
<1>11. StoresSound' /\ AloneSound'
  BY <1>1, <1>2, <1>3, <1>7, <1>9, <1>10, WritersRest
<1>12. LastSound'
  <2> SUFFICES ASSUME NEW d \in Docs, v7'[d].op # "none"
               PROVE /\ v7'[d].doc = d
                     /\ \A c \in Threads : v3'[c].job.op # "none" => v3'[c].job.doc # d
                     /\ \A n \in Numbers : InPlace(v1, v2, v7'[d], n)
    BY <1>1 DEF LastSound, InPlace
  <2>1. CASE d = job.doc
    <3>1. v3[t].alone /\ v7'[d] = job  BY <1>6, <1>9, <2>1
    <3>2. /\ \A c \in Threads : v3[c].job.op # "none" /\ v3[c].job.doc = job.doc => c = t
          /\ \A n \in Numbers : Settling(v1, v2, job, v3[t].todo, n)
      BY <1>1, <1>2, <3>1 DEF AloneSound
    <3>3. \A n \in Numbers : InPlace(v1, v2, job, n)
      <4>1. DOMAIN v3[t].todo = {}  BY <1>1
      <4> QED  BY <3>2, <4>1 DEF Settling
    <3>4. \A c \in Threads : v3'[c].job.op # "none" => v3'[c].job.doc # d
      BY <1>5, <1>7, <2>1, <3>2
    <3> QED  BY <2>1, <3>1, <3>3, <3>4
  <2>2. CASE d # job.doc
    <3>1. v7'[d] = v7[d]  BY <1>9, <2>2
    <3> QED  BY <1>2, <1>5, <1>7, <3>1 DEF LastSound
  <2> QED  BY <2>1, <2>2
<1>13. QuerySound'
  <2>1. v7[job.doc].op = "none"  BY <1>1, <1>2, <1>4 DEF LastSound
  <2>2. v4.pc = "expand" => \A d \in v4.sure : d # job.doc /\ d \in Docs
    BY <1>2, <2>1 DEF QuerySound, CentresSound, QueryTypes, Queries
  <2>3. CentresSound'
    BY <1>1, <1>2, <1>9, <2>2 DEF QuerySound, CentresSound
  <2> QED  BY <1>1, <1>2, <2>3 DEF QuerySound, QueryTypes, RowsOnce, InScope
<1> QED  BY <1>11, <1>12, <1>13 DEF KnowledgeState

\* No search is under way: nothing is found yet.
LEMMA NoQueryTypes ==
    ASSUME NEW w, w = K!NoQuery
    PROVE  /\ w \in Queries
           /\ w.pc = "none" /\ w.hits = <<>> /\ w.near = <<>> /\ w.rank = 1 /\ w.offset = -1
           /\ DOMAIN w.hits = {} /\ DOMAIN w.near = {} /\ w.sure = {}
<1>1. <<>> \in Seq(HitRow) /\ DOMAIN <<>> = {} /\ {} \in SUBSET Docs  OBVIOUS
<1>2. Shared \in K!Scopes  BY DEF K!Scopes
<1> QED  BY <1>1, <1>2 DEF K!NoQuery, Queries

\* What is said of a search holds where none is under way.
LEMMA NoQuerySound ==
    /\ v4 = K!NoQuery => QuerySound
    /\ v4' = K!NoQuery => QuerySound'
<1>1. v4 = K!NoQuery => QuerySound
  BY NoQueryTypes DEF QuerySound, QueryTypes, RowsOnce, InScope, CentresSound
<1>2. v4' = K!NoQuery => QuerySound'
  BY NoQueryTypes DEF QuerySound, QueryTypes, RowsOnce, InScope, CentresSound
<1> QED  BY <1>1, <1>2

\* A failed write, or the end of the process, leaves the stores as they are, and its
\* document is not written well until it is written again.
LEMMA StopsKeep ==
    ASSUME KnowledgeState, (\E t \in Threads : K!FailWrite(t)) \/ K!Restart
    PROVE  KnowledgeState'
<1>1. StoresSound /\ AloneSound /\ LastSound /\ QuerySound  BY DEF KnowledgeState
<1>2. /\ v5 \in Nat /\ v7 \in [Docs -> JobOrNone] /\ DOMAIN v3 = Threads
      /\ \A u \in Threads : WriterSound(v3[u])
  BY <1>1 DEF StoresSound
<1>3. /\ WriterSound(K!Resting) /\ K!Resting.job.op = "none"
      /\ \A jobs \in Seq(Jobs) : WriterSound([K!Resting EXCEPT !.left = jobs])
                                 /\ [K!Resting EXCEPT !.left = jobs].job.op = "none"
  <2>1. <<>> \in Seq(Jobs)  OBVIOUS
  <2> QED  BY <2>1, RestingTypes
<1>4. ASSUME NEW t \in Threads, K!FailWrite(t) PROVE KnowledgeState'
  <2>1. /\ v3' = [v3 EXCEPT ![t] = K!Resting]
        /\ v1' = v1 /\ v2' = v2 /\ v4' = v4 /\ v5' = v5 /\ v7' = v7
    BY <1>4 DEF K!FailWrite
  <2>2. /\ DOMAIN v3' = Threads
        /\ \A u \in Threads : WriterSound(v3'[u]) /\ (v3'[u].job.op = "none" \/ v3'[u] = v3[u])
    BY <1>2, <1>3, <2>1
  <2>3. StoresSound' /\ AloneSound' /\ LastSound'  BY <1>1, <1>2, <2>1, <2>2, WritersRest
  <2>4. QuerySound'  BY <1>1, <2>1, SearchStays
  <2> QED  BY <2>3, <2>4 DEF KnowledgeState
<1>5. CASE K!Restart
  <2>1. PICK t \in Threads :
           v3' = [u \in Threads |-> IF u = t THEN [K!Resting EXCEPT !.left = K!SeedJobs(v1)] ELSE K!Resting]
    BY <1>5 DEF K!Restart
  <2>2. v1' = v1 /\ v2' = v2 /\ v4' = K!NoQuery /\ v5' = v5 + 1 /\ v7' = v7
    BY <1>5 DEF K!Restart
  <2>3. K!Seed \in Jobs
    BY KnowledgeConstants DEF K!Seed, Jobs, JobOrNone, K!Scopes
  <2>4. K!SeedJobs(v1) \in Seq(Jobs)  BY <2>3 DEF K!SeedJobs
  <2>5. /\ DOMAIN v3' = Threads
        /\ \A u \in Threads : WriterSound(v3'[u]) /\ v3'[u].job.op = "none"
    BY <1>3, <2>1, <2>4
  <2>6. StoresSound' /\ AloneSound' /\ LastSound'  BY <1>1, <1>2, <2>2, <2>5, WritersRest
  <2>7. QuerySound'  BY <2>2, NoQuerySound
  <2> QED  BY <2>6, <2>7 DEF KnowledgeState
<1> QED  BY <1>4, <1>5

\* A search recalls rows that its session may see, and knows of which documents
\* the catalogue and the index are in step.
LEMMA SearchFinds == ASSUME KnowledgeState, K!HybridSearch PROVE QuerySound'
<1>1. StoresSound /\ LastSound  BY DEF KnowledgeState
<1>2. StoreSound(v1) /\ StoreSound(v2)  BY <1>1 DEF StoresSound
<1> DEFINE sure0 == {d \in Docs : K!NoneLeft(d)}
<1>0. PICK own \in K!Scopes :
        \E v \in SUBSET K!VectorHits(own), k \in SUBSET K!KeywordHits(own) :
           \E hits \in K!Rankings(K!RrfMerge(v, k)) :
              v4' = [K!NoQuery EXCEPT !.pc = "expand", !.own = own, !.hits = hits, !.sure = sure0]
  BY DEF K!HybridSearch
<1>3. PICK v \in SUBSET K!VectorHits(own), k \in SUBSET K!KeywordHits(own) :
        \E hits \in K!Rankings(K!RrfMerge(v, k)) :
           v4' = [K!NoQuery EXCEPT !.pc = "expand", !.own = own, !.hits = hits, !.sure = sure0]
  BY <1>0
<1>4. PICK hits \in K!Rankings(K!RrfMerge(v, k)) :
        v4' = [K!NoQuery EXCEPT !.pc = "expand", !.own = own, !.hits = hits, !.sure = sure0]
  BY <1>3
<1>5. v1' = v1 /\ v2' = v2 /\ v7' = v7  BY DEF K!HybridSearch
<1> DEFINE found == K!RrfMerge(v, k)
           At(r) == IF r \in k THEN v1[r] ELSE v2[r]
<1>6. found = {[row |-> r, own |-> At(r).own, kind |-> At(r).kind] : r \in v \cup k}
  BY DEF K!RrfMerge, K!Hit
<1>7. \A r \in v \cup k :
        /\ r \in K!Rows /\ At(r) \in StoredRow /\ At(r).own \in {Shared, own}
        /\ At(r).kind # "none" /\ Fits(r, At(r))
  BY <1>2 DEF K!VectorHits, K!KeywordHits, K!Stored, K!SessionMatches, StoreSound
<1>8. \A h \in found : /\ h \in HitRow /\ h.row \in v \cup k /\ h.own = At(h.row).own /\ h.kind = At(h.row).kind
                       /\ h = [row |-> h.row, own |-> At(h.row).own, kind |-> At(h.row).kind]
  BY <1>6, <1>7 DEF HitRow, StoredRow
<1>9. /\ hits \in Seq(found)
      /\ \A i, j \in DOMAIN hits : hits[i] = hits[j] => i = j
  <2>1. hits \in K!Rerank(found)  BY DEF K!Rankings
  <2>2. PICK n \in 0 .. TopK : hits \in [1 .. n -> found]  BY <2>1 DEF K!Rerank
  <2>3. n \in Nat  BY <2>2, KnowledgeConstants
  <2>4. \A i, j \in DOMAIN hits : hits[i] = hits[j] => i = j  BY <2>1 DEF K!Rerank, K!IsInjective
  <2> HIDE DEF found
  <2> QED  BY <2>2, <2>3, <2>4
<1> HIDE DEF found, At
<1>10. \A i \in DOMAIN hits : hits[i] \in found  BY <1>9
<1>11. hits \in Seq(HitRow)
  <2>1. found \subseteq HitRow  BY <1>8
  <2> QED  BY <1>9, <2>1
<1>12. \A i, j \in DOMAIN hits : hits[i].row = hits[j].row => i = j
  <2> SUFFICES ASSUME NEW i \in DOMAIN hits, NEW j \in DOMAIN hits, hits[i].row = hits[j].row
               PROVE  i = j
    OBVIOUS
  <2>1. hits[i] = hits[j]  BY <1>8, <1>10
  <2> QED  BY <1>9, <2>1
<1>13. \A i \in DOMAIN hits : hits[i].own \in {Shared, own}  BY <1>7, <1>8, <1>10
<1>14. /\ v4' \in Queries /\ v4'.hits = hits /\ v4'.own = own /\ v4'.sure = sure0
       /\ DOMAIN v4'.near = {}
  <2>1. sure0 \in SUBSET Docs  OBVIOUS
  <2>2. K!NoQuery \in Queries /\ DOMAIN K!NoQuery.near = {}  BY NoQueryTypes
  <2> HIDE DEF sure0
  <2> QED  BY <1>4, <1>11, <2>1, <2>2 DEF Queries
<1>15. QueryTypes'  BY <1>14 DEF QueryTypes
<1>16. RowsOnce(v4'.hits, v4'.near) /\ InScope(v4'.hits, v4'.sure, v4'.own)
       /\ InScope(v4'.near, v4'.sure, v4'.own)
  BY <1>12, <1>13, <1>14 DEF RowsOnce, InScope
<1>17. CentresSound'
  <2>1. \A d \in sure0 : v7[d].op # "none"  BY DEF K!NoneLeft
  <2>2. ASSUME NEW i \in DOMAIN hits, hits[i].kind = "chunk", hits[i].row[1] \in sure0
        PROVE  v7[hits[i].row[1]].own \in {Shared, own}
    <3> DEFINE r == hits[i].row
               d == r[1]
               n == r[2]
    <3>1. r \in v \cup k /\ hits[i].own = At(r).own /\ At(r).kind = "chunk"  BY <1>8, <1>10, <2>2
    <3>2. r \in K!Rows /\ Fits(r, At(r)) /\ hits[i].own \in {Shared, own}  BY <1>7, <1>13, <3>1
    <3>3. d \in Docs /\ n \in Numbers /\ r = <<d, n>> /\ n # 0
      BY <3>1, <3>2 DEF K!Rows, Numbers, Fits
    <3>4. /\ v7[d].op # "none" /\ v7[d].doc = d /\ InPlace(v1, v2, v7[d], n)
      BY <1>1, <2>1, <2>2, <3>3 DEF LastSound
    <3>5. v1[r].kind # "none"
      <4>1. CASE r \in k
        <5>1. At(r) = v1[r]  BY <4>1 DEF At
        <5> QED  BY <3>1, <5>1
      <4>2. CASE r \notin k
        <5>1. At(r) = v2[r]  BY <4>2 DEF At
        <5>2. v2[r].kind # "none"  BY <3>1, <5>1
        <5>3. n \in 1 .. MaxChunks  BY <3>3, KnowledgeConstants DEF Numbers
        <5>4. K!NoneLeft(d)  BY <2>2
        <5>5. v2[<<d, n>>].kind # "none" => v1[<<d, n>>].kind # "none"
          BY <5>3, <5>4 DEF K!NoneLeft
        <5> QED  BY <3>3, <5>2, <5>5
      <4> QED  BY <4>1, <4>2
    <3>6. v1[r] = Wanted(v7[d], n)  BY <3>3, <3>4 DEF InPlace
    <3>7. Wanted(v7[d], n) = K!Row("chunk", v7[d], v7[d].n)
      BY <3>3, <3>5, <3>6 DEF Wanted, K!NoRow
    <3>8. v1[r].kind = "chunk" /\ v1[r].own = v7[d].own  BY <3>6, <3>7 DEF K!Row
    <3>9. v2[r] = v1[r]
      BY <3>3, <3>4, <3>6, <3>8 DEF InPlace
    <3>10. At(r) = v1[r]  BY <3>9 DEF At
    <3> QED  BY <3>1, <3>2, <3>8, <3>10
  <2> QED  BY <1>5, <1>14, <2>1, <2>2 DEF CentresSound
<1> QED  BY <1>15, <1>16, <1>17 DEF QuerySound, RowsOnce, InScope

\* A search that reads on, in a store that it leaves alone.
LEMMA SearchKeeps ==
    ASSUME StoresSound, AloneSound, LastSound, UNCHANGED <<v1, v2, v3, v5, v7>>
    PROVE  StoresSound' /\ AloneSound' /\ LastSound'
BY WritersRest DEF StoresSound

\* A hit around which nothing is read: the search goes on to the next.
LEMMA SkipKeeps == ASSUME QuerySound, K!SkipHit PROVE QuerySound'
<1>1. v4' = [v4 EXCEPT !.rank = @ + 1] /\ v7' = v7  BY DEF K!SkipHit
<1>2. v4 \in Queries  BY DEF QuerySound, QueryTypes
<1>3. /\ v4' \in Queries /\ v4'.pc = v4.pc /\ v4'.own = v4.own /\ v4'.hits = v4.hits
      /\ v4'.near = v4.near /\ v4'.sure = v4.sure
  BY <1>1, <1>2 DEF Queries
<1> QED  BY <1>1, <1>3 DEF QuerySound, QueryTypes, RowsOnce, InScope, CentresSound

\* A neighbour is read by its number from the catalogue as it is: the rows of a
\* document in step are all of one session (_expand_adjacent_chunks).
LEMMA NeighbourKeeps ==
    ASSUME StoresSound, LastSound, QuerySound, K!ReadNeighbour
    PROVE  QuerySound'
<1> DEFINE h == v4.hits[v4.rank]
           n == h.row[2] + v4.offset
           r == <<h.row[1], n>>
           read == n \in 1 .. MaxChunks /\ v1[r].kind = "chunk" /\ ~ K!Seen(r)
           x == [row |-> r, own |-> v1[r].own, kind |-> v1[r].kind]
           more == IF read THEN Append(v4.near, x) ELSE v4.near
           rank2 == IF v4.offset = 1 THEN v4.rank + 1 ELSE v4.rank
<1>1. /\ v4' = [v4 EXCEPT !.near = more, !.rank = rank2, !.offset = - @]
      /\ v4.pc = "expand" /\ v4.rank \in DOMAIN v4.hits /\ h.kind = "chunk"
      /\ v1' = v1 /\ v2' = v2 /\ v7' = v7
  BY DEF K!ReadNeighbour, K!Expanding, K!Group, K!Hit
<1>2. /\ v4 \in Queries /\ RowsOnce(v4.hits, v4.near) /\ InScope(v4.hits, v4.sure, v4.own)
      /\ InScope(v4.near, v4.sure, v4.own) /\ CentresSound
  BY DEF QuerySound, QueryTypes
<1>3. /\ h \in HitRow /\ h.row \in K!Rows /\ v4.near \in Seq(HitRow) /\ v4.rank \in Nat
      /\ v4.hits \in Seq(HitRow) /\ v4.offset \in {-1, 1}
  <2>1. /\ v4.hits \in Seq(HitRow) /\ v4.near \in Seq(HitRow) /\ v4.rank \in Nat
        /\ v4.offset \in {-1, 1}
    BY <1>2 DEF Queries
  <2>2. h \in HitRow  BY <1>1, <2>1
  <2>3. h.row \in K!Rows  BY <2>2 DEF HitRow
  <2> QED  BY <2>1, <2>2, <2>3
<1>4. h.row[1] \in Docs  BY <1>3 DEF K!Rows
<1>5. MaxChunks \in Nat  BY KnowledgeConstants
<1>6. ASSUME read
      PROVE  /\ x \in HitRow /\ x.row = r
             /\ r[1] \in v4.sure => x.own \in {Shared, v4.own}
             /\ \A i \in DOMAIN v4.hits : v4.hits[i].row # r
             /\ \A i \in DOMAIN v4.near : v4.near[i].row # r
  <2>1. n \in Numbers /\ r \in K!Rows  BY <1>4, <1>5, <1>6 DEF Numbers, K!Rows
  <2>2. v1[r] \in StoredRow  BY <2>1 DEF StoresSound, StoreSound
  <2>3. x \in HitRow  BY <2>1, <2>2 DEF HitRow, StoredRow
  <2>4. ASSUME h.row[1] \in v4.sure PROVE v1[r].own \in {Shared, v4.own}
    <3> DEFINE d == h.row[1]
    <3>1. /\ v7[d].op # "none" /\ v7[d].own \in {Shared, v4.own}
      BY <1>1, <1>2, <2>4 DEF CentresSound
    <3>2. v7[d].doc = d /\ InPlace(v1, v2, v7[d], n)
      BY <1>4, <2>1, <3>1 DEF LastSound
    <3>3. v1[r] = Wanted(v7[d], n)  BY <3>2 DEF InPlace
    <3>4. v1[r].kind = "chunk"  BY <1>6
    <3>5. v1[r].own = v7[d].own
      <4> DEFINE job == v7[d]
                 row == v1[r]
      <4>1. row = Wanted(job, n) /\ row.kind = "chunk"  BY <3>3, <3>4
      <4> HIDE DEF job, row
      <4>2. row.own = job.own  BY <4>1 DEF Wanted, K!NoRow, K!Row
      <4> QED  BY <4>2 DEF job, row
    <3> QED  BY <3>1, <3>5
  <2>5. /\ \A i \in DOMAIN v4.hits : v4.hits[i].row # r
        /\ \A i \in DOMAIN v4.near : v4.near[i].row # r
    BY <1>6 DEF K!Seen
  <2> QED  BY <2>3, <2>4, <2>5
<1> HIDE DEF h, n, r, x
<1>7. /\ more \in Seq(HitRow)
      /\ \A i \in DOMAIN more :
            \/ i \in DOMAIN v4.near /\ more[i] = v4.near[i]
            \/ read /\ i = Len(v4.near) + 1 /\ more[i] = x
      /\ Len(v4.near) \in Nat /\ DOMAIN v4.near = 1 .. Len(v4.near)
  <2>1. CASE read
    <3>1. x \in HitRow /\ more = Append(v4.near, x)  BY <1>6, <2>1
    <3> HIDE DEF more, read
    <3> QED  BY <1>3, <2>1, <3>1
  <2>2. CASE ~ read
    <3>1. more = v4.near  BY <2>2
    <3> HIDE DEF more, read
    <3> QED  BY <1>3, <3>1
  <2> QED  BY <2>1, <2>2
<1>8. rank2 \in Nat  BY <1>3
<1> HIDE DEF more, read, rank2
<1>9. /\ v4' \in Queries /\ v4'.pc = v4.pc /\ v4'.own = v4.own /\ v4'.hits = v4.hits
      /\ v4'.near = more /\ v4'.sure = v4.sure
  <2>1. - v4.offset \in {-1, 1}  BY <1>3
  <2> QED  BY <1>1, <1>2, <1>7, <1>8, <2>1 DEF Queries
<1>10. RowsOnce(v4.hits, more)
  <2>1. ASSUME NEW i \in DOMAIN more, NEW j \in DOMAIN more, more[i].row = more[j].row PROVE i = j
    <3>1. CASE i \in DOMAIN v4.near /\ more[i] = v4.near[i]
      <4>1. ~ (read /\ more[j] = x)
        <5> SUFFICES ASSUME read, more[j] = x PROVE FALSE  OBVIOUS
        <5>1. v4.near[i].row = r  BY <1>6, <2>1, <3>1
        <5> QED  BY <1>6, <3>1, <5>1
      <4>2. j \in DOMAIN v4.near /\ more[j] = v4.near[j]  BY <1>7, <4>1
      <4> QED  BY <1>2, <2>1, <3>1, <4>2 DEF RowsOnce
    <3>2. CASE read /\ i = Len(v4.near) + 1 /\ more[i] = x
      <4>1. CASE j \in DOMAIN v4.near /\ more[j] = v4.near[j]  BY <1>6, <2>1, <3>2, <4>1
      <4>2. CASE j = Len(v4.near) + 1  BY <3>2, <4>2
      <4> QED  BY <1>7, <4>1, <4>2
    <3> QED  BY <1>7, <3>1, <3>2
  <2>2. ASSUME NEW i \in DOMAIN v4.hits, NEW j \in DOMAIN more PROVE v4.hits[i].row # more[j].row
    <3>1. CASE more[j] = v4.near[j] /\ j \in DOMAIN v4.near  BY <1>2, <3>1 DEF RowsOnce
    <3>2. CASE read /\ more[j] = x  BY <1>6, <3>2
    <3> QED  BY <1>7, <3>1, <3>2
  <2>3. \A i, j \in DOMAIN v4.hits : v4.hits[i].row = v4.hits[j].row => i = j
    BY <1>2 DEF RowsOnce
  <2> QED  BY <2>1, <2>2, <2>3 DEF RowsOnce
<1>11. InScope(more, v4.sure, v4.own)
  <2> SUFFICES ASSUME NEW i \in DOMAIN more, more[i].row[1] \in v4.sure
               PROVE  more[i].own \in {Shared, v4.own}
    BY DEF InScope
  <2>1. CASE i \in DOMAIN v4.near /\ more[i] = v4.near[i]  BY <1>2, <2>1 DEF InScope
  <2>2. CASE read /\ more[i] = x
    <3>1. x.row = r /\ (r[1] \in v4.sure => x.own \in {Shared, v4.own})  BY <1>6, <2>2
    <3> QED  BY <2>2, <3>1
  <2> QED  BY <1>7, <2>1, <2>2
<1>12. CentresSound'  BY <1>1, <1>2, <1>9 DEF CentresSound
<1> QED  BY <1>2, <1>9, <1>10, <1>11, <1>12 DEF QuerySound, QueryTypes, RowsOnce, InScope

\* The answer is the hits and, behind them, the neighbours, as long as there is room.
LEMMA AnswerKeeps ==
    ASSUME QuerySound, K!ReturnHits
    PROVE  QuerySound'
<1> DEFINE all == v4.hits \o v4.near
           k == IF Len(all) < TopK THEN Len(all) ELSE TopK
           cut == SubSeq(all, 1, k)
<1>1. /\ v4' = [K!NoQuery EXCEPT !.pc = "done", !.own = v4.own, !.sure = v4.sure, !.hits = cut]
      /\ v7' = v7
  BY DEF K!ReturnHits, K!FirstHits
<1>2. /\ v4 \in Queries /\ RowsOnce(v4.hits, v4.near) /\ InScope(v4.hits, v4.sure, v4.own)
      /\ InScope(v4.near, v4.sure, v4.own)
  BY DEF QuerySound, QueryTypes
<1> DEFINE p == v4.hits
           q == v4.near
<1>3. p \in Seq(HitRow) /\ q \in Seq(HitRow)  BY <1>2 DEF Queries
<1>4. RowsOnce(p, q) /\ InScope(p, v4.sure, v4.own) /\ InScope(q, v4.sure, v4.own)  BY <1>2
<1> HIDE DEF p, q
<1>5. /\ p \o q \in Seq(HitRow) /\ Len(p \o q) = Len(p) + Len(q) /\ Len(p) \in Nat /\ Len(q) \in Nat
      /\ \A i \in 1 .. Len(p) + Len(q) :
            \/ i \in DOMAIN p /\ (p \o q)[i] = p[i]
            \/ i > Len(p) /\ i - Len(p) \in DOMAIN q /\ (p \o q)[i] = q[i - Len(p)]
  BY <1>3
<1>6. all = p \o q  BY DEF p, q
<1> HIDE DEF all
<1>7. /\ all \in Seq(HitRow) /\ Len(all) \in Nat /\ Len(all) = Len(p) + Len(q)
      /\ \A i \in 1 .. Len(all) :
            \/ i \in DOMAIN p /\ all[i] = p[i]
            \/ i > Len(p) /\ i - Len(p) \in DOMAIN q /\ all[i] = q[i - Len(p)]
  BY <1>5, <1>6
<1>8. k \in 0 .. Len(all)  BY <1>7, KnowledgeConstants
<1> HIDE DEF k
<1>9. /\ cut \in Seq(HitRow) /\ DOMAIN cut = 1 .. k /\ \A i \in 1 .. k : cut[i] = all[i]
  <2>1. Len(cut) = k /\ \A i \in 1 .. k : cut[i] = all[i]
    BY <1>7, <1>8
  <2>2. cut = [i \in 1 .. k |-> all[i]]  BY <1>7, <1>8
  <2>3. \A i \in 1 .. k : all[i] \in HitRow  BY <1>7, <1>8
  <2>4. cut \in [1 .. k -> HitRow]  BY <2>2, <2>3
  <2>5. k \in Nat  BY <1>7, <1>8
  <2> HIDE DEF cut
  <2>6. cut \in Seq(HitRow)  BY <2>4, <2>5
  <2>7. DOMAIN cut = 1 .. k  BY <2>4
  <2> QED  BY <2>1, <2>6, <2>7
<1> HIDE DEF cut
<1>10. \A i \in DOMAIN cut :
         \/ i \in DOMAIN p /\ cut[i] = p[i]
         \/ i > Len(p) /\ i - Len(p) \in DOMAIN q /\ cut[i] = q[i - Len(p)]
  BY <1>7, <1>8, <1>9
<1>11. \A i \in DOMAIN cut : i \in Int  BY <1>7, <1>8, <1>9
<1>12. ASSUME NEW i \in DOMAIN cut, NEW j \in DOMAIN cut, cut[i].row = cut[j].row PROVE i = j
  <2>1. CASE i \in DOMAIN p /\ cut[i] = p[i]
    <3>1. j \in DOMAIN p /\ cut[j] = p[j]  BY <1>4, <1>10, <1>12, <2>1 DEF RowsOnce
    <3> QED  BY <1>4, <1>12, <2>1, <3>1 DEF RowsOnce
  <2>2. CASE i > Len(p) /\ i - Len(p) \in DOMAIN q /\ cut[i] = q[i - Len(p)]
    <3>1. j - Len(p) \in DOMAIN q /\ cut[j] = q[j - Len(p)]  BY <1>4, <1>10, <1>12, <2>2 DEF RowsOnce
    <3>2. i - Len(p) = j - Len(p)  BY <1>4, <1>12, <2>2, <3>1 DEF RowsOnce
    <3> QED  BY <1>5, <1>11, <3>2
  <2> QED  BY <1>10, <2>1, <2>2
<1>13. InScope(cut, v4.sure, v4.own)  BY <1>4, <1>10 DEF InScope
<1>14. /\ v4' \in Queries /\ v4'.pc = "done" /\ v4'.own = v4.own /\ v4'.hits = cut
       /\ v4'.sure = v4.sure /\ DOMAIN v4'.near = {}
  <2>1. K!NoQuery \in Queries /\ DOMAIN K!NoQuery.near = {}  BY NoQueryTypes
  <2> QED  BY <1>1, <1>2, <1>9, <2>1 DEF Queries
<1>15. RowsOnce(v4'.hits, v4'.near) /\ InScope(v4'.hits, v4'.sure, v4'.own)
       /\ InScope(v4'.near, v4'.sure, v4'.own)
  BY <1>12, <1>13, <1>14 DEF RowsOnce, InScope
<1> QED  BY <1>14, <1>15 DEF QuerySound, QueryTypes, RowsOnce, InScope, CentresSound

\* The process starts with its builtin document as the seed wrote it.
LEMMA KnowledgeStart == Init => KnowledgeInv
<1> SUFFICES ASSUME K!KnowledgeInit PROVE KnowledgeState
  BY DEF Init, KnowledgeInv
<1>1. /\ v1 = [r \in K!Rows |-> K!SeededRow(r)]
      /\ v2 = [r \in K!Rows |-> IF K!SeededRow(r).kind = "chunk" THEN K!SeededRow(r) ELSE K!NoRow]
      /\ v3 = [t \in Threads |-> K!Resting] /\ v4 = K!NoQuery /\ v5 = 0
      /\ v7 = [d \in Docs |-> IF d = Builtin THEN K!Seed ELSE K!NoJob]
  BY DEF K!KnowledgeInit
<1>2. /\ K!Seed \in Jobs /\ K!NoJob \in JobOrNone /\ K!NoJob.op = "none"
      /\ K!Seed.doc = Builtin /\ K!Seed.op = "upsert" /\ K!Seed.n = MaxChunks
  BY KnowledgeConstants DEF K!Seed, K!NoJob, Jobs, JobOrNone, K!Scopes
<1>3. MaxChunks \in Nat /\ MaxChunks > 1 /\ Builtin \in Docs  BY KnowledgeConstants
<1>4. K!NoRow \in StoredRow /\ \A r \in K!Rows : Fits(r, K!NoRow)  BY RowTypes
<1>5. \A n \in Numbers : /\ Wanted(K!Seed, n) = K!SeededRow(<<Builtin, n>>)
                         /\ K!SeededRow(<<Builtin, n>>).kind = IF n = 0 THEN "parent" ELSE "chunk"
  <2> TAKE n \in Numbers
  <2>1. n \in 0 .. MaxChunks  BY DEF Numbers
  <2>2. CASE n = 0
    <3>1. Wanted(K!Seed, n) = K!Row("parent", K!Seed, MaxChunks)
      BY <1>2, <1>3, <2>2 DEF Wanted
    <3>2. K!SeededRow(<<Builtin, n>>) = K!Row("parent", K!Seed, MaxChunks)
      BY <2>2 DEF K!SeededRow
    <3>3. K!Row("parent", K!Seed, MaxChunks).kind = "parent"  BY DEF K!Row
    <3> QED  BY <2>2, <3>1, <3>2, <3>3
  <2>3. CASE n # 0
    <3>1. Wanted(K!Seed, n) = K!Row("chunk", K!Seed, MaxChunks)
      BY <1>2, <1>3, <2>1, <2>3 DEF Wanted
    <3>2. n > 0  BY <1>3, <2>1, <2>3
    <3>3. K!SeededRow(<<Builtin, n>>) = K!Row("chunk", K!Seed, MaxChunks)
      BY <3>2 DEF K!SeededRow
    <3>4. K!Row("chunk", K!Seed, MaxChunks).kind = "chunk"  BY DEF K!Row
    <3> QED  BY <2>3, <3>1, <3>3, <3>4
  <2> QED  BY <2>2, <2>3
<1>6. \A r \in K!Rows : K!SeededRow(r) \in StoredRow /\ Fits(r, K!SeededRow(r))
  <2> TAKE r \in K!Rows
  <2>1. r[1] \in Docs /\ r[2] \in Numbers /\ r = <<r[1], r[2]>>  BY DEF K!Rows, Numbers
  <2>2. CASE r[1] = Builtin
    <3>1. /\ Wanted(K!Seed, r[2]) \in StoredRow /\ Fits(<<Builtin, r[2]>>, Wanted(K!Seed, r[2]))
      BY <1>2, <2>1, RowTypes
    <3>2. r = <<Builtin, r[2]>>  BY <2>1, <2>2
    <3>3. Wanted(K!Seed, r[2]) = K!SeededRow(r)  BY <1>5, <2>1, <3>2
    <3> QED  BY <3>1, <3>2, <3>3
  <2>3. CASE r[1] # Builtin
    <3>1. K!SeededRow(r) = K!NoRow  BY <2>3 DEF K!SeededRow
    <3> QED  BY <1>4, <3>1
  <2> QED  BY <2>2, <2>3
<1>7. StoreSound(v1) /\ StoreSound(v2)  BY <1>1, <1>4, <1>6 DEF StoreSound
<1>8. \A t \in Threads : WriterSound(v3[t]) /\ v3[t].job.op = "none"
  <2>1. <<>> \in Seq(Jobs)  OBVIOUS
  <2> QED  BY <1>1, <2>1, RestingTypes
<1>9. v7 \in [Docs -> JobOrNone]  BY <1>1, <1>2 DEF Jobs
<1>10. StoresSound /\ AloneSound  BY <1>1, <1>7, <1>8, <1>9 DEF StoresSound, AloneSound
<1>11. LastSound
  <2> SUFFICES ASSUME NEW d \in Docs, v7[d].op # "none"
               PROVE /\ v7[d].doc = d /\ \A n \in Numbers : InPlace(v1, v2, v7[d], n)
    BY <1>8 DEF LastSound
  <2>1. d = Builtin /\ v7[d] = K!Seed  BY <1>1, <1>2
  <2>2. ASSUME NEW n \in Numbers PROVE InPlace(v1, v2, K!Seed, n)
    <3>1. <<Builtin, n>> \in K!Rows  BY <1>3 DEF K!Rows, Numbers
    <3>2. v1[<<Builtin, n>>] = Wanted(K!Seed, n)  BY <1>1, <1>5, <3>1
    <3>3. Wanted(K!Seed, n).kind \in {"single", "chunk"} => v2[<<Builtin, n>>] = Wanted(K!Seed, n)
      BY <1>1, <1>5, <3>1
    <3> QED  BY <1>2, <3>2, <3>3 DEF InPlace
  <2> QED  BY <1>2, <2>1, <2>2
<1>12. QuerySound  BY <1>1, NoQuerySound
<1> QED  BY <1>10, <1>11, <1>12 DEF KnowledgeState

\* The requests, their steps and the search, one by one.
LEMMA KnowledgeSteps == KnowledgeInv /\ [Next]_vars => KnowledgeInv'
<1> SUFFICES ASSUME KnowledgeInv, [Next]_vars, part' = "knowledge" PROVE KnowledgeState'
  BY DEF KnowledgeInv
<1>1. CASE UNCHANGED vars
  <2>1. /\ part = "knowledge"
        /\ v1' = v1 /\ v2' = v2 /\ v3' = v3 /\ v4' = v4 /\ v5' = v5 /\ v7' = v7
    BY <1>1 DEF vars
  <2>2. StoresSound /\ AloneSound /\ LastSound /\ QuerySound
    BY <2>1 DEF KnowledgeInv, KnowledgeState
  <2> QED  BY <2>1, <2>2, SearchKeeps, SearchStays DEF KnowledgeState
<1>2. CASE Next
  <2>1. part = "knowledge" /\ K!KnowledgeNext  BY <1>2 DEF Next
  <2>2. KnowledgeState  BY <2>1 DEF KnowledgeInv
  <2>3. StoresSound /\ AloneSound /\ LastSound /\ QuerySound  BY <2>2 DEF KnowledgeState
  <2>4. ASSUME NEW t \in Threads,
               \/ K!UpsertDocument(t) \/ K!DeleteDocument(t)
               \/ K!DeleteBySession(t) \/ K!ReindexCollection(t)
        PROVE  KnowledgeState'
    BY <2>2, <2>4, RequestsKeep
  <2>5. ASSUME NEW t \in Threads,
               K!DeleteRow(t) \/ K!UpsertRow(t) \/ K!IndexRow(t) \/ K!UnindexRow(t)
        PROVE  KnowledgeState'
    BY <2>2, <2>5, HeadKeeps
  <2>6. ASSUME NEW t \in Threads, K!BeginJob(t) PROVE KnowledgeState'
    BY <2>2, <2>6, JobBeginKeeps
  <2>7. ASSUME NEW t \in Threads, K!EndJob(t) PROVE KnowledgeState'
    BY <2>2, <2>7, JobEndKeeps
  <2>8. CASE (\E t \in Threads : K!FailWrite(t)) \/ K!Restart  BY <2>2, <2>8, StopsKeep
  <2>9. ASSUME K!HybridSearch \/ K!SkipHit \/ K!ReadNeighbour \/ K!ReturnHits PROVE KnowledgeState'
    <3>1. UNCHANGED <<v1, v2, v3, v5, v7>>
      BY <2>9 DEF K!HybridSearch, K!SkipHit, K!ReadNeighbour, K!ReturnHits
    <3>2. StoresSound' /\ AloneSound' /\ LastSound'  BY <2>3, <3>1, SearchKeeps
    <3>3. QuerySound'
      BY <2>2, <2>3, <2>9, SearchFinds, SkipKeeps, NeighbourKeeps, AnswerKeeps
    <3> QED  BY <3>2, <3>3 DEF KnowledgeState
  <2> QED  BY <2>1, <2>4, <2>5, <2>6, <2>7, <2>8, <2>9 DEF K!KnowledgeNext
<1> QED  BY <1>1, <1>2

\* What ended well, no other write of the document beside it, left the two stores
\* as it should (upsert_document, delete_document), and a search answers with rows
\* that its session may see, no row twice (hybrid_search): of every number of
\* documents, chunks, threads and writes, with a failure or a crash at any point.
THEOREM KnowledgeCorrect == Spec => []KnowledgeSound
<1>1. KnowledgeState => K!WriteHeals
  <2> SUFFICES ASSUME LastSound, v7 \in [Docs -> JobOrNone], NEW d \in Docs
               PROVE  /\ v7[d].op = "delete" => \A n \in 0 .. MaxChunks : v1[<<d, n>>].kind = "none"
                      /\ v7[d].op = "upsert" =>
                          \A n \in 0 .. MaxChunks :
                            /\ v1[<<d, n>>].kind = (IF n = 0 THEN (IF v7[d].n = 1 THEN "single" ELSE "parent")
                                       ELSE IF v7[d].n > 1 /\ n <= v7[d].n THEN "chunk" ELSE "none")
                            /\ v1[<<d, n>>].kind \in {"single", "chunk"} =>
                                  v1[<<d, n>>].ver = v7[d].ver /\ v2[<<d, n>>] = v1[<<d, n>>]
    BY DEF KnowledgeState, StoresSound, K!WriteHeals
  <2> DEFINE job == v7[d]
  <2>1. \A n \in 0 .. MaxChunks : job.op # "none" =>
          /\ v1[<<d, n>>] = Wanted(job, n)
          /\ Wanted(job, n).kind \in {"single", "chunk"} => v2[<<d, n>>] = Wanted(job, n)
    BY DEF LastSound, InPlace, Numbers
  <2> HIDE DEF job
  <2>2. job.op = "delete" => \A n \in 0 .. MaxChunks : Wanted(job, n).kind = "none"
    BY DEF Wanted, K!NoRow
  <2>3. ASSUME job.op = "upsert", NEW n \in 0 .. MaxChunks
        PROVE  /\ Wanted(job, n).kind = (IF n = 0 THEN (IF job.n = 1 THEN "single" ELSE "parent")
                                         ELSE IF job.n > 1 /\ n <= job.n THEN "chunk" ELSE "none")
               /\ Wanted(job, n).kind \in {"single", "chunk"} => Wanted(job, n).ver = job.ver
    BY <2>3 DEF Wanted, K!NoRow, K!Row
  <2> QED  BY <2>1, <2>2, <2>3 DEF job
<1>2. KnowledgeState => K!HitsInScope
  BY DEF KnowledgeState, QuerySound, RowsOnce, InScope, K!HitsInScope, K!Group, K!SessionMatches
<1>3. KnowledgeInv => KnowledgeSound  BY <1>1, <1>2 DEF KnowledgeInv, KnowledgeSound
<1> QED  BY <1>3, KnowledgeStart, KnowledgeSteps, PTL DEF Spec
=============================================================================
