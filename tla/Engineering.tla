----------------------------- MODULE Engineering -----------------------------
(***************************************************************************)
(* Deliveries of source code.  A task in engineering mode plans files with *)
(* the model, writes them, verifies them in one of a few slots that all    *)
(* tasks share, and repairs them while its step budget lasts               *)
(* (engineering_execution.py, engineering_repair.py, project_verify/).  A  *)
(* code answer is compiled and repaired without files                      *)
(* (code_artifact_pipeline.py, code_verify/).                              *)
(*                                                                         *)
(* A tree holds files of four kinds, each empty, bad or good; version      *)
(* counts the changes, so a verdict can be compared with what it judged.   *)
(***************************************************************************)
EXTENDS Naturals, FiniteSets

CONSTANTS
    Makers,         \* tasks that deliver files or code
    MaxSteps,       \* execution.max_steps of engineering_mode, at least 3
    MaxRepairs,     \* execution.max_repair_attempts
    MaxAttempts,    \* code_artifact.verify.max_attempts
    VerifySlots,    \* project_verify.max_concurrent_verifies
    Intents         \* the intent kinds in use

EngineeringAssumption ==
    /\ MaxSteps \in Nat /\ MaxSteps >= 3
    /\ MaxRepairs \in Nat
    /\ {MaxAttempts, VerifySlots} \subseteq Nat \ {0}
    /\ Intents \subseteq {"interactive_app", "small_project", "code", "general"}

FileKinds == {"html", "make", "cpp", "py"}
\* A file is "none", "empty", "bad" or "good".
NoFiles == [k \in FileKinds |-> "none"]

VARIABLES
    maker,      \* the run of each task
    slots,      \* free slots of _verify_semaphore
    tools,      \* verifications that verify_backend tools of other tasks run
    asked       \* pause or cancel requests not seen yet

engineeringVars == <<maker, slots, tools, asked>>

NotVerified(why) == [ok |-> FALSE, status |-> "skipped", issue |-> why, version |-> 0]

Unstarted ==
    [at |-> "idle", used |-> 0, attempts |-> 0, intent |-> "general", backend |-> "",
     tree |-> NoFiles, version |-> 0, plan |-> NoFiles, written |-> FALSE,
     verdict |-> NotVerified("not_started"), minimal |-> FALSE, code |-> FALSE, out |-> "none"]

EngineeringInit ==
    /\ maker = [t \in Makers |-> Unstarted]
    /\ slots = VerifySlots /\ tools = 0
    /\ asked = [t \in Makers |-> "none"]

-----------------------------------------------------------------------------
(* The step budget                                                         *)

Exhausted(r) == r.used >= MaxSteps

\* The run with one more step charged, and where it goes next.
Charged(r, to) == [r EXCEPT !.used = @ + 1, !.at = to]

-----------------------------------------------------------------------------
(* Plans, backends and verdicts                                            *)

\* _default_layout: what is written when the model gives no usable plan.
Layout(intent) ==
    CASE intent = "interactive_app" -> [NoFiles EXCEPT !["html"] = "bad"]
      [] intent = "small_project" -> [NoFiles EXCEPT !["make"] = "good", !["cpp"] = "empty"]
      [] OTHER -> [NoFiles EXCEPT !["cpp"] = "empty"]

\* What the model may plan: files of one kind, or of both languages.
Plans1(intent) ==
    {Layout(intent)}
    \cup {[NoFiles EXCEPT !["html"] = "good"], [NoFiles EXCEPT !["cpp"] = "bad", !["py"] = "good"]}

Present(tree) == {k \in FileKinds : tree[k] # "none"}

\* _refine_intent_kind.
Refined(intent, plan) ==
    IF intent # "general" THEN intent
    ELSE IF "html" \in Present(plan) THEN "interactive_app"
    ELSE IF "make" \in Present(plan) THEN "small_project"
    ELSE IF Present(plan) # {} THEN "code" ELSE intent

\* resolve_project_backend_id: by intent, else by the language of the first
\* source file of the plan.
Backends(intent, plan) ==
    CASE intent = "interactive_app" -> {"html"}
      [] intent = "small_project" -> {"make"}
      [] Present(plan) \cap {"cpp", "py"} # {} -> Present(plan) \cap {"cpp", "py"}
      [] OTHER -> {""}

\* _verify_project_locked takes the first source of the whole tree, C++
\* before Python, whatever the backend is.
Source(tree) == IF tree["cpp"] # "none" THEN "cpp" ELSE "py"

Compiles(tree, backend) ==
    IF backend \in {"cpp", "py"}
    THEN LET s == Source(tree) IN tree[s] = "empty" \/ (s = backend /\ tree[s] = "good")
    ELSE tree[backend] = "good"

NonRetryable(v) == v.issue \in {"no_backend_for_intent", "no_files_written"}

\* _apply_deterministic_code_fixes may mend what streaming has damaged.
FixedCode(q) == IF q = "bad" THEN {"bad", "good"} ELSE {q}

\* Some of the planned files are written; the others failed.
Written1(r, kept) ==
    [r EXCEPT !.tree = [k \in FileKinds |-> IF k \in kept THEN r.plan[k] ELSE @[k]],
              !.version = IF kept = {} THEN @ ELSE @ + 1,
              !.written = (kept # {}) \/ @, !.plan = NoFiles]

-----------------------------------------------------------------------------
(* run_engineering_bounded                                                 *)

\* Every step stands between two checkpoints: it is taken only when no pause
\* or cancel has been asked for.
Step(t, at) == maker[t].at = at /\ asked[t] = "none"
Put(t, r) == maker' = [maker EXCEPT ![t] = r]

Begin(t) ==
    /\ Step(t, "idle")
    /\ \/ \E i \in Intents : Put(t, [maker[t] EXCEPT !.at = "plan", !.intent = i])
       \/ Put(t, [maker[t] EXCEPT !.at = "final", !.verdict = NotVerified("empty_goal")])
       \/ \E drafted \in {"bad", "good"} : \E q \in FixedCode(drafted) :
             Put(t, [maker[t] EXCEPT !.at = "compile", !.code = TRUE, !.version = 1,
                                     !.tree = [NoFiles EXCEPT !["cpp"] = q]])
    /\ UNCHANGED <<slots, tools, asked>>

StructurePlan(t) ==
    /\ Step(t, "plan")
    /\ \E p \in Plans1(maker[t].intent) :
          Put(t, [Charged(maker[t], "write") EXCEPT !.plan = p])
    /\ UNCHANGED <<slots, tools, asked>>

WriteFiles(t) ==
    /\ Step(t, "write")
    /\ LET r == Charged(maker[t], "read") IN
       \E kept \in SUBSET Present(r.plan) :
       \E b \in Backends(Refined(r.intent, r.plan), r.plan) :
          Put(t, [Written1(r, kept) EXCEPT !.intent = Refined(r.intent, r.plan), !.backend = b])
    /\ UNCHANGED <<slots, tools, asked>>

\* The read back is charged, and what it returns is not used.
ReadBack(t) ==
    /\ Step(t, "read")
    /\ LET r == [maker[t] EXCEPT !.verdict = NotVerified("verify_skipped_budget")]
           s == IF ~Exhausted(r) /\ r.written THEN Charged(r, "read") ELSE r
       IN Put(t, IF Exhausted(s) THEN [s EXCEPT !.at = "decide"] ELSE Charged(s, "verify"))
    /\ UNCHANGED <<slots, tools, asked>>

\* verify_project takes a slot without waiting for one.
TakeSlot(t, limited) ==
    \/ /\ slots = 0
       /\ Put(t, limited) /\ UNCHANGED slots
    \/ /\ slots > 0
       /\ Put(t, [maker[t] EXCEPT !.at = "running"]) /\ slots' = slots - 1

\* _run_verify up to the slot.
StartVerify(t) ==
    /\ maker[t].at = "verify" /\ (asked[t] = "none" \/ maker[t].minimal)
    /\ LET r == maker[t]
           Unverified(why, st) ==
              [r EXCEPT !.at = "decide",
                        !.verdict = [NotVerified(why) EXCEPT !.status = st, !.version = r.version]]
       IN \/ /\ ~r.written
             /\ Put(t, Unverified("no_files_written", "skipped")) /\ UNCHANGED slots
          \/ /\ r.written /\ r.backend = ""
             /\ Put(t, Unverified("no_backend_for_intent", "failed")) /\ UNCHANGED slots
          \/ /\ r.written /\ r.backend # ""
             /\ TakeSlot(t, Unverified("verify_concurrency_limit", "degraded"))
    /\ UNCHANGED <<tools, asked>>

\* The slot is released in a finally block.
SlotsAfter(raised) == slots + 1

\* The backend's command ends, times out (an error of its own) or the
\* verification raises.
EndVerify(t) ==
    /\ maker[t].at = "running"
    /\ LET r == maker[t] IN
       \/ \E ok \in {Compiles(r.tree, r.backend), FALSE} :
             /\ Put(t, [r EXCEPT !.at = "decide",
                                 !.verdict = [ok |-> ok, status |-> IF ok THEN "ok" ELSE "failed",
                                              issue |-> IF ok THEN "" ELSE "exit_code",
                                              version |-> r.version]])
             /\ slots' = SlotsAfter(FALSE)
       \/ /\ Put(t, [r EXCEPT !.at = "decide",
                              !.verdict = [ok |-> FALSE, status |-> "degraded",
                                           issue |-> "verify_exception", version |-> r.version]])
          /\ slots' = SlotsAfter(TRUE)
    /\ UNCHANGED <<tools, asked>>

\* Mutant of MayRepair: the verdict is not looked at.
MayRepairAlways(r) == r.attempts < MaxRepairs /\ ~Exhausted(r)

\* The condition of the repair loop.
MayRepair(r) ==
    /\ ~r.verdict.ok
    /\ r.attempts < MaxRepairs
    /\ r.verdict.status \notin {"skipped", "degraded"}
    /\ ~NonRetryable(r.verdict)
    /\ ~Exhausted(r)

\* After a verification.  The one after a minimal repair goes on with the
\* same attempt when it failed.
Decide(t) ==
    /\ maker[t].at = "decide"
    /\ LET r == maker[t] IN
       \/ /\ r.minimal
          /\ r.verdict.ok \/ asked[t] = "none"
          /\ Put(t, [r EXCEPT !.minimal = FALSE,
                              !.at = IF r.verdict.ok \/ Exhausted(r) THEN "final" ELSE "llm"])
       \/ /\ ~r.minimal /\ asked[t] = "none"
          /\ Put(t, IF MayRepair(r)
                    THEN [r EXCEPT !.attempts = @ + 1,
                                   !.at = IF r.attempts = 0 THEN "minimal" ELSE "llm"]
                    ELSE [r EXCEPT !.at = "final"])
    /\ UNCHANGED <<slots, tools, asked>>

\* minimal_repair_files changes the written files, or nothing; it is charged
\* a step, the verification that follows it is not.  A file it cannot decode
\* or write back raises.
MinimalRepair(t) ==
    /\ Step(t, "minimal")
    /\ LET r == Charged(maker[t], "minimal") IN
       \/ \E q \in {"bad", "good"} :
             Put(t, [r EXCEPT !.at = "verify", !.minimal = TRUE, !.version = @ + 1,
                              !.tree = [k \in FileKinds |-> IF @[k] = "bad" THEN q ELSE @[k]]])
       \/ Put(t, [r EXCEPT !.at = IF Exhausted(r) THEN "final" ELSE "llm"])
       \/ Put(t, [r EXCEPT !.at = "done", !.out = "FAILED"])
    /\ UNCHANGED <<slots, tools, asked>>

\* A repair by the model writes its files, and verifies them, if the budget
\* still has a step for each.
LlmRepair(t) ==
    /\ Step(t, "llm")
    /\ LET r == Charged(maker[t], "rewrite") IN
       \E p \in Plans1(maker[t].intent) :
          Put(t, [r EXCEPT !.plan = p, !.at = IF Exhausted(r) THEN "final" ELSE "rewrite"])
    /\ UNCHANGED <<slots, tools, asked>>

RepairWrite(t) ==
    /\ Step(t, "rewrite")
    /\ LET r == Charged(maker[t], "rewrite") IN
       \E kept \in SUBSET Present(r.plan) :
       \E b \in Backends(Refined(r.intent, r.plan), r.plan) :
          LET w == [Written1(r, kept) EXCEPT !.intent = Refined(r.intent, r.plan), !.backend = b]
          IN Put(t, IF Exhausted(w) THEN [w EXCEPT !.at = "final"] ELSE Charged(w, "verify"))
    /\ UNCHANGED <<slots, tools, asked>>

\* The status that is delivered.
FinalStatus(r) ==
    IF ~r.verdict.ok /\ NonRetryable(r.verdict) THEN "degraded"
    ELSE IF Exhausted(r) /\ ~r.verdict.ok THEN "degraded"
    ELSE IF ~r.verdict.ok /\ r.verdict.status # "skipped" /\ r.attempts >= MaxRepairs THEN "failed"
    ELSE r.verdict.status

Finalize(t) ==
    /\ maker[t].at = "final"
    /\ LET r == maker[t] IN
       Put(t, [r EXCEPT !.at = "done", !.out = "REASONED", !.verdict.status = FinalStatus(r)])
    /\ UNCHANGED <<slots, tools, asked>>

\* A pause or a cancel is asked for, and seen at the next checkpoint.
AskFor(t) ==
    /\ asked[t] = "none" /\ maker[t].at # "done" /\ ~maker[t].code
    /\ \E what \in {"PAUSED", "CANCELLED"} : asked' = [asked EXCEPT ![t] = what]
    /\ UNCHANGED <<maker, slots, tools>>

Halt(t) ==
    /\ asked[t] # "none"
    /\ \/ maker[t].at \in {"idle", "plan", "write", "read", "minimal", "llm", "rewrite"}
       \/ maker[t].at = "verify" /\ ~maker[t].minimal
       \/ maker[t].at = "decide" /\ ~(maker[t].minimal /\ maker[t].verdict.ok)
    /\ Put(t, [maker[t] EXCEPT !.at = "done", !.out = asked[t]])
    /\ UNCHANGED <<slots, tools, asked>>

-----------------------------------------------------------------------------
(* Code answers: _run_compile_verify_loop                                  *)

\* verify_source, external: the compiler accepts good code.
Accepted(q) == q = "good"

\* repair_artifacts_via_llm: new code, good or not, or none at all.
RepairedCode == {"bad", "good", "none"}

\* _replace_code_artifacts: what is compiled next is what is delivered.
Replaced(r, q) == [r EXCEPT !.tree = [NoFiles EXCEPT !["cpp"] = q], !.version = @ + 1]

\* A low risk answer is delivered as degraded.
FailedStatus == {"failed", "degraded"}

CompileCode(t) ==
    /\ maker[t].at = "compile"
    /\ LET r == maker[t]
           Judged(ok, st) ==
              [r EXCEPT !.attempts = @ + 1,
                        !.verdict = [ok |-> ok, status |-> st, issue |-> "", version |-> r.version]]
           Answer(x) == [x EXCEPT !.at = "done", !.out = "REASONED"]
       IN \/ Accepted(r.tree["cpp"]) /\ Put(t, Answer(Judged(TRUE, "ok")))
          \/ /\ ~Accepted(r.tree["cpp"])
             /\ \E st \in FailedStatus, q \in RepairedCode :
                   LET tried == Judged(FALSE, st) IN
                   Put(t, IF q = "none" THEN Answer(tried)
                          ELSE IF tried.attempts < MaxAttempts THEN Replaced(tried, q)
                          ELSE Answer(Replaced(tried, q)))
    /\ UNCHANGED <<slots, tools, asked>>

-----------------------------------------------------------------------------
(* handle_verify_backend: the same slots, taken for a tool of another task *)

ToolVerify ==
    /\ slots > 0
    /\ slots' = slots - 1 /\ tools' = tools + 1
    /\ UNCHANGED <<maker, asked>>

ToolVerified ==
    /\ tools > 0
    /\ \E raised \in BOOLEAN : slots' = SlotsAfter(raised)
    /\ tools' = tools - 1
    /\ UNCHANGED <<maker, asked>>

MakerStep(t) ==
    \/ Begin(t) \/ StructurePlan(t) \/ WriteFiles(t) \/ ReadBack(t)
    \/ StartVerify(t) \/ EndVerify(t) \/ Decide(t) \/ MinimalRepair(t) \/ LlmRepair(t)
    \/ RepairWrite(t) \/ Finalize(t) \/ Halt(t) \/ CompileCode(t)

EngineeringNext == (\E t \in Makers : MakerStep(t) \/ AskFor(t)) \/ ToolVerify \/ ToolVerified

EngineeringSpec == EngineeringInit /\ [][EngineeringNext]_engineeringVars

-----------------------------------------------------------------------------
(* Properties                                                              *)

Delivered(t) == maker[t].at = "done" /\ maker[t].out = "REASONED"

\* A delivery that says its files passed, or failed for good, says so of the
\* files it leaves: nothing was written after the verification it reports, in
\* whatever step the budget or the attempts ran out.  A code answer that is
\* marked verified holds the code that was compiled.
VerdictIsForDelivery ==
    \A t \in Makers : Delivered(t) =>
        LET r == maker[t] IN
        /\ r.verdict.status \in {"ok", "failed"} /\ ~r.code => r.verdict.version = r.version
        /\ r.verdict.ok /\ ~r.code => r.backend # "" /\ Compiles(r.tree, r.backend)
        /\ r.verdict.ok /\ r.code => r.tree["cpp"] = "good"

\* No verification slot is lost: what is not free is held by a verification
\* that is running, whatever it raised and whoever was paused meanwhile.
SlotsAccounted ==
    slots + tools + Cardinality({t \in Makers : maker[t].at = "running"}) = VerifySlots
=============================================================================
