------------------------------- MODULE Writing -------------------------------
(***************************************************************************)
(* The writing pipeline of one task: a novel that is written chapter by    *)
(* chapter into one body file, the project file that counts its chapters,  *)
(* and the batch that goes on writing on its own until the chapter the     *)
(* user asked for is reached (app/services/writing_project.py,             *)
(* writing_batch.py, writing_playbook.py, artifact_content.py and the      *)
(* write paths of artifact_tools.py and action_executor.py).               *)
(*                                                                         *)
(* The text is a sequence of units: prose, a chapter heading, or the       *)
(* footer that ends chapter n.  What the model drafts is a free choice,    *)
(* and it may be too short, may lack the footer, or may be empty.          *)
(***************************************************************************)
EXTENDS Integers, Sequences, SequencesExt, FiniteSets, FiniteSetsExt

CONSTANTS
    Words,          \* words_per_chapter, in units
    MaxSegments,    \* MAX_CHAPTER_CONTINUATION_SEGMENTS
    MaxPerTurn,     \* _BATCH_MAX_CHAPTERS_PER_TURN
    MaxAutoTurns,   \* _BATCH_MAX_AUTO_TURNS
    MaxWrite,       \* ARTIFACT_MAX_WRITE_BYTES, in units
    MaxFile,        \* ARTIFACT_MAX_FILE_BYTES, in units
    ChunkSize,      \* ARTIFACT_CHUNK_CHARS, in units
    Targets,        \* the chapters a goal may ask for, 0 if it names none
    Operators,      \* the writing operators in use
    NMessages       \* bound: messages of the user

WritingAssumption ==
    /\ {Words, MaxPerTurn, MaxWrite, MaxFile, ChunkSize, NMessages} \subseteq Nat \ {0}
    /\ MaxSegments \in Nat /\ MaxAutoTurns \in Nat
    /\ Targets \subseteq Nat
    /\ Operators \subseteq {"append", "rewrite", "kickoff_body", "talk", "edit"}

Prose == 0
Heading == -1          \* a number n > 0 is the footer that ends chapter n

VARIABLES
    body,       \* the body file
    project,    \* project.json
    turn,       \* the turn under way and the payload's counters
    messages,   \* messages so far
    drafted     \* history: drafts written since the last message

writingVars == <<body, project, turn, messages, drafted>>

-----------------------------------------------------------------------------
(* What the text says about its chapters                                   *)

IsFooter(u) == u > 0

\* last_sealed_chapter_end: the last footer that ends the text or is
\* followed by a heading.
SealedEnd(text) ==
    Max({0} \cup {i \in DOMAIN text :
            IsFooter(text[i]) /\ (i = Len(text) \/ text[i + 1] = Heading)})

Sealed(text) == SubSeq(text, 1, SealedEnd(text))

\* in_progress_chapter_text.
InProgress(text) == SubSeq(text, SealedEnd(text) + 1, Len(text))

EndsWithFooter(text) == text # <<>> /\ IsFooter(Last(text))

\* slice_current_chapter_text.
CurrentChapter(text) == IF EndsWithFooter(InProgress(text)) THEN <<>> ELSE InProgress(text)

\* completion_threshold.
Threshold == (Words * 9) \div 10

\* merge_body_write_content.
Merge(text, new) == Sealed(text) \o InProgress(text) \o new

\* sanitize_body_append_content: footers of sealed chapters are dropped from
\* the front, and so is whatever repeats the end of the text.
DropFooters(text, new) ==
    LET kept == {i \in DOMAIN new : ~ (IsFooter(new[i]) /\ Contains(Sealed(text), new[i]))}
    IN  SubSeq(new, Min(kept \cup {Len(new) + 1}), Len(new))
Sanitized(text, new) == IF text = <<>> THEN {new} ELSE {DropFooters(text, new), <<>>}

-----------------------------------------------------------------------------
(* The project file                                                        *)

NewProject(target) == [next |-> 1, target |-> target, incomplete |-> FALSE]

\* ensure_writing_project with apply_goal_to_project.
Ensured(target) ==
    IF project = {} THEN NewProject(target)
    ELSE LET p == CHOOSE q \in project : TRUE IN
         [p EXCEPT !.target = Max({@, target})]

Project == CHOOSE p \in project : TRUE

\* kickoff_should_write_not_append.
KickoffWrites == ~ Project.incomplete /\ Project.next <= 1 /\ body = <<>>

\* body_draft_tool_name.
DraftTool == IF KickoffWrites THEN "write" ELSE "append"

BatchHasRemaining(p) == p.target > 0 /\ (p.incomplete \/ p.next <= p.target)

\* Mutant of PostUpdate: length alone completes a chapter.
PostUpdateByLength(p, text) ==
    IF Len(InProgress(text)) >= Threshold \/ EndsWithFooter(text)
    THEN [p EXCEPT !.incomplete = FALSE, !.next = @ + 1]
    ELSE [p EXCEPT !.incomplete = TRUE]

\* post_chapter_write_update: a chapter is complete when the text ends with a
\* footer and is long enough since the chapter before.
PostUpdate(p, text) ==
    LET before == SubSeq(text, 1, Len(text) - 1)
        block == SubSeq(text, SealedEnd(before) + 1, Len(text))
    IN  IF EndsWithFooter(text) /\ Len(block) >= Threshold
        THEN [p EXCEPT !.incomplete = FALSE, !.next = @ + 1]
        ELSE [p EXCEPT !.incomplete = TRUE]

-----------------------------------------------------------------------------
(* Drafting: generate_artifact_content                                     *)

\* One answer of the model for chapter n.
Drafts(n) == {<<>>, <<Prose>>, <<Prose, n>>, <<Heading, Prose, Prose, n>>}

\* The first draft and the continuations while the chapter is too short; an
\* empty continuation ends them.
Drafted(n, written, segments) ==
    LET Continued(r) ==
            IF r.last = <<>> \/ written + Len(r.text) >= Threshold THEN {r}
            ELSE {[text |-> r.text \o d, last |-> d] : d \in Drafts(n)}
        rounds[s \in 0 .. segments] ==
            IF s = 0 THEN {[text |-> d, last |-> d] : d \in Drafts(n)}
            ELSE UNION {Continued(r) : r \in rounds[s - 1]}
    IN  {r.text : r \in rounds[segments]}

ShortAfter(parts) == Len(CurrentChapter(body)) + Len(parts) < Threshold

\* What is handed to the file tool: the new parts, or the whole text.
Content(tool, parts) ==
    LET text == IF tool = "append" THEN parts ELSE Merge(body, parts) IN
    SubSeq(text, 1, Min({Len(text), MaxWrite}))

-----------------------------------------------------------------------------
(* Writing the file                                                        *)

\* handle_append_text_artifact checks the size chunk by chunk while the file
\* is open: what fits is written, also when the rest is refused.
Fits(new) ==
    LET fitting == {k \in 0 .. Len(new) : (k = Len(new) \/ k % ChunkSize = 0)
                                          /\ Len(body) + k <= MaxFile}
    IN  Max({0} \cup fitting)

\* The file and the project after the tool, and whether it reported success.
Written(tool, content, p) ==
    IF tool = "write"
    THEN {IF Len(content) <= MaxFile
          THEN [body |-> content, project |-> PostUpdate(p, content), ok |-> TRUE]
          ELSE [body |-> body, project |-> p, ok |-> FALSE]}
    ELSE {LET text == body \o SubSeq(new, 1, Fits(new)) IN
          IF new = <<>> THEN [body |-> body, project |-> p, ok |-> TRUE]
          ELSE IF Fits(new) = Len(new)
               THEN [body |-> text, project |-> PostUpdate(p, text), ok |-> TRUE]
               ELSE [body |-> text, project |-> p, ok |-> FALSE] :
          new \in Sanitized(body, content)}

-----------------------------------------------------------------------------
(* Turns                                                                   *)

\* at: where the turn is; op: its operator; batch: chapters scheduled in this
\* turn; auto: automatic turns; resumed: auto_batch_resume, which stays;
\* pending: pending_batch_continuation; wrote: a body write succeeded.
WritingInit ==
    /\ body = <<>>
    /\ project = {}
    /\ turn = [at |-> "idle", op |-> "talk", batch |-> 0, auto |-> 0, resumed |-> FALSE,
               pending |-> FALSE, wrote |-> FALSE]
    /\ messages = 0
    /\ drafted = 0

\* A message opens a turn: clear_writing_operator_carryover, and for writing
\* the project is made sure of.
UserMessage(op, target) ==
    /\ turn.at = "idle"
    /\ messages < NMessages
    /\ messages' = messages + 1
    /\ drafted' = 0
    /\ turn' = [turn EXCEPT !.at = IF op = "talk" THEN "output" ELSE "write", !.op = op,
                            !.batch = 0, !.wrote = FALSE,
                            !.auto = IF turn.resumed THEN @ ELSE 0]
    /\ project' = IF op = "talk" THEN project ELSE {Ensured(target)}
    /\ UNCHANGED body

\* The write of the turn.  A run_tool action picks its tool before drafting,
\* a write_artifact action after it, when the draft may have marked the
\* chapter incomplete; an edit without a target overwrites the file.
WriteBody ==
    /\ turn.at = "write"
    /\ \E parts \in Drafted(Project.next, Len(CurrentChapter(body)), MaxSegments) :
          LET marked == [Project EXCEPT !.incomplete = @ \/ ShortAfter(parts)]
              tool == CASE turn.op = "edit" -> "write"
                        [] turn.op \in {"append", "batch"} -> DraftTool
                        [] OTHER -> IF marked.incomplete THEN "append" ELSE DraftTool
              content == Content(DraftTool, parts)
          IN
          IF parts = <<>>
          THEN /\ turn' = [turn EXCEPT !.at = "output"]
               /\ project' = {marked}
               /\ UNCHANGED body
          ELSE \E r \in Written(tool, content, marked) :
               /\ body' = r.body
               /\ project' = {r.project}
               /\ turn' = [turn EXCEPT !.at = IF r.ok THEN "batch" ELSE "output",
                                       !.wrote = @ \/ r.ok]
    /\ drafted' = drafted + 1
    /\ UNCHANGED messages

\* maybe_schedule_batch_continuation after successful tools.
ScheduleNext ==
    /\ turn.at = "batch"
    /\ turn' = IF turn.wrote /\ BatchHasRemaining(Project) /\ turn.batch < MaxPerTurn
               THEN [turn EXCEPT !.at = "write", !.op = "batch", !.batch = @ + 1]
               ELSE [turn EXCEPT !.at = "output"]
    /\ UNCHANGED <<body, project, messages, drafted>>

\* stamp_pending_batch_if_incomplete, when the turn completed or paused; a
\* turn that wrote nothing keeps the stamp of an older one.
Stamped(status) ==
    IF status = "FAILED" \/ ~ turn.wrote THEN turn.pending
    ELSE BatchHasRemaining(Project)

\* prepare_auto_batch_turn: a completed turn with work left goes on.
MayGoOn(pending) ==
    /\ pending
    /\ project # {} /\ BatchHasRemaining(Project)
    /\ turn.auto < MaxAutoTurns

EndTurn(status) ==
    LET pending == Stamped(status) IN
    /\ turn.at = "output"
    /\ turn' = IF status = "COMPLETED" /\ MayGoOn(pending)
               THEN [turn EXCEPT !.at = "write", !.op = "batch", !.batch = 0, !.auto = @ + 1,
                                 !.resumed = TRUE, !.pending = FALSE, !.wrote = FALSE]
               ELSE [turn EXCEPT !.at = "idle", !.pending = pending]
    /\ UNCHANGED <<body, project, messages, drafted>>

WritingNext ==
    \/ \E op \in Operators, t \in Targets : UserMessage(op, t)
    \/ WriteBody
    \/ ScheduleNext
    \/ \E status \in {"COMPLETED", "PAUSED", "FAILED"} : EndTurn(status)

WritingSpec == WritingInit /\ [][WritingNext]_writingVars

-----------------------------------------------------------------------------
(* Properties                                                              *)

WritingTypeOK ==
    /\ body \in Seq(Int) /\ Len(body) <= MaxFile
    /\ Cardinality(project) <= 1
    /\ \A p \in project : p.next \in Nat \ {0} /\ p.target \in Nat /\ p.incomplete \in BOOLEAN
    /\ turn.batch \in 0 .. MaxPerTurn
    /\ turn.auto \in Nat

\* What one message makes the batch write is bounded, also when the model
\* never completes a chapter, so that the batch has work left for ever: the
\* first write and the scheduled ones of every turn, in one turn of the user
\* and the automatic ones.
BatchBounded == drafted <= (MaxPerTurn + 1) * (MaxAutoTurns + 1)

Footers(text) == Cardinality({i \in DOMAIN text : IsFooter(text[i])})

\* The project never counts a chapter that is not in the file: as many
\* footers are there as chapters were completed, whatever was too short, cut
\* at the size limit, deduplicated or refused halfway on the way.
CountedChaptersExist == \A p \in project : p.next - 1 <= Footers(body)

\* No turn that writes on, batch and automatic turns included, loses a sealed
\* chapter: the tool that is chosen before or after drafting and the text
\* that was drafted for it always fit each other.
KeepsSealed == IsPrefix(Sealed(body), body')
=============================================================================
