---------------------------- MODULE SessionFiles ----------------------------
(***************************************************************************)
(* Tools that work on the files of one session: the tools of a turn run in *)
(* the stages of a dependency graph (app/services/tool_dag.py,             *)
(* tool_side_effect.py, the tool node), and read, edit, move, copy and     *)
(* remove files through a read cache and a preview token for removals      *)
(* (artifact_tools.py, artifact_read_cache.py, artifact_read_guard.py,     *)
(* session_fs_tools.py, tool_invoke_helpers.py).                           *)
(*                                                                         *)
(* A text is a short sequence of words and the time of its last change is  *)
(* a number that grows with every write; a move or a copy keeps it.  A     *)
(* second run of the same session may write in between: ForeignWrite.      *)
(***************************************************************************)
EXTENDS Integers, Sequences, SequencesExt, FiniteSets, FiniteSetsExt

CONSTANTS
    Paths,          \* file names
    ToolNodes,      \* nodes of the dependency graph
    Plans,          \* the graphs in use: [kind, deps, staged] over ToolNodes; planned
                    \* actions are a chain, not staged
    MaxReads,       \* ARTIFACT_MAX_READS_SAME_FILE
    MaxWorkers,     \* TOOL_EXEC_MAX_WORKERS
    MaxText,        \* ARTIFACT_MAX_FILE_BYTES, in words
    MaxRounds,      \* bound: rounds of tools
    MaxForeign,     \* bound: writes of the other run
    MaxTokens       \* bound: previews of removals

FileWords == {1, 2}
Kinds == {"read", "write", "append", "edit", "move", "copy", "touch", "rm"}

SessionFilesAssumption ==
    /\ \A p \in Plans : /\ p.kind \in [ToolNodes -> Kinds]
                        /\ p.deps \in [ToolNodes -> SUBSET ToolNodes]
                        /\ p.staged \in BOOLEAN
    /\ {MaxReads, MaxWorkers} \subseteq Nat \ {0}
    /\ {MaxText, MaxRounds, MaxForeign, MaxTokens} \subseteq Nat
    /\ MaxText > 1    \* the texts that are written at once have up to two words

VARIABLES
    files,      \* [text, stamp] of every path; stamp 0: there is no such file
    clock,      \* the stamp of the last change
    cache,      \* entries of the read cache: [path, fp, text]
    tokens,     \* _RM_PREVIEW_TOKENS: the token of every path, 0 if none
    issued,     \* tokens handed out so far
    plan,       \* the graph of this round
    sched,      \* [remaining, layer, batch]: what is left, staged and running
    node,       \* the tools: where each is and what it has read
    rows,       \* tool_results of the earlier rounds: successful reads
    rounds, foreign,
    spent,      \* history: how often each token removed a file
    raced       \* history: paths the other run wrote in the middle of a tool

filesVars == <<files, clock, cache, tokens, issued, plan, sched, node, rows, rounds, foreign,
               spent, raced>>

Absent == [text |-> <<>>, stamp |-> 0]
FileExists(p) == files[p].stamp > 0

-----------------------------------------------------------------------------
(* Stages                                                                  *)

ReadOnly(k) == k = "read"

\* Mutant of Ready: the graph is not looked at.
ReadyAll(left) == {left}

\* _stages_from_dag: the nodes none of whose dependencies is left; when a
\* cycle leaves none, any one of them.
Ready(left) ==
    LET free == {n \in left : plan.deps[n] \cap left = {}} IN
    IF free # {} THEN {free} ELSE {{n} : n \in left}

\* partition_stage_by_side_effect: the readers of a layer together, then its
\* writers one by one.
Stages(layer) ==
    LET readers == {n \in layer : ReadOnly(plan.kind[n])} IN
    IF readers # {} THEN {readers} ELSE {{n} : n \in layer}

IdleNode == [at |-> "wait", path |-> "", text |-> <<>>, token |-> 0, ok |-> FALSE]
Running == {n \in ToolNodes : node[n].at \notin {"wait", "done"}}

FilesInit ==
    /\ files \in [Paths -> {Absent, [text |-> <<1>>, stamp |-> 1]}]
    /\ clock = 1
    /\ cache = {}
    /\ tokens = [p \in Paths |-> 0] /\ issued = 0
    /\ plan \in Plans
    /\ sched = [remaining |-> ToolNodes, layer |-> {}, batch |-> {}]
    /\ node = [n \in ToolNodes |-> IdleNode]
    /\ rows = <<>>
    /\ rounds = 0 /\ foreign = 0
    /\ spent = [t \in 1 .. MaxTokens |-> 0] /\ raced = {}

fileState == <<files, clock, cache, tokens, issued, spent, raced>>

NextLayer ==
    /\ sched.layer = {} /\ sched.batch = {} /\ sched.remaining # {}
    /\ \E layer \in Ready(sched.remaining) :
          sched' = [sched EXCEPT !.remaining = @ \ layer, !.layer = layer]
    /\ UNCHANGED <<fileState, plan, node, rows, rounds, foreign>>

NextStage ==
    /\ sched.batch = {} /\ sched.layer # {}
    /\ \E batch \in Stages(sched.layer) :
          sched' = [sched EXCEPT !.layer = @ \ batch, !.batch = batch]
    /\ UNCHANGED <<fileState, plan, node, rows, rounds, foreign>>

\* execute_tool_stages goes on when every tool of the stage has an outcome.
EndStage ==
    /\ sched.batch # {} /\ \A n \in sched.batch : node[n].at = "done"
    /\ sched' = [sched EXCEPT !.batch = {}]
    /\ UNCHANGED <<fileState, plan, node, rows, rounds, foreign>>

\* execute_actions appends the results of a round to the earlier ones;
\* merge_observations_to_tool_results keeps one row of every tool, so that a
\* staged read replaces all earlier ones.
CommittedRows(reads) ==
    IF plan.staged /\ reads # {} THEN {<<r>> : r \in reads} ELSE {rows \o SetToSeq(reads)}

\* The round's results become part of the state that the next round reads.
NextRound ==
    /\ sched = [remaining |-> {}, layer |-> {}, batch |-> {}]
    /\ rounds < MaxRounds
    /\ rounds' = rounds + 1
    /\ rows' \in CommittedRows({[path |-> node[n].path, text |-> node[n].text] :
                    n \in {m \in ToolNodes : plan.kind[m] = "read" /\ node[m].ok}})
    /\ plan' \in Plans
    /\ sched' = [sched EXCEPT !.remaining = ToolNodes]
    /\ node' = [n \in ToolNodes |-> IdleNode]
    /\ UNCHANGED <<fileState, foreign>>

-----------------------------------------------------------------------------
(* Tools                                                                   *)

MayStart(n, kind) ==
    /\ n \in sched.batch /\ node[n].at = "wait" /\ plan.kind[n] = kind
    /\ Cardinality(Running) < MaxWorkers

Go(n, at, p, text) == node' = [node EXCEPT ![n] = [@ EXCEPT !.at = at, !.path = p, !.text = text]]
Finish(n, p, text) ==
    node' = [node EXCEPT ![n] = [@ EXCEPT !.at = "done", !.path = p, !.text = text, !.ok = TRUE]]

Done(n, ok) == node' = [node EXCEPT ![n] = [IdleNode EXCEPT !.at = "done", !.ok = ok]]

stageState == <<plan, sched, rows, rounds, foreign>>

Change(p, text) ==
    /\ files' = [files EXCEPT ![p] = [text |-> text, stamp |-> clock + 1]]
    /\ clock' = clock + 1

\* Mutant of Fingerprint: the size alone.
FingerprintSize(p) == Len(files[p].text)

\* _cache_key: size and time of the last change.
Fingerprint(p) == <<Len(files[p].text), files[p].stamp>>

\* count_artifact_reads and find_last_artifact_read.
ReadsOf(p) == SelectSeq(rows, LAMBDA r : r.path = p)

\* read_text_artifact: a file read too often answers with the last read, then
\* comes the cache, then the file.
ReadLookup(n, p) ==
    LET hits == {e \in cache : e.path = p /\ e.fp = Fingerprint(p)} IN
    /\ MayStart(n, "read")
    /\ IF Len(ReadsOf(p)) >= MaxReads THEN Finish(n, p, Last(ReadsOf(p)).text)
       ELSE IF ~ FileExists(p) THEN Done(n, FALSE)
       ELSE IF hits # {} THEN \E e \in hits : Finish(n, p, e.text)
       ELSE Go(n, "text", p, <<>>)
    /\ UNCHANGED <<fileState, stageState>>

ReadText(n) ==
    LET p == node[n].path IN
    /\ node[n].at = "text"
    /\ IF FileExists(p) THEN Go(n, "store", p, files[p].text) ELSE Done(n, FALSE)
    /\ UNCHANGED <<fileState, stageState>>

\* store_cached_read computes the key again, after the text was read.
ReadStore(n) ==
    LET p == node[n].path IN
    /\ node[n].at = "store"
    /\ cache' = {e \in cache : e.path # p \/ e.fp # Fingerprint(p)}
                \cup {[path |-> p, fp |-> Fingerprint(p), text |-> node[n].text]}
    /\ Finish(n, p, node[n].text)
    /\ UNCHANGED <<files, clock, tokens, issued, spent, raced, stageState>>

\* _check_size.
FileFits(text) == Len(text) <= MaxText

\* write_file and append_file; artifacts have a size limit.
Write(n, p, text) ==
    /\ MayStart(n, "write")
    /\ Change(p, text)
    /\ Done(n, TRUE)
    /\ UNCHANGED <<cache, tokens, issued, spent, raced, stageState>>

Append1(n, p, w) ==
    LET text == Append(files[p].text, w)
        fits == FileFits(text)
    IN
    /\ MayStart(n, "append")
    /\ IF fits THEN Change(p, text) ELSE UNCHANGED <<files, clock>>
    /\ Done(n, fits)
    /\ UNCHANGED <<cache, tokens, issued, spent, raced, stageState>>

\* _find_fuzzy_span: any place may be similar enough.
SimilarAt(text) == DOMAIN text

\* _apply_precision_edit of one word: all its occurrences, a chosen one, or
\* the only one; without an occurrence a similar word may stand for it, and
\* with several the edit is refused.
Edited(text, old, new, mode) ==
    LET at == {i \in DOMAIN text : text[i] = old}
        places == IF at # {} THEN at ELSE SimilarAt(text)
    IN  CASE mode = "all" /\ at # {} -> {[i \in DOMAIN text |-> IF i \in at THEN new ELSE text[i]]}
          [] mode = "only" /\ Cardinality(at) > 1 -> {}
          [] OTHER -> {[text EXCEPT ![i] = new] : i \in places}

\* _apply_batch_edits: the second edit works on what the first one left, and
\* one that fails leaves the file as it was.
BatchEdited(text, mode) ==
    UNION {Edited(t, 2, 1, mode) : t \in Edited(text, 1, 2, mode)}

\* edit_text_artifact and replace_in_file read the file first ...
EditRead(n, p) ==
    /\ MayStart(n, "edit")
    /\ IF FileExists(p) THEN Go(n, "edit", p, files[p].text) ELSE Done(n, FALSE)
    /\ UNCHANGED <<fileState, stageState>>

\* ... and write the whole text back, unless it was a dry run.
EditWrite(n, mode) ==
    LET p == node[n].path
        results == {text \in Edited(node[n].text, 1, 2, mode) \cup BatchEdited(node[n].text, mode) :
                        FileFits(text)}
    IN
    /\ node[n].at = "edit"
    /\ \/ /\ results = {} \/ mode = "all"     \* refused, or a dry run
          /\ UNCHANGED <<files, clock>>
          /\ Done(n, FALSE)
       \/ \E text \in results : Change(p, text) /\ Done(n, TRUE)
    /\ UNCHANGED <<cache, tokens, issued, spent, raced, stageState>>

\* move_path keeps the time of the last change, and so does copy_path.
MoveOrCopy(n, p, q) ==
    /\ MayStart(n, "move") \/ MayStart(n, "copy")
    /\ IF FileExists(p) /\ p # q
       THEN /\ files' = IF plan.kind[n] = "move"
                        THEN [files EXCEPT ![q] = files[p], ![p] = Absent]
                        ELSE [files EXCEPT ![q] = files[p]]
            /\ Done(n, TRUE)
       ELSE UNCHANGED files /\ Done(n, FALSE)
    /\ UNCHANGED <<clock, cache, tokens, issued, spent, raced, stageState>>

Touch(n, p) ==
    /\ MayStart(n, "touch")
    /\ Change(p, files[p].text)
    /\ Done(n, TRUE)
    /\ UNCHANGED <<cache, tokens, issued, spent, raced, stageState>>

\* rm_path with dry_run, which the guard runs itself when no token was given.
RmPreview(n, p) ==
    /\ MayStart(n, "rm")
    /\ issued < MaxTokens
    /\ IF FileExists(p)
       THEN /\ issued' = issued + 1
            /\ tokens' = [tokens EXCEPT ![p] = issued + 1]
            /\ \/ Done(n, TRUE)                       \* a preview was asked for
               \/ node' = [node EXCEPT ![n] = [@ EXCEPT !.at = "rm", !.path = p,
                                                        !.token = issued + 1]]
       ELSE UNCHANGED <<issued, tokens>> /\ Done(n, FALSE)
    /\ UNCHANGED <<files, clock, cache, spent, raced, stageState>>

\* _require_rm_preview_token consumes the token.
TokensAfter(p) == [tokens EXCEPT ![p] = 0]

\* rm_path with a token, fresh or from any earlier preview.
RmCommit(n, p, t) ==
    /\ \/ node[n].at = "rm" /\ p = node[n].path /\ t = node[n].token
       \/ MayStart(n, "rm")
    /\ IF FileExists(p) /\ tokens[p] = t
       THEN /\ files' = [files EXCEPT ![p] = Absent]
            /\ tokens' = TokensAfter(p)
            /\ spent' = [spent EXCEPT ![t] = @ + 1]
            /\ Done(n, TRUE)
       ELSE UNCHANGED <<files, tokens, spent>> /\ Done(n, FALSE)
    /\ UNCHANGED <<clock, cache, issued, raced, stageState>>

\* _cleanup_rm_preview_tokens after _RM_PREVIEW_TTL_SECONDS.
ExpireToken(p) ==
    /\ tokens[p] # 0
    /\ tokens' = [tokens EXCEPT ![p] = 0]
    /\ UNCHANGED <<files, clock, cache, issued, spent, raced, stageState, node>>

\* Another run of the session writes a file.
ForeignWrite(p, text) ==
    /\ foreign < MaxForeign
    /\ foreign' = foreign + 1
    /\ Change(p, text)
    /\ raced' = IF \E n \in Running : node[n].path = p THEN raced \cup {p} ELSE raced
    /\ UNCHANGED <<cache, tokens, issued, spent, plan, sched, node, rows, rounds>>

ToolStep(n) ==
    \/ \E p \in Paths : ReadLookup(n, p) \/ EditRead(n, p) \/ Touch(n, p) \/ RmPreview(n, p)
    \/ \E p \in Paths, w \in FileWords : Write(n, p, <<w>>) \/ Append1(n, p, w)
    \/ \E p, q \in Paths : MoveOrCopy(n, p, q)
    \/ \E p \in Paths, t \in 1 .. issued : RmCommit(n, p, t)
    \/ ReadText(n)
    \/ ReadStore(n)
    \/ \E mode \in {"only", "all", "index"} : EditWrite(n, mode)

FilesNext ==
    \/ NextLayer \/ NextStage \/ EndStage \/ NextRound
    \/ \E n \in ToolNodes : ToolStep(n)
    \/ \E p \in Paths : ExpireToken(p)
    \/ \E p \in Paths : ForeignWrite(p, <<2, 1>>)

FilesSpec == FilesInit /\ [][FilesNext]_filesVars

-----------------------------------------------------------------------------
(* Properties                                                              *)

FilesTypeOK ==
    /\ \A p \in Paths : Len(files[p].text) <= MaxText /\ files[p].stamp <= clock
    /\ sched.layer \cup sched.batch \cup sched.remaining \subseteq ToolNodes
    /\ \A n \in ToolNodes : node[n].at \in {"wait", "text", "store", "edit", "rm", "done"}
    /\ issued \in 0 .. MaxTokens

\* What the cache would hand out for a file is what the file holds, after any
\* sequence of writes, edits, moves and copies back, unless another run wrote
\* the file in the middle of a tool: then the text that was read before may
\* be stored under the fingerprint of the text that came after.
CacheFresh ==
    \A p \in Paths \ raced : FileExists(p) =>
        \A e \in cache : e.path = p /\ e.fp = Fingerprint(p) => e.text = files[p].text

\* Within a run no edit is lost: when an edit writes the file back, the file
\* still holds what the edit read.
LosesNoEdit ==
    \A n \in ToolNodes :
        node[n].at = "edit" /\ node'[n].at = "done" /\ node[n].path \notin raced
            => files[node[n].path].text = node[n].text

AcyclicPlan ==
    LET closed(s) == \A n \in s : plan.deps[n] \cap s # {}
    IN  ~ \E s \in SUBSET ToolNodes : s # {} /\ closed(s)

\* A tool starts only when the tools it depends on have an outcome, unless
\* the planner's graph has a cycle.
StartsAfterDependencies ==
    \A n \in ToolNodes :
        AcyclicPlan /\ node[n].at = "wait" /\ node'[n].at # "wait"
            => \A d \in plan.deps[n] : node[d].at = "done"

\* One preview permits one removal: a token that removed a file, sent again
\* after the file is back, removes nothing.
RemovedOnce == \A t \in DOMAIN spent : spent[t] <= 1
=============================================================================
