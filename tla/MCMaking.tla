----------------------------- MODULE MCMaking ------------------------------
(***************************************************************************)
(* What a turn makes, on small instances: Writing, SessionFiles,           *)
(* Engineering, Supervisor and ArtifactStream.  They share no state, so a  *)
(* behaviour belongs to one of them, the part, and the variables v1 to v13 *)
(* are that part's; those it does not have stay 0.                         *)
(***************************************************************************)
EXTENDS Naturals, TLC

CONSTANTS
    \* of Writing
    Words, MaxSegments, MaxPerTurn, MaxAutoTurns, MaxWrite, MaxFile, ChunkSize, Targets,
    Operators, NMessages,
    \* of SessionFiles
    Paths, ToolNodes, Plans, MaxReads, MaxWorkers, MaxText, MaxRounds, MaxForeign, MaxTokens,
    \* of Engineering
    Makers, MaxSteps, MaxRepairs, MaxAttempts, VerifySlots, Intents,
    \* of Supervisor
    Subtasks, MaxThreads, Retries, Ttl, MaxTicks,
    \* of ArtifactStream
    MaxRetries, MaxArgs, MaxShown, MaxChunk

VARIABLES part, v1, v2, v3, v4, v5, v6, v7, v8, v9, v10, v11, v12, v13

\* Three messages; a file that holds two chapters and is cut then.
W == INSTANCE Writing WITH
    body <- v1, project <- v2, turn <- v3, messages <- v4, drafted <- v5

\* Graphs of a reader and two editors without dependencies, with a join and
\* with a cycle, and chains of the other tools.
Nodes3 == 1 .. 3
Chain == [n \in Nodes3 |-> 1 .. (n - 1)]
Graphs == {[n \in Nodes3 |-> {}], <<{2, 3}, {}, {}>>, <<{2}, {1}, {}>>}
SomePlans ==
    {[kind |-> <<"read", "edit", "edit">>, deps |-> d, staged |-> TRUE] : d \in Graphs}
    \cup {[kind |-> k, deps |-> Chain, staged |-> FALSE] :
             k \in {<<"copy", "write", "move">>, <<"read", "rm", "write">>,
                    <<"append", "touch", "read">>}}

F == INSTANCE SessionFiles WITH
    files <- v1, clock <- v2, cache <- v3, tokens <- v4, issued <- v5, plan <- v6,
    sched <- v7, node <- v8, rows <- v9, rounds <- v10, foreign <- v11, spent <- v12,
    raced <- v13

PathSymmetry == Permutations(Paths)

\* One task with every intent, next to verifications that tools ask for.
G == INSTANCE Engineering WITH
    maker <- v1, slots <- v2, tools <- v3, asked <- v4

\* Two subtasks on two threads, retried once.
P == INSTANCE Supervisor WITH
    sup <- v1, thread <- v2, batch <- v3, agent <- v4, ticks <- v5, ran <- v6, won <- v7

\* Answers with thoughts, with an escape, with nothing to show, and none.
SomeReplies ==
    {<<"think", "key", "a", "slash", "n", "b", "quote">>,
     <<"key", "slash", "n", "b", "quote">>, <<"think", "think">>, <<"key", "quote">>, <<>>}

D == INSTANCE ArtifactStream WITH
    Replies <- SomeReplies, signal <- v1, stage <- v2, attempt <- v3, reply <- v4,
    read <- v5, args <- v6, ending <- v7, screen <- v8, split <- v9, calls <- v10,
    draft <- v11

ASSUME MakingAssumptions ==
    /\ W!WritingAssumption /\ F!SessionFilesAssumption /\ G!EngineeringAssumption
    /\ P!SupervisorAssumption /\ D!StreamAssumption

vars == <<part, v1, v2, v3, v4, v5, v6, v7, v8, v9, v10, v11, v12, v13>>

Init ==
    \/ part = "writing" /\ W!WritingInit
       /\ v6 = 0 /\ v7 = 0 /\ v8 = 0 /\ v9 = 0 /\ v10 = 0 /\ v11 = 0 /\ v12 = 0 /\ v13 = 0
    \/ part = "files" /\ F!FilesInit
    \/ part = "engineering" /\ G!EngineeringInit
       /\ v5 = 0 /\ v6 = 0 /\ v7 = 0 /\ v8 = 0 /\ v9 = 0 /\ v10 = 0 /\ v11 = 0 /\ v12 = 0 /\ v13 = 0
    \/ part = "supervisor" /\ P!SupervisorInit
       /\ v8 = 0 /\ v9 = 0 /\ v10 = 0 /\ v11 = 0 /\ v12 = 0 /\ v13 = 0
    \/ part = "stream" /\ D!StreamInit /\ v12 = 0 /\ v13 = 0

Next ==
    /\ UNCHANGED part
    /\ \/ part = "writing" /\ W!WritingNext
          /\ UNCHANGED <<v6, v7, v8, v9, v10, v11, v12, v13>>
       \/ part = "files" /\ F!FilesNext
       \/ part = "engineering" /\ G!EngineeringNext
          /\ UNCHANGED <<v5, v6, v7, v8, v9, v10, v11, v12, v13>>
       \/ part = "supervisor" /\ P!SupervisorNext
          /\ UNCHANGED <<v8, v9, v10, v11, v12, v13>>
       \/ part = "stream" /\ D!StreamNext /\ UNCHANGED <<v12, v13>>

Spec == Init /\ [][Next]_vars

-----------------------------------------------------------------------------
(* Properties                                                              *)

\* A writing project (writing_project.py, writing_batch.py): what a message
\* makes the batch write is bounded, the project counts no chapter that the
\* file lacks, and no sealed chapter is lost.
WritingSound ==
    /\ [](part = "writing" =>
              W!WritingTypeOK /\ W!BatchBounded /\ W!CountedChaptersExist)
    /\ [][part = "writing" => W!KeepsSealed]_vars

\* Files of a session (artifact_read_cache.py, tool_invoke_helpers.py): the cache is
\* fresh, a token removes one file, and no edit of a run is lost.
FilesSound ==
    /\ [](part = "files" => F!FilesTypeOK /\ F!CacheFresh /\ F!RemovedOnce)
    /\ [][part = "files" => F!LosesNoEdit]_vars

\* A tool starts after the tools it depends on (tool_dag.py).
DependenciesFirst == [][part = "files" => F!StartsAfterDependencies]_vars

\* The verdict of a delivery is about the files it leaves, and no verification
\* slot is lost (engineering_execution.py, project_verify/backends.py).
EngineeringSound == part = "engineering" => G!VerdictIsForDelivery /\ G!SlotsAccounted

\* The supervisor's rows and results agree, and its work is bounded
\* (supervisor_graph.py, a2a_dispatch.py).
SupervisorSound == part = "supervisor" => P!SubtasksAgree /\ P!WorkBounded

\* A committed draft is the whole text of one attempt, and the user has seen
\* its beginning (artifact_stream.py, llm_gateway.py).
DraftIsHonest == part = "stream" => D!StreamTypeOK /\ D!DraftIsHonest
=============================================================================
