--------------------------- MODULE ArtifactStream ---------------------------
(***************************************************************************)
(* The draft of an artifact as the model streams it: invoke_artifact_draft *)
(* and _stream_artifact_live of llm_gateway.py with the incremental parser *)
(* of the tool's arguments (artifact_args_parser.py), the text that the    *)
(* user sees grow (artifact_stream.py) and the record of the generation    *)
(* (generation_record.py).  Chunks have any size, so that one may end in   *)
(* the middle of an escape; the stream may break, be cut by its limits or  *)
(* be stopped by a pause or a cancellation.  Which call may be made at all *)
(* is the subject of LlmCalls, what Writing does with a draft of Writing.  *)
(***************************************************************************)
EXTENDS Integers, Sequences, SequencesExt

CONSTANTS
    Replies,     \* what the model may send: sequences of symbols
    MaxRetries,  \* ARTIFACT_STREAM_MAX_RETRIES
    MaxArgs,     \* ARTIFACT_STREAM_MAX_ACCUMULATED_CHARS
    MaxShown,    \* ARTIFACT_STREAM_MAX_CHARS
    MaxChunk     \* bound: symbols of a chunk

(***************************************************************************)
(* The symbols: "key" stands for the text up to the quote that opens the   *)
(* content, "quote" closes it, "slash" begins an escape, "think" is a      *)
(* chunk of thinking and no part of the arguments; others are letters.     *)
(***************************************************************************)
Symbols == {"key", "quote", "slash", "think", "a", "b", "n"}

StreamAssumption ==
    /\ \A r \in Replies : \A i \in 1 .. Len(r) : r[i] \in Symbols
    /\ {MaxRetries, MaxArgs, MaxShown, MaxChunk} \subseteq Nat

VARIABLES
    signal,     \* a pause or a cancellation is requested
    stage,      \* where the draft is
    attempt,    \* number of the stream
    reply,      \* what the model is sending
    read,       \* symbols of it that arrived
    args,       \* ArtifactArgsParser.accumulated
    ending,     \* how the stream ended: "open", "end", "capped" or "aborted"
    screen,     \* what the user sees of the artifact
    split,      \* history: a chunk ended within an escape
    calls,      \* history: calls of the model, and those begun after a stop was seen
    draft       \* ArtifactDraft: its content and generation_status

streamVars == <<signal, stage, attempt, reply, read, args, ending, screen, split, calls, draft>>

NoDraft == [content |-> <<>>, status |-> "none"]

StreamInit ==
    /\ signal = FALSE /\ stage = "idle" /\ attempt = 0
    /\ reply = <<>> /\ read = 0 /\ args = <<>> /\ ending = "open"
    /\ screen = <<>> /\ split = FALSE
    /\ calls = [all |-> 0, late |-> 0]
    /\ draft = NoDraft

StreamTypeOK ==
    /\ signal \in BOOLEAN /\ split \in BOOLEAN
    /\ stage \in {"idle", "stream", "closing", "single", "again", "done", "raised"}
    /\ attempt \in 0 .. MaxRetries + 1
    /\ reply \in Replies \cup {<<>>} /\ read \in 0 .. Len(reply)
    /\ Len(args) <= MaxArgs + MaxChunk /\ Len(screen) <= MaxShown + Len(reply)
    /\ ending \in {"open", "end", "capped", "aborted"}
    /\ draft.status \in {"none", "committed", "partial", "aborted", "failed", "single"}

-----------------------------------------------------------------------------
\* _decode_json_string_partial from symbol i of s on: up to the closing quote,
\* a backslash with the letter after it, a backslash at the very end by itself.
Decoded(s) ==
    LET d[i \in 1 .. Len(s) + 1] ==
          IF i > Len(s) \/ s[i] = "quote" THEN <<>>
          ELSE IF s[i] = "slash" /\ i < Len(s) THEN <<"newline">> \o d[i + 2]
          ELSE <<s[i]>> \o d[i + 1]
    IN d[1]

\* ArtifactArgsParser.content_so_far: nothing before the key has come.
ContentOf(s) ==
    IF \E i \in 1 .. Len(s) : s[i] = "key"
    THEN Decoded(SubSeq(s, SelectInSeq(s, LAMBDA x : x = "key") + 1, Len(s))) ELSE <<>>

Arguments(s) == SelectSeq(s, LAMBDA x : x # "think")

Whole(r) == ContentOf(Arguments(r))

\* emit_artifact_content_deltas: what is beyond the part already shown.
Shown(old, new) ==
    IF Len(old) >= MaxShown THEN old
    ELSE old \o SubSeq(new, Len(old) + 1, IF Len(new) < MaxShown THEN Len(new) ELSE MaxShown)

\* map_stream_close_status and the generation status it becomes.
CloseStatus(content, how) ==
    IF how = "aborted" THEN "aborted"
    ELSE IF content = <<>> THEN "failed"
    ELSE IF how = "capped" THEN "partial" ELSE "committed"

Called == [all |-> calls.all + 1, late |-> calls.late + (IF ending = "aborted" THEN 1 ELSE 0)]

-----------------------------------------------------------------------------
Stop == ~signal /\ signal' = TRUE
        /\ UNCHANGED <<stage, attempt, reply, read, args, ending, screen, split, calls, draft>>

\* Mutant of ShownWhole: the text of the stream before stays on the screen.
ShownBelow(old, content) == old \o content

\* emit_full_artifact_content_deltas resets the view.
ShownWhole(old, content) == content

\* A stream begins, the first one or a retry: report_artifact_stream_start.
Open ==
    /\ stage = "idle" /\ attempt <= MaxRetries
    /\ stage' = "stream" /\ attempt' = attempt + 1
    /\ reply' \in Replies
    /\ read' = 0 /\ args' = <<>> /\ ending' = "open"
    /\ screen' = <<>> /\ split' = FALSE
    /\ calls' = Called
    /\ UNCHANGED <<signal, draft>>

\* The chunks the model may send next.
Chunks == {k \in 1 .. MaxChunk : read + k <= Len(reply)}
Piece(k) == Arguments(SubSeq(reply, read + 1, read + k))

\* A chunk arrives, no stop is requested, and the limits are not reached.
Receive(k) ==
    /\ stage = "stream" /\ ~signal
    /\ read' = read + k
    /\ args' = args \o Piece(k)
    /\ IF Len(args') > MaxArgs
       THEN stage' = "closing" /\ ending' = "capped" /\ UNCHANGED screen
       ELSE /\ screen' = IF Piece(k) = <<>> THEN screen ELSE Shown(screen, ContentOf(args'))
            /\ UNCHANGED <<stage, ending>>
    /\ split' = (split \/ (args' # <<>> /\ args'[Len(args')] = "slash"))
    /\ UNCHANGED <<signal, attempt, reply, calls, draft>>

\* A chunk arrives and the stop is found: before the chunk is taken, or, when it
\* came after that check, before it is shown.
ReceiveStopped(k) ==
    /\ stage = "stream" /\ signal
    /\ stage' = "closing" /\ ending' = "aborted"
    /\ \/ read' = read + k /\ args' = args \o Piece(k) /\ Piece(k) # <<>>
       \/ UNCHANGED <<read, args>>
    /\ UNCHANGED <<signal, attempt, reply, screen, split, calls, draft>>

\* A chunk arrives after ARTIFACT_STREAM_MAX_DURATION_SEC.
TooLong ==
    /\ stage = "stream" /\ Chunks # {}
    /\ stage' = "closing" /\ ending' = "capped"
    /\ UNCHANGED <<signal, attempt, reply, read, args, screen, split, calls, draft>>

EndOfReply ==
    /\ stage = "stream" /\ read = Len(reply)
    /\ stage' = "closing" /\ ending' = "end"
    /\ UNCHANGED <<signal, attempt, reply, read, args, screen, split, calls, draft>>

\* The connection breaks.  What has come of the content is the draft; without
\* any the stream is tried again, or the call without a stream is made.
BreakOff ==
    /\ stage = "stream"
    /\ IF ContentOf(args) # <<>>
       THEN /\ stage' = "done"
            /\ draft' = [content |-> ContentOf(args), status |-> "partial"]
       ELSE /\ stage' = IF attempt > MaxRetries THEN "single" ELSE "idle"
            /\ UNCHANGED draft
    /\ UNCHANGED <<signal, attempt, reply, read, args, ending, screen, split, calls>>

\* Any other error: the call without a stream.
Fail ==
    /\ stage = "stream"
    /\ stage' = "single"
    /\ UNCHANGED <<signal, attempt, reply, read, args, ending, screen, split, calls, draft>>

\* After the loop: the draft is made of what arrived.  Chunks without content
\* raise ValueError, whatever ended the stream, and lead to the single call; no
\* chunk at all makes an empty draft.
Close ==
    /\ stage = "closing"
    /\ IF ContentOf(args) = <<>> /\ read > 0
       THEN stage' = "single" /\ UNCHANGED draft
       ELSE /\ stage' = "done"
            /\ draft' = [content |-> ContentOf(args), status |-> CloseStatus(ContentOf(args), ending)]
    /\ UNCHANGED <<signal, attempt, reply, read, args, ending, screen, split, calls>>

\* The call without a stream: its answer is shown from the start, its chunks
\* being whole.  Thinking alone is asked for once more.
Single ==
    /\ stage \in {"single", "again"}
    /\ calls' = Called
    /\ \E r \in Replies :
          /\ reply' = r /\ read' = Len(r)
          /\ IF Whole(r) # <<>>
             THEN /\ stage' = "done" /\ screen' = ShownWhole(screen, Whole(r)) /\ split' = FALSE
                  /\ draft' = [content |-> Whole(r), status |-> "single"]
             ELSE /\ stage' = IF stage = "single" THEN "again" ELSE "raised"
                  /\ UNCHANGED <<screen, split, draft>>
    /\ UNCHANGED <<signal, attempt, args, ending>>

SingleFails ==
    /\ stage \in {"single", "again"}
    /\ stage' = "raised" /\ calls' = Called
    /\ UNCHANGED <<signal, attempt, reply, read, args, ending, screen, split, draft>>

StreamNext ==
    \/ Stop \/ Open \/ TooLong \/ EndOfReply \/ BreakOff \/ Fail \/ Close \/ Single \/ SingleFails
    \/ \E k \in Chunks : Receive(k) \/ ReceiveStopped(k)

StreamSpec == StreamInit /\ [][StreamNext]_streamVars

-----------------------------------------------------------------------------
(* Properties                                                              *)

\* A draft whose generation is recorded as committed is the whole text the
\* model sent, and what the user saw of it is its beginning: nothing of an
\* attempt that broke off before, nothing of a stream that was cut or stopped
\* (generation_record.py:88, llm_gateway.py:615, artifact_stream.py:80).  When a
\* chunk ended within an escape, the user has seen the bare backslash.
DraftIsHonest ==
    stage = "done" =>
        /\ draft.status = "committed" => draft.content = Whole(reply)
        /\ ~split => IsPrefix(screen, draft.content)

\* What the user sees is the beginning of the draft.  Does not hold when a
\* chunk ends within an escape.
ShownIsDraft == stage = "done" => IsPrefix(screen, draft.content)

\* Once a stream was ended because a pause or a cancellation is requested, no
\* further call of the model is made for this draft.  Does not hold: see Close.
StopEndsCalls == calls.late = 0

=============================================================================
