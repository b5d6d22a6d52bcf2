------------------------------ MODULE History ------------------------------
(***************************************************************************)
(* The conversation history of a session (conversation_context.py,         *)
(* session_turn.py).  It is kept twice, in the task's state and in the     *)
(* payload of the turn, and the longer of the two is believed.  A turn     *)
(* opens with the user's message, the context governance node replaces the *)
(* payload's copy by the transcript it made for the model, the turn closes *)
(* with the assistant's answer; both ends compress what is too long.       *)
(* Semantic compression is off, as it is in the shipped configuration.     *)
(***************************************************************************)
EXTENDS Naturals, Sequences, FiniteSets, Functions, FiniteSetsExt, SequencesExt

CONSTANTS
    MsgSizes,       \* characters of a message
    MaxMessages,    \* SESSION_MAX_HISTORY_TURNS
    MaxChars,       \* SESSION_MAX_HISTORY_CHARS
    MaxTurns        \* bound: turns of the session

HistoryAssumption ==
    /\ {MaxMessages, MaxChars} \subseteq Nat \ {0}
    /\ MsgSizes \subseteq Nat \ {0} /\ MaxTurns \in Nat

VARIABLES
    story,      \* [state, payload]: the two copies of the history
    turnAt,     \* "idle", or "open" while a turn runs
    turns,      \* turns opened so far
    latest      \* the user's message of the latest turn

historyVars == <<story, turnAt, turns, latest>>

Message(turn, role, size) == [turn |-> turn, role |-> role, size |-> size]
Omission == Message(0, "system", 1)

HistoryInit ==
    /\ story = [state |-> <<>>, payload |-> <<>>]
    /\ turnAt = "idle" /\ turns = 0 /\ latest = <<>>

-----------------------------------------------------------------------------
(* Operations on a history                                                 *)

Chars(h) == MapThenSumSet(LAMBDA i : h[i].size, DOMAIN h)

\* append_message: not if it repeats the last one.
AppendMessage(h, msg) == IF h # <<>> /\ Last(h) = msg THEN h ELSE Append(h, msg)

\* compress_conversation_history: the last messages, and a note if characters
\* were saved.
Latest(h, n) == SubSeq(h, IF Len(h) > n THEN Len(h) - n + 1 ELSE 1, Len(h))
Suffix(h) ==
    SubSeq(h, CHOOSE k \in 1..(Len(h) + 1) :
                  /\ Chars(SubSeq(h, k, Len(h))) <= MaxChars
                  /\ k = 1 \/ Chars(SubSeq(h, k - 1, Len(h))) > MaxChars, Len(h))
CompressHistory(h) ==
    LET trimmed == Latest(h, MaxMessages)
    IN  IF Chars(trimmed) <= MaxChars THEN trimmed ELSE <<Omission>> \o Suffix(trimmed)

\* conversation_history_from_state: the longer copy, the payload's if they are
\* equally long.  Mutant: always the payload's, unless it is empty.
PayloadHistory(s) == IF s.payload = <<>> THEN s.state ELSE s.payload
HistoryFromState(s) ==
    IF s.payload = <<>> THEN s.state
    ELSE IF Len(s.payload) >= Len(s.state) THEN s.payload ELSE s.state

\* conversation_history_for_llm and collect_context_items: the turn's message
\* first, then what else the user may see and the buckets keep.  The rest is
\* sorted by random ids, and near duplicates are gone.
ForLlm(h) == {msg \in Range(h) : msg.role # "system" /\ msg # latest}
Transcripts(h) ==
    {<<latest>> \o s : s \in UNION {{[i \in 1..n |-> f[i]] :
        f \in {g \in [1..n -> ForLlm(h)] : IsInjective(g)}} : n \in 0..Cardinality(ForLlm(h))}}

-----------------------------------------------------------------------------
(* The turn                                                                *)

\* build_inbound_merged_payload, then _reset_execution_fields, which asks once
\* more which copy is the longer one.
Inbound(h, msg) == CompressHistory(AppendMessage(h, msg))
OpenTurn(msg) ==
    /\ turnAt = "idle" /\ turns < MaxTurns
    /\ LET payload == Inbound(HistoryFromState(story), msg)
           h == HistoryFromState([story EXCEPT !.payload = payload])
       IN  story' = [state |-> h, payload |-> h]
    /\ turnAt' = "open" /\ turns' = turns + 1 /\ latest' = msg

\* A new message, or the last one sent again.
UserMessages ==
    {Message(turns + 1, "user", size) : size \in MsgSizes}
        \cup (IF latest = <<>> THEN {} ELSE {latest})

\* context_governance_node stores the payload with the transcript in it.
Govern ==
    /\ turnAt = "open"
    /\ \E transcript \in Transcripts(HistoryFromState(story)) :
          story' = [story EXCEPT !.payload = transcript]
    /\ UNCHANGED <<turnAt, turns, latest>>

\* finalize_turn_history: an answer that may be shown is appended; a rejected or
\* failed turn has none.
CloseTurn(answers, size) ==
    /\ turnAt = "open"
    /\ LET h == HistoryFromState(story)
           g == IF answers
                THEN CompressHistory(AppendMessage(h, Message(turns, "assistant", size)))
                ELSE h
       IN  story' = [state |-> g, payload |-> g]
    /\ turnAt' = "idle"
    /\ UNCHANGED <<turns, latest>>

\* manual_compress_context, by request between turns.
ManualCompress ==
    /\ turnAt = "idle" /\ turns > 0
    /\ LET h == CompressHistory(HistoryFromState(story))
       IN  story' = [state |-> h, payload |-> h]
    /\ UNCHANGED <<turnAt, turns, latest>>

HistoryNext ==
    \/ \E msg \in UserMessages : OpenTurn(msg)
    \/ Govern
    \/ \E answers \in BOOLEAN, size \in MsgSizes : CloseTurn(answers, size)
    \/ ManualCompress

HistorySpec == HistoryInit /\ [][HistoryNext]_historyVars

-----------------------------------------------------------------------------
(* Properties                                                              *)

Messages == [turn : 0..MaxTurns, role : {"user", "assistant", "system"}, size : Nat]

\* Types.
HistoryTypeOK ==
    /\ story \in [state : Seq(Messages), payload : Seq(Messages)]
    /\ turnAt \in {"idle", "open"} /\ turns \in 0..MaxTurns

\* Governance may leave messages out of the transcript and shuffles it; the copy
\* it overwrites is only believed while it is complete, so that below the limits
\* no step loses a message of the conversation.
KeepsMessages ==
    LET h == HistoryFromState(story)
        g == HistoryFromState(story')
    IN  (\E msg \in Range(h) \ Range(g) : msg.role # "system")
            => \/ Len(h) + 1 > MaxMessages
               \/ \E size \in MsgSizes : Chars(h) + size > MaxChars

\* The stored history holds the recent exchange ("recent_messages: the last few
\* rounds of the conversation", docs/arch.md), the last message of the user
\* included.  Does not hold: governance puts it first, where it is cut first.
LatestTurnKept == turnAt = "idle" /\ turns > 0 => latest \in Range(HistoryFromState(story))
=============================================================================
