--------------------------- MODULE AssistantTurns ---------------------------
(***************************************************************************)
(* Protocol-v4 conversations: the transcript and the content events that   *)
(* the turns of a conversation leave in the store                          *)
(* (src/runtime/store/v4.rs, v4_turn.rs, v4_context.rs), the worker that   *)
(* streams the output of a provider into them                              *)
(* (src/runtime/provider.rs, provider/conversation.rs,                     *)
(* provider/content_sink.rs) and a reader that pages through them.         *)
(*                                                                         *)
(* A step is one SQLite transaction or one event of the provider. Which    *)
(* thread settles a run and when is RunManager's business: here a run is   *)
(* settled at any time the lifecycle lets it. A sequence number is a       *)
(* position: rows of a conversation are only removed all together, and the *)
(* conversation is closed with them. Every turn names the one route, and a *)
(* context is never longer than the 32 pairs that prompt_for_turn reads.   *)
(* The store is recovered after the process that used it has ended.        *)
(***************************************************************************)
EXTENDS RunStates, FiniteSetsExt, SequencesExt

CONSTANTS Conversations, Turns, NoTurn,
          ConversationOf,      \* the conversation a turn is submitted to
          Input,               \* the text a turn submits
          Chars, Width,        \* characters, and how many bytes each takes
          Deltas,              \* texts a provider emits at a time
          MaxEmissions,        \* bound on the deltas of one turn
          MaxSequence,         \* MAX_SEQUENCE
          MaxDelta,            \* MAX_V4_DELTA_BYTES
          MaxPreview,          \* the bound of update_assistant_preview, in bytes
          MaxText,             \* MAX_V4_CONTENT_BYTES
          ContextBytes,        \* what prompt_for_turn has left for history
          Reading,             \* the turns somebody reads
          MaxRestarts

ASSUME TurnsAssumption ==
    /\ NoTurn \notin Turns /\ Reading \subseteq Turns
    /\ ConversationOf \in [Turns -> Conversations]
    /\ Input \in [Turns -> Seq(Chars)]

\* A delta is never smaller than one character, or the sink would not advance.
ASSUME TextAssumption ==
    /\ Width \in [Chars -> 1 .. MaxDelta]
    /\ Deltas \subseteq Seq(Chars) \ {<<>>}

ASSUME SizesAssumption ==
    /\ MaxSequence \in Nat \ {0, 1} /\ MaxDelta \in Nat /\ MaxPreview \in Nat
    /\ MaxText \in Nat /\ ContextBytes \in Nat
    /\ MaxEmissions \in Nat /\ MaxRestarts \in Nat

VARIABLES
    conversation,   \* assistant_conversations: absent, open or deleted
    status,         \* the status column of the run of each turn
    messages,       \* assistant_messages of each conversation, by sequence
    events,         \* assistant_content_events of each conversation, by sequence
    items,          \* turns that have a work item in the queue
    worker,         \* the turn that is executed and how far its stream is
    rest,           \* what the sink has still to append of the current delta
    spoken,         \* everything the provider emitted for this turn
    reader,         \* each turn's reader: cursor, text so far, whether it is done
    restarts

durable == <<conversation, status, messages, events>>
vars    == <<durable, items, worker, rest, spoken, reader, restarts>>

Idle == [turn |-> NoTurn, stage |-> "idle", invalid |-> FALSE]

Active == {"queued"} \cup InFlight

TurnsOf(c) == {t \in Turns : ConversationOf[t] = c /\ status[t] # Absent}

\* active_runs.
ActiveTurns(c) == {t \in TurnsOf(c) : status[t] \in Active}

-----------------------------------------------------------------------------
(* Texts.                                                                  *)

Bytes(text) == FoldLeft(LAMBDA n, ch : n + Width[ch], 0, text)

\* The longest prefix that fits into n bytes and ends between two characters.
Fit(text, n) == SubSeq(text, 1, Max({k \in 0 .. Len(text) : Bytes(SubSeq(text, 1, k)) <= n}))

\* Faulty variant: a preview that was cut is still extended.
ExtendAnyway(body, bytes, delta) == body \o Fit(delta, MaxPreview - Bytes(body))

\* update_assistant_preview: a preview that was cut stays a prefix.
Extend(body, bytes, delta) ==
    IF Bytes(body) = bytes THEN body \o Fit(delta, MaxPreview - Bytes(body)) ELSE body

\* The events of one turn among those of its conversation.
Own(es, t) == FoldLeft(LAMBDA own, e : IF e.turn = t THEN Append(own, e) ELSE own, <<>>, es)

EventsOf(t) == Own(events[ConversationOf[t]], t)

TextOf(es) == FlattenSeq([i \in DOMAIN es |-> es[i].text])

\* Position of the message of a turn with a role; 0 when there is none.
MessageAt(t, role) ==
    LET ms    == messages[ConversationOf[t]]
        found == {i \in DOMAIN ms : ms[i].turn = t /\ ms[i].role = role}
    IN  IF found = {} THEN 0 ELSE CHOOSE i \in found : TRUE

Reply(t) == messages[ConversationOf[t]][MessageAt(t, "assistant")]

-----------------------------------------------------------------------------
(* What a lifecycle transition and an append write.                        *)

\* A message follows the state of its run; it is complete if its preview was not cut.
Follow(m, state) == [m EXCEPT !.state = state, !.complete = (Bytes(m.body) = m.bytes)]

\* sync_message_state, first half.
SyncedMessages(ms, t, next) ==
    [i \in DOMAIN ms |-> IF ms[i].turn = t THEN Follow(ms[i], next) ELSE ms[i]]

TerminalEvent(t, state) == [turn |-> t, kind |-> "terminal", text |-> <<>>, state |-> state]
NoticeEvent(t)          == [turn |-> t, kind |-> "notice", text |-> <<>>, state |-> "none"]
TextEvent(t, text)      == [turn |-> t, kind |-> "text", text |-> text, state |-> "none"]

\* sync_message_state, second half: the first terminal state leaves a marker, if there is
\* a sequence number left.
SyncedEvents(es, t, next) ==
    IF /\ next \in Terminal
       /\ \A i \in DOMAIN es : es[i].turn = t => es[i].kind # "terminal"
       /\ Len(es) < MaxSequence
    THEN Append(es, TerminalEvent(t, next)) ELSE es

\* transition_run of a turn.
Transition(t, next) ==
    LET c == ConversationOf[t]
    IN  /\ ValidTransition(status[t], next)
        /\ status' = [status EXCEPT ![t] = next]
        /\ messages' = [messages EXCEPT ![c] = SyncedMessages(@, t, next)]
        /\ events' = [events EXCEPT ![c] = SyncedEvents(@, t, next)]
        /\ UNCHANGED conversation

\* Faulty variant: no sequence number is kept for the marker.
RoomToTheEnd(c) == Len(events[c]) < MaxSequence

\* insert_content_event of anything but a marker keeps the last sequence number.
Room(c) == Len(events[c]) + 1 < MaxSequence

\* v4_append_content takes the chunk.
Accepts(t, chunk) ==
    /\ status[t] \notin Terminal
    /\ Room(ConversationOf[t])
    /\ (IF MessageAt(t, "assistant") = 0 THEN 0 ELSE Reply(t).bytes) + Bytes(chunk) <= MaxText

\* Faulty variant: text_bytes counts the preview instead of the text.
WithPreviewBytes(ms, t, chunk) ==
    LET i    == MessageAt(t, "assistant")
        body == IF i = 0 THEN Extend(<<>>, 0, chunk) ELSE Extend(ms[i].body, ms[i].bytes, chunk)
        m    == [turn |-> t, role |-> "assistant", body |-> body, bytes |-> Bytes(body),
                 complete |-> FALSE, state |-> "running"]
    IN  IF i = 0 THEN Append(ms, m) ELSE [ms EXCEPT ![i] = m]

\* update_assistant_preview of the messages of a conversation.
WithText(ms, t, chunk) ==
    LET i     == MessageAt(t, "assistant")
        body  == IF i = 0 THEN <<>> ELSE ms[i].body
        bytes == IF i = 0 THEN 0 ELSE ms[i].bytes
        m     == [turn |-> t, role |-> "assistant", body |-> Extend(body, bytes, chunk),
                  bytes |-> bytes + Bytes(chunk), complete |-> FALSE, state |-> "running"]
    IN  IF i = 0 THEN Append(ms, m) ELSE [ms EXCEPT ![i] = m]

-----------------------------------------------------------------------------
(* The context of a turn: v4_turn_context.                                 *)

\* The questions of the turns that succeeded, newest first.
Questions(c) ==
    FoldLeft(LAMBDA later, m : IF m.role = "user" /\ status[m.turn] = "succeeded"
                               THEN <<m>> \o later ELSE later,
             <<>>, messages[c])

\* validate_empty_success accepts a turn without a reply.
EmptySuccess(t) ==
    EventsOf(t) \in {<<TerminalEvent(t, "succeeded")>>,
                     <<NoticeEvent(t), TerminalEvent(t, "succeeded")>>}

\* The checks of the lengths of a pair, and of the events of one that fits.
PairFound(t) == Reply(t).state = "succeeded" /\ Reply(t).bytes <= MaxText

PairReadable(t) ==
    LET es == EventsOf(t)
    IN  /\ PairFound(t)
        /\ \A i \in DOMAIN es : es[i].kind = "terminal" <=> i = Len(es)
        /\ es # <<>> /\ Last(es).state = "succeeded"
        /\ Bytes(TextOf(es)) = Reply(t).bytes
        /\ Bytes(Reply(t).body) <= MaxPreview
        /\ IsPrefix(Reply(t).body, TextOf(es))

\* The finished turns before this one; what does not fit is left out.
Context(t) ==
    LET Pair(acc, m) ==
            IF MessageAt(m.turn, "assistant") = 0
            THEN [acc EXCEPT !.readable = @ /\ EmptySuccess(m.turn)]
            ELSE LET size == m.bytes + Reply(m.turn).bytes
                 IN  IF size > acc.left
                     THEN [acc EXCEPT !.truncated = TRUE,
                                      !.readable = @ /\ PairFound(m.turn)]
                     ELSE [acc EXCEPT !.left = @ - size, !.readable = @ /\ PairReadable(m.turn)]
    IN  FoldLeft(Pair, [left |-> ContextBytes, truncated |-> FALSE, readable |-> TRUE],
                 Questions(ConversationOf[t]))

-----------------------------------------------------------------------------
(* Operations of the clients.                                              *)

\* v4_create_conversation, v4_note_legacy_shell.
CreateConversation(c) ==
    /\ conversation[c] = "absent"
    /\ conversation' = [conversation EXCEPT ![c] = "open"]
    /\ UNCHANGED <<status, messages, events, items, worker, rest, spoken, reader, restarts>>

\* v4_delete_conversation.
DeleteConversation(c) ==
    /\ conversation[c] = "open"
    /\ ActiveTurns(c) = {}
    /\ conversation' = [conversation EXCEPT ![c] = "deleted"]
    /\ messages' = [messages EXCEPT ![c] = <<>>]
    /\ events' = [events EXCEPT ![c] = <<>>]
    /\ UNCHANGED <<status, items, worker, rest, spoken, reader, restarts>>

Question(t) == [turn |-> t, role |-> "user", body |-> Input[t], bytes |-> Bytes(Input[t]),
                complete |-> TRUE, state |-> "queued"]

\* Faulty variant: a turn may be admitted while another one is active.
AdmitTurnBeside(t) ==
    LET c == ConversationOf[t]
    IN  /\ status[t] = Absent
        /\ conversation[c] = "open"
        /\ Len(events[c]) <= MaxSequence - 2
        /\ status' = [status EXCEPT ![t] = "queued"]
        /\ messages' = [messages EXCEPT ![c] = Append(@, Question(t))]
        /\ items' = items \cup {t}
        /\ UNCHANGED <<conversation, events, worker, rest, spoken, reader, restarts>>

\* v4_admit_turn of a new key, and its work item. The queue being full is Drop.
AdmitTurn(t) ==
    LET c == ConversationOf[t]
    IN  /\ status[t] = Absent
        /\ conversation[c] = "open"
        /\ ActiveTurns(c) = {}
        /\ Len(events[c]) <= MaxSequence - 2
        /\ status' = [status EXCEPT ![t] = "queued"]
        /\ messages' = [messages EXCEPT ![c] = Append(@, Question(t))]
        /\ items' = items \cup {t}
        /\ UNCHANGED <<conversation, events, worker, rest, spoken, reader, restarts>>

\* A queued turn that no worker adopts: cancelled by a client or by the end of the
\* manager, or failed because the queue is full.
Drop(t) ==
    /\ status[t] = "queued"
    /\ \E next \in {"cancelled", "failed"} : Transition(t, next)
    /\ items' = items \ {t}
    /\ UNCHANGED <<worker, rest, spoken, reader, restarts>>

\* RunManager::cancel of a turn that has started.
Cancel(t) ==
    /\ status[t] \in {"starting", "running"}
    /\ Transition(t, "cancel_requested")
    /\ UNCHANGED <<items, worker, rest, spoken, reader, restarts>>

-----------------------------------------------------------------------------
(* The worker and the stream of the provider.                              *)

At(stage) == worker.stage = stage

Goto(stage) == worker' = [worker EXCEPT !.stage = stage]

WorkerStart(t) ==
    /\ At("idle") /\ t \in items
    /\ Transition(t, "starting")
    /\ items' = items \ {t}
    /\ worker' = [turn |-> t, stage |-> "starting", invalid |-> FALSE]
    /\ spoken' = <<>>
    /\ UNCHANGED <<rest, reader, restarts>>

\* Starting becomes running, or the cancellation that came between is finished.
WorkerRun ==
    /\ At("starting")
    /\ LET t == worker.turn
       IN  IF status[t] = "starting"
           THEN Transition(t, "running") /\ Goto("prompt")
           ELSE Transition(t, "cancelled") /\ Goto("finalize")
    /\ UNCHANGED <<items, rest, spoken, reader, restarts>>

\* execute_item settles the attempt. It succeeded only if the stream was opened, closed
\* and persisted as a whole (V4ContentSink::validate) and nobody asked to stop.
Settle ==
    /\ worker.stage \in {"prompt", "opening", "streaming", "closed"} /\ rest = <<>>
    /\ LET t == worker.turn
       IN  \/ /\ At("closed") /\ ~worker.invalid /\ status[t] = "running"
              /\ Transition(t, "succeeded")
           \/ \E next \in {"failed", "cancelled"} : Transition(t, next)
    /\ Goto("finalize")
    /\ UNCHANGED <<items, rest, spoken, reader, restarts>>

\* prompt_for_turn. A context that does not read, or a notice that does not fit, ends the
\* attempt (Settle).
BuildPrompt ==
    LET t == worker.turn  c == ConversationOf[t]  context == Context(t)
    IN  /\ At("prompt")
        /\ context.readable
        /\ context.truncated => status[t] \notin Terminal /\ Room(c)
        /\ events' = IF context.truncated
                     THEN [events EXCEPT ![c] = Append(@, NoticeEvent(t))] ELSE events
        /\ Goto("opening")
        /\ UNCHANGED <<conversation, status, messages, items, rest, spoken, reader, restarts>>

\* ModelEvent::Started of the expected model.
EmitStarted ==
    /\ At("opening")
    /\ Goto("streaming")
    /\ UNCHANGED <<durable, items, rest, spoken, reader, restarts>>

\* ModelEvent::TextDelta: the sink splits it into chunks.
EmitText ==
    /\ At("streaming") /\ rest = <<>>
    /\ \E delta \in Deltas :
          /\ Len(spoken) < MaxEmissions
          /\ rest' = delta
          /\ spoken' = Append(spoken, delta)
    /\ UNCHANGED <<durable, items, worker, reader, restarts>>

\* v4_append_content of the next chunk.
AppendChunk ==
    LET t == worker.turn  c == ConversationOf[t]  chunk == Fit(rest, MaxDelta)
    IN  /\ At("streaming") /\ rest # <<>>
        /\ Accepts(t, chunk)
        /\ events' = [events EXCEPT ![c] = Append(@, TextEvent(t, chunk))]
        /\ messages' = [messages EXCEPT ![c] = WithText(@, t, chunk)]
        /\ rest' = SubSeq(rest, Len(chunk) + 1, Len(rest))
        /\ UNCHANGED <<conversation, status, items, worker, spoken, reader, restarts>>

\* Faulty variant: a chunk that is refused is skipped.
AppendFailsUnnoticed ==
    /\ At("streaming") /\ rest # <<>>
    /\ rest' = <<>>
    /\ UNCHANGED <<durable, items, worker, spoken, reader, restarts>>

\* A chunk that the store refuses, for its size or by any error, breaks the stream; the
\* rest of the delta is dropped.
AppendFails ==
    /\ At("streaming") /\ rest # <<>>
    /\ worker' = [worker EXCEPT !.invalid = TRUE]
    /\ rest' = <<>>
    /\ UNCHANGED <<durable, items, spoken, reader, restarts>>

\* ModelEvent::Finished.
EmitFinished ==
    /\ At("streaming") /\ rest = <<>>
    /\ Goto("closed")
    /\ UNCHANGED <<durable, items, rest, spoken, reader, restarts>>

\* Any event that does not belong here: a tool call, a second start, text after the end.
EmitStray ==
    /\ worker.stage \in {"opening", "streaming", "closed"} /\ rest = <<>>
    /\ worker' = [worker EXCEPT !.invalid = TRUE]
    /\ UNCHANGED <<durable, items, rest, spoken, reader, restarts>>

\* v4_finalize_turn, in a transaction of its own; the conversation may have moved on.
Finalize ==
    /\ At("finalize")
    /\ LET t == worker.turn  c == ConversationOf[t]  i == MessageAt(t, "assistant")
       IN  messages' = IF i = 0 THEN messages
                       ELSE [messages EXCEPT ![c][i] = Follow(@, status[t])]
    /\ worker' = Idle
    /\ spoken' = <<>>
    /\ UNCHANGED <<conversation, status, events, items, rest, reader, restarts>>

\* A store call of the worker fails, which ends the worker; nothing else is executed.
WorkerFails ==
    /\ worker.stage \notin {"idle", "gone"} /\ rest = <<>>
    /\ Goto("gone")
    /\ spoken' = <<>>
    /\ UNCHANGED <<durable, items, rest, reader, restarts>>

\* interrupt_admitted, by the worker that ends or by shutdown, of the turn that was in
\* flight; the queued ones are cancelled (Drop).
InterruptAdmitted ==
    /\ At("gone") /\ status[worker.turn] \in InFlight
    /\ Transition(worker.turn, "interrupted")
    /\ UNCHANGED <<items, worker, rest, spoken, reader, restarts>>

\* The process ends and the store is opened again: recover_interrupted_on. The queue is
\* lost, and a turn that was queued stays queued without a work item.
Restart ==
    /\ restarts < MaxRestarts
    /\ restarts' = restarts + 1
    /\ LET interrupted == {t \in Turns : status[t] \in InFlight}
           Of(c)       == {t \in interrupted : ConversationOf[t] = c}
           The(c)      == CHOOSE t \in Of(c) : TRUE
       IN  /\ status' = [t \in Turns |-> IF t \in interrupted THEN "interrupted" ELSE status[t]]
           /\ messages' = [c \in Conversations |->
                              IF Of(c) = {} THEN messages[c]
                              ELSE SyncedMessages(messages[c], The(c), "interrupted")]
           /\ events' = [c \in Conversations |->
                              IF Of(c) = {} THEN events[c]
                              ELSE SyncedEvents(events[c], The(c), "interrupted")]
    /\ items' = {} /\ worker' = Idle /\ rest' = <<>> /\ spoken' = <<>>
    /\ UNCHANGED <<conversation, reader>>

-----------------------------------------------------------------------------
(* A reader follows one turn: v4_content, and readContent of the desktop   *)
(* client. A page holds any number of events, at least one if there is     *)
(* one; only a terminal event ends the reading.                            *)

\* content_page: events of the turn, from a cursor on.
Page(t, after, to) == Own(SubSeq(events[ConversationOf[t]], after + 1, to), t)

\* Faulty variant: a page after which there is nothing yet ends the reading.
ReadPageOnce(t) ==
    LET es == events[ConversationOf[t]]  after == reader[t].after
    IN  /\ conversation[ConversationOf[t]] = "open" /\ status[t] # Absent
        /\ ~reader[t].done
        /\ \E to \in after + 1 .. Len(es) :
              /\ es[to].turn = t
              /\ reader' = [reader EXCEPT ![t] =
                    [after |-> to,
                     text  |-> @.text \o TextOf(Page(t, after, to)),
                     done  |-> to = Len(es)]]
        /\ UNCHANGED <<durable, items, worker, rest, spoken, restarts>>

\* v4_content, applied by the client; the page ends where its limits cut it.
ReadPage(t) ==
    LET es == events[ConversationOf[t]]  after == reader[t].after
    IN  /\ conversation[ConversationOf[t]] = "open" /\ status[t] # Absent
        /\ ~reader[t].done
        /\ \E to \in after + 1 .. Len(es) :
              /\ es[to].turn = t
              /\ reader' = [reader EXCEPT ![t] =
                    [after |-> to,
                     text  |-> @.text \o TextOf(Page(t, after, to)),
                     done  |-> es[to].kind = "terminal"]]
        /\ UNCHANGED <<durable, items, worker, rest, spoken, restarts>>

-----------------------------------------------------------------------------
Init ==
    /\ conversation = [c \in Conversations |-> "absent"]
    /\ status = [t \in Turns |-> Absent]
    /\ messages = [c \in Conversations |-> <<>>]
    /\ events = [c \in Conversations |-> <<>>]
    /\ items = {} /\ worker = Idle /\ rest = <<>> /\ spoken = <<>>
    /\ reader = [t \in Reading |-> [after |-> 0, text |-> <<>>, done |-> FALSE]]
    /\ restarts = 0

Next ==
    \/ \E c \in Conversations : CreateConversation(c) \/ DeleteConversation(c)
    \/ \E t \in Turns : AdmitTurn(t) \/ Drop(t) \/ Cancel(t) \/ WorkerStart(t)
    \/ \E t \in Reading : ReadPage(t)
    \/ WorkerRun \/ BuildPrompt \/ Settle \/ Finalize \/ WorkerFails \/ InterruptAdmitted
    \/ EmitStarted \/ EmitText \/ AppendChunk \/ AppendFails \/ EmitFinished \/ EmitStray
    \/ Restart

Spec == Init /\ [][Next]_vars

-----------------------------------------------------------------------------
(* Properties.                                                             *)

MessageType == [turn : Turns, role : {"user", "assistant"}, body : Seq(Chars), bytes : Nat,
                complete : BOOLEAN, state : RunState]

EventType == [turn : Turns, kind : {"text", "notice", "terminal"}, text : Seq(Chars),
              state : Terminal \cup {"none"}]

Stages == {"idle", "starting", "prompt", "opening", "streaming", "closed", "finalize",
           "gone"}

\* Types, and the limits the tables declare: sequence numbers, previews and texts.
TypeOK ==
    /\ conversation \in [Conversations -> {"absent", "open", "deleted"}]
    /\ status \in [Turns -> RunState \cup {Absent}]
    /\ messages \in [Conversations -> Seq(MessageType)]
    /\ events \in [Conversations -> Seq(EventType)]
    /\ \A c \in Conversations :
          /\ Len(events[c]) <= MaxSequence
          /\ \A i \in DOMAIN messages[c] :
                messages[c][i].role = "assistant" => /\ messages[c][i].bytes <= MaxText
                                                     /\ Bytes(messages[c][i].body) <= MaxPreview
    /\ items \subseteq Turns
    /\ worker \in [turn : Turns \cup {NoTurn}, stage : Stages, invalid : BOOLEAN]
    /\ rest \in Seq(Chars) /\ spoken \in Seq(Deltas)
    /\ reader \in [Reading -> [after : 0 .. MaxSequence, text : Seq(Chars), done : BOOLEAN]]
    /\ restarts \in 0 .. MaxRestarts

Shown(t) == conversation[ConversationOf[t]] = "open" /\ status[t] # Absent

\* The events of a turn: while it is active none of them is terminal, afterwards the last
\* one and no other, and it names the state of the run.
SettledEvents(t) ==
    LET es == events[ConversationOf[t]]
    IN  IF status[t] \in Terminal
        THEN \E i \in DOMAIN es :
                /\ es[i] = TerminalEvent(t, status[t])
                /\ \A j \in DOMAIN es : es[j].turn = t /\ j # i => j < i /\ es[j].kind # "terminal"
        ELSE \A i \in DOMAIN es : es[i].turn = t => es[i].kind # "terminal"

\* A message says how its run ended and whether it holds all of the text.
Says(m, state) == m.state = state /\ m.complete = (Bytes(m.body) = m.bytes)

\* The messages of a turn that has ended say how it ended.
SettledMessages(t) ==
    LET ms == messages[ConversationOf[t]]
    IN  \A i \in DOMAIN ms : status[t] \in Terminal /\ ms[i].turn = t => Says(ms[i], status[t])

\* "finalize exactly one assistant msg + terminal event": however a turn ends, its last
\* event and no other is a terminal one, it names the state of the run, and so do its
\* messages. The marker always finds a sequence number, even in a full conversation.
SettledTurns == \A t \in Turns : Shown(t) => SettledEvents(t) /\ SettledMessages(t)

\* "Once a preview is truncated it must remain a prefix": the reply of a turn is a prefix
\* of its text and counts all of its bytes, and there is a reply exactly if there is text.
PreviewFaithful ==
    \A t \in Turns : Shown(t) =>
        LET text == TextOf(EventsOf(t))
        IN  IF MessageAt(t, "assistant") = 0 THEN text = <<>>
            ELSE /\ text # <<>>
                 /\ IsPrefix(Reply(t).body, text)
                 /\ Reply(t).bytes = Bytes(text)

\* A transcript reads as questions, each directly followed by its reply if there is one,
\* and the events of two turns of a conversation are never mixed.
Transcript ==
    \A c \in Conversations :
        /\ \A i \in DOMAIN messages[c] :
              messages[c][i].role = "assistant" =>
                  /\ i > 1
                  /\ messages[c][i - 1].role = "user"
                  /\ messages[c][i - 1].turn = messages[c][i].turn
        /\ \A i, j, k \in DOMAIN events[c] :
              i < j /\ j < k /\ events[c][i].turn = events[c][k].turn =>
                  events[c][j].turn = events[c][i].turn

\* v4_turn_context never takes what earlier turns left for CorruptData, however they went
\* and wherever a text or a preview was cut: a conversation does not poison itself.
ContextReadable == At("prompt") => Context(worker.turn).readable

\* "Write failures invalidate the run": a turn that succeeds has stored all the text that
\* its provider emitted.
SucceededWhole ==
    [][\A t \in Turns : status[t] # "succeeded" /\ status'[t] = "succeeded" =>
          TextOf(EventsOf(t)) = FlattenSeq(spoken)]_vars

\* A reader that pages through a turn while it runs, is cancelled or is interrupted has
\* read its whole text when it stops, and nothing else at any time.
ReaderSeesAll ==
    \A t \in Reading : conversation[ConversationOf[t]] = "open" =>
        LET text == TextOf(EventsOf(t))
        IN  /\ IsPrefix(reader[t].text, text)
            /\ reader[t].done => reader[t].text = text /\ status[t] \in Terminal
=============================================================================
