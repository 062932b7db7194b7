------------------------ MODULE AssistantTurnsProofs ------------------------
(***************************************************************************)
(* That every turn of a conversation ends with its marker and with         *)
(* messages that agree with it, proved for any number of conversations and *)
(* turns, any texts and any limits.                                        *)
(*                                                                         *)
(* SettledTurns alone is not inductive: sync_message_state leaves the      *)
(* marker out when no sequence number is left. It never has to, because    *)
(* admission needs two free numbers, every append leaves one, and no other *)
(* turn of the conversation is active that could take it.                  *)
(*                                                                         *)
(* And that transcripts and events are in order: what a turn may still     *)
(* write comes after everything its conversation holds, because the active *)
(* turn is the last one that wrote.                                        *)
(*                                                                         *)
(* And what the texts hold: replies quote them, contexts accept them,      *)
(* readers put them together and a success stored all of them. That rests  *)
(* on what the folds of the model compute, which is proved by induction in *)
(* the form of statements about sets.                                      *)
(***************************************************************************)
EXTENDS AssistantTurns, TLAPS, WellFoundedInduction, SequenceTheorems

\* Rows whose texts and sizes are drawn from arbitrary sets.
Messages(B, N) == [turn : Turns, role : {"user", "assistant"}, body : B, bytes : N,
                   complete : BOOLEAN, state : RunState]

Events(T) == [turn : Turns, kind : {"text", "notice", "terminal"}, text : T,
              state : Terminal \cup {"none"}]

Rows ==
    /\ conversation \in [Conversations -> {"absent", "open", "deleted"}]
    /\ status \in [Turns -> RunState \cup {Absent}]
    /\ \E B, N : messages \in [Conversations -> Seq(Messages(B, N))]
    /\ \E T : events \in [Conversations -> Seq(Events(T))]

\* No two turns of a conversation are active.
ActiveAlone ==
    \A t, u \in Turns :
        status[t] \in Active /\ status[u] \in Active /\ ConversationOf[t] = ConversationOf[u] => t = u

\* The conversation of an active turn is open and has a number left for its marker.
MarkerFits ==
    \A t \in Turns : status[t] \in Active =>
        /\ conversation[ConversationOf[t]] = "open"
        /\ Len(events[ConversationOf[t]]) < MaxSequence

\* A turn is admitted to a conversation that exists.
Opened == \A t \in Turns : status[t] # Absent => conversation[ConversationOf[t]] # "absent"

\* Only admitted turns have events.
EventsAdmitted ==
    \A c \in Conversations : \A i \in DOMAIN events[c] : status[events[c][i].turn] # Absent

\* Whatever the worker is busy with has been admitted.
WorkerAdmitted ==
    /\ worker \in [turn : Turns \cup {NoTurn}, stage : Stages, invalid : BOOLEAN]
    /\ worker.stage # "idle" => worker.turn \in Turns /\ status[worker.turn] # Absent

StoreInv == Rows /\ ActiveAlone /\ MarkerFits /\ Opened /\ EventsAdmitted /\ SettledTurns

Inv == StoreInv /\ WorkerAdmitted

LEMMA StatesDisjoint ==
    /\ Active \cap Terminal = {}
    /\ Absent \notin Active \cup Terminal
    /\ RunState = Active \cup Terminal
BY DEF Active, Terminal, InFlight, Absent, RunState

LEMMA TransitionStates ==
    ASSUME NEW from, NEW to, ValidTransition(from, to)
    PROVE  from \in Active /\ to \in InFlight \cup Terminal
BY DEF ValidTransition, Active, InFlight, Terminal

LEMMA InvInit == Init => Inv
<1> SUFFICES ASSUME Init PROVE Inv
  OBVIOUS
<1>1. Rows
  <2>1. messages \in [Conversations -> Seq(Messages({}, {}))]
    BY DEF Init
  <2>2. events \in [Conversations -> Seq(Events({}))]
    BY DEF Init
  <2> QED  BY <2>1, <2>2 DEF Init, Rows
<1>2. ActiveAlone /\ MarkerFits /\ SettledTurns
  BY StatesDisjoint, TurnsAssumption DEF Init, ActiveAlone, MarkerFits, SettledTurns, Shown
<1>3. EventsAdmitted /\ Opened
  BY DEF Init, EventsAdmitted, Opened
<1>4. WorkerAdmitted
  BY DEF Init, WorkerAdmitted, Idle, Stages
<1> QED  BY <1>1, <1>2, <1>3, <1>4 DEF Inv, StoreInv

\* Rows stay rows when one is added.
LEMMA AppendEventRow ==
    ASSUME NEW T, events \in [Conversations -> Seq(Events(T))], NEW c \in Conversations,
           NEW x, NEW e \in Events({x}), events' = [events EXCEPT ![c] = Append(@, e)]
    PROVE  \E U : events' \in [Conversations -> Seq(Events(U))]
<1> DEFINE U == T \cup {x}
<1>1. Events(T) \subseteq Events(U) /\ e \in Events(U)
  BY DEF Events
<1> HIDE DEF U
<1>2. events \in [Conversations -> Seq(Events(U))]
  BY <1>1
<1>3. Append(events[c], e) \in Seq(Events(U))
  BY <1>1, <1>2
<1>4. events' \in [Conversations -> Seq(Events(U))]
  BY <1>2, <1>3
<1> QED  BY <1>4

LEMMA AppendMessageRow ==
    ASSUME NEW B, NEW N, messages \in [Conversations -> Seq(Messages(B, N))],
           NEW c \in Conversations, NEW x, NEW n, NEW m \in Messages({x}, {n}),
           \/ messages' = [messages EXCEPT ![c] = Append(@, m)]
           \/ \E i \in DOMAIN messages[c] : messages' = [messages EXCEPT ![c] = [@ EXCEPT ![i] = m]]
    PROVE  \E X, Y : messages' \in [Conversations -> Seq(Messages(X, Y))]
<1> DEFINE X == B \cup {x}
           Y == N \cup {n}
<1>1. Messages(B, N) \subseteq Messages(X, Y) /\ m \in Messages(X, Y)
  BY DEF Messages
<1> HIDE DEF X, Y
<1>2. messages \in [Conversations -> Seq(Messages(X, Y))]
  BY <1>1
<1>3. /\ Append(messages[c], m) \in Seq(Messages(X, Y))
      /\ \A i \in DOMAIN messages[c] : [messages[c] EXCEPT ![i] = m] \in Seq(Messages(X, Y))
  BY <1>1, <1>2
<1>4. messages' \in [Conversations -> Seq(Messages(X, Y))]
  BY <1>2, <1>3
<1> QED  BY <1>4

\* What settled events say of a turn outlasts an event of another turn, and one of its own
\* while it is active.
LEMMA EventsKept ==
    ASSUME NEW u \in Turns, NEW T, NEW e, events[ConversationOf[u]] \in Seq(Events(T)),
           events'[ConversationOf[u]] \in {events[ConversationOf[u]],
                                           Append(events[ConversationOf[u]], e)},
           e.turn = u => status[u] \notin Terminal /\ e.kind # "terminal",
           status'[u] = status[u], SettledEvents(u)
    PROVE  SettledEvents(u)'
<1> DEFINE es == events[ConversationOf[u]]
<1>1. CASE events'[ConversationOf[u]] = es
  BY <1>1 DEF SettledEvents
<1>2. CASE events'[ConversationOf[u]] = Append(es, e)
  <2> DEFINE new == events'[ConversationOf[u]]
  <2>1. /\ DOMAIN new = 1 .. Len(es) + 1 /\ DOMAIN es = 1 .. Len(es) /\ Len(es) \in Nat
        /\ new[Len(es) + 1] = e
        /\ \A j \in 1 .. Len(es) : new[j] = es[j]
    BY <1>2
  <2>2. CASE status[u] \in Terminal
    <3>1. PICK i \in DOMAIN es :
            /\ es[i] = TerminalEvent(u, status[u])
            /\ \A j \in DOMAIN es : es[j].turn = u /\ j # i => j < i /\ es[j].kind # "terminal"
      BY <2>2 DEF SettledEvents
    <3>2. i \in DOMAIN new /\ new[i] = TerminalEvent(u, status[u])
      BY <2>1, <3>1
    <3>3. ASSUME NEW j \in DOMAIN new, new[j].turn = u, j # i
          PROVE  j < i /\ new[j].kind # "terminal"
      <4>1. j \in 1 .. Len(es)
        BY <2>1, <2>2, <3>3
      <4> QED  BY <2>1, <3>1, <3>3, <4>1
    <3> QED  BY <2>2, <3>2, <3>3 DEF SettledEvents
  <2>3. CASE status[u] \notin Terminal
    <3>1. \A j \in DOMAIN new : new[j].turn = u => new[j].kind # "terminal"
      BY <2>1, <2>3 DEF SettledEvents
    <3> QED  BY <2>3, <3>1 DEF SettledEvents
  <2> QED  BY <2>2, <2>3
<1> QED  BY <1>1, <1>2

\* Following a run changes the state of a message and whether it is complete, nothing else.
LEMMA FollowFields ==
    ASSUME NEW B, NEW N, NEW m \in Messages(B, N), NEW state \in RunState
    PROVE  /\ Follow(m, state) \in Messages(B, N)
           /\ Follow(m, state).turn = m.turn
           /\ Says(Follow(m, state), state)
<1> DEFINE whole == (Bytes(m.body) = m.bytes)
<1>1. whole \in BOOLEAN
  OBVIOUS
<1>2. Follow(m, state) = [m EXCEPT !.state = state, !.complete = whole]
  BY DEF Follow
<1> HIDE DEF whole
<1>3. /\ Follow(m, state) \in Messages(B, N)
      /\ Follow(m, state).turn = m.turn
      /\ Follow(m, state).state = state
      /\ Follow(m, state).complete = whole
      /\ Follow(m, state).body = m.body
      /\ Follow(m, state).bytes = m.bytes
  BY <1>1, <1>2 DEF Messages
<1>4. whole = (Bytes(Follow(m, state).body) = Follow(m, state).bytes)
  BY <1>3, Zenon DEF whole
<1> QED  BY <1>3, <1>4, Zenon DEF Says

\* What a transition does to the events of its conversation: the marker is always written.
LEMMA TransitionEvents ==
    ASSUME StoreInv, NEW t \in Turns, NEW next, Transition(t, next)
    PROVE  LET c == ConversationOf[t]
           IN  events' = IF next \in Terminal
                         THEN [events EXCEPT ![c] = Append(@, TerminalEvent(t, next))]
                         ELSE events
<1> DEFINE c == ConversationOf[t]
<1>1. c \in Conversations
  BY TurnsAssumption
<1>2. status[t] \in Active
  BY TransitionStates DEF Transition
<1>3. conversation[c] = "open" /\ Len(events[c]) < MaxSequence
  BY <1>2 DEF StoreInv, MarkerFits
<1>4. SettledEvents(t)
  BY <1>2, <1>3, StatesDisjoint DEF StoreInv, SettledTurns, Shown
<1>5. \A i \in DOMAIN events[c] : events[c][i].turn = t => events[c][i].kind # "terminal"
  BY <1>2, <1>4, StatesDisjoint DEF SettledEvents
<1>6. SyncedEvents(events[c], t, next) =
        IF next \in Terminal THEN Append(events[c], TerminalEvent(t, next)) ELSE events[c]
  BY <1>3, <1>5 DEF SyncedEvents
<1>7. events' = [events EXCEPT ![c] = SyncedEvents(events[c], t, next)]
  BY DEF Transition
<1>8. PICK T : events \in [Conversations -> Seq(Events(T))]
  BY DEF StoreInv, Rows
<1> QED  BY <1>1, <1>6, <1>7, <1>8

\* The marker settles the events of an active turn.
LEMMA MarkerSettles ==
    ASSUME NEW t \in Turns, NEW T, NEW next \in Terminal, events[ConversationOf[t]] \in Seq(Events(T)),
           events'[ConversationOf[t]] = Append(events[ConversationOf[t]], TerminalEvent(t, next)),
           SettledEvents(t), status[t] \notin Terminal, status'[t] = next
    PROVE  SettledEvents(t)'
<1> DEFINE es  == events[ConversationOf[t]]
           new == events'[ConversationOf[t]]
<1>1. \A i \in DOMAIN es : es[i].turn = t => es[i].kind # "terminal"
  BY DEF SettledEvents
<1>2. /\ DOMAIN new = 1 .. Len(es) + 1 /\ DOMAIN es = 1 .. Len(es) /\ Len(es) \in Nat
      /\ new[Len(es) + 1] = TerminalEvent(t, next)
      /\ \A j \in 1 .. Len(es) : new[j] = es[j]
  OBVIOUS
<1>3. \A j \in DOMAIN new : new[j].turn = t /\ j # Len(es) + 1 =>
         j < Len(es) + 1 /\ new[j].kind # "terminal"
  BY <1>1, <1>2
<1> QED  BY <1>2, <1>3 DEF SettledEvents

\* Two states of the messages of a conversation, of which one turn is settled in between.
SyncedTo(ms, new, t, next) ==
    \A i \in DOMAIN new : /\ i \in DOMAIN ms
                          /\ new[i].turn = ms[i].turn
                          /\ ms[i].turn # t => new[i] = ms[i]
                          /\ ms[i].turn = t => Says(new[i], next)

\* sync_message_state changes the messages of its turn only, and settles them.
LEMMA SyncSettles ==
    ASSUME NEW B, NEW N, NEW ms \in Seq(Messages(B, N)), NEW t, NEW next \in RunState
    PROVE  /\ SyncedMessages(ms, t, next) \in Seq(Messages(B, N))
           /\ SyncedTo(ms, SyncedMessages(ms, t, next), t, next)
<1> DEFINE new == SyncedMessages(ms, t, next)
<1>1. DOMAIN new = DOMAIN ms /\ \A i \in DOMAIN ms : ms[i] \in Messages(B, N)
  BY DEF SyncedMessages
<1>2. ASSUME NEW i \in DOMAIN ms
      PROVE  /\ new[i] \in Messages(B, N)
             /\ new[i].turn = ms[i].turn
             /\ ms[i].turn # t => new[i] = ms[i]
             /\ ms[i].turn = t => Says(new[i], next)
  BY <1>1, FollowFields DEF SyncedMessages
<1>3. new \in Seq(Messages(B, N))
  BY <1>1, <1>2 DEF SyncedMessages
<1> HIDE DEF new
<1>4. SyncedTo(ms, new, t, next)
  BY <1>1, <1>2 DEF SyncedTo
<1> QED  BY <1>3, <1>4 DEF new

\* transition_run of a turn keeps everything that has been promised of the store.
LEMMA TransitionKeeps ==
    ASSUME StoreInv, NEW t \in Turns, NEW next, Transition(t, next)
    PROVE  StoreInv'
<1> DEFINE c == ConversationOf[t]
<1>1. c \in Conversations
  BY TurnsAssumption
<1>2. status[t] \in Active /\ next \in RunState /\ next # Absent
  BY TransitionStates, StatesDisjoint DEF Transition, Active
<1>3. /\ conversation' = conversation /\ conversation[c] = "open"
      /\ status' = [status EXCEPT ![t] = next]
      /\ messages' = [messages EXCEPT ![c] = SyncedMessages(messages[c], t, next)]
      /\ events' = IF next \in Terminal
                   THEN [events EXCEPT ![c] = Append(@, TerminalEvent(t, next))] ELSE events
  BY <1>2, TransitionEvents DEF Transition, StoreInv, MarkerFits
<1> HIDE DEF c
<1>4. PICK B, N : messages \in [Conversations -> Seq(Messages(B, N))]
  BY DEF StoreInv, Rows
<1>5. PICK T : events \in [Conversations -> Seq(Events(T))]
  BY DEF StoreInv, Rows
<1>6. status \in [Turns -> RunState \cup {Absent}]
  BY DEF StoreInv, Rows
<1>7. Rows'
  <2>1. SyncedMessages(messages[c], t, next) \in Seq(Messages(B, N))
    BY <1>1, <1>2, <1>4, SyncSettles
  <2>2. messages' \in [Conversations -> Seq(Messages(B, N))]
    BY <1>3, <1>4, <2>1
  <2>3. \E U : events' \in [Conversations -> Seq(Events(U))]
    <3>1. CASE next \in Terminal
      <4>1. TerminalEvent(t, next) \in Events({<<>>})
        BY <3>1 DEF TerminalEvent, Events
      <4> QED  BY <1>1, <1>3, <1>5, <3>1, <4>1, AppendEventRow
    <3>2. CASE next \notin Terminal
      BY <1>3, <1>5, <3>2
    <3> QED  BY <3>1, <3>2
  <2> QED  BY <1>2, <1>3, <1>6, <2>2, <2>3 DEF StoreInv, Rows
<1>8. \A u \in Turns : status'[u] \in Active => status[u] \in Active
  BY <1>2, <1>3, <1>6
<1>9. ActiveAlone'
  BY <1>8 DEF StoreInv, ActiveAlone
<1>10. MarkerFits'
  <2> SUFFICES ASSUME NEW u \in Turns, status'[u] \in Active
               PROVE  /\ conversation'[ConversationOf[u]] = "open"
                      /\ Len(events'[ConversationOf[u]]) < MaxSequence
    BY DEF MarkerFits
  <2>1. /\ conversation[ConversationOf[u]] = "open"
        /\ Len(events[ConversationOf[u]]) < MaxSequence
    BY <1>8 DEF StoreInv, MarkerFits
  <2>2. CASE u = t
    <3>1. next \notin Terminal
      BY <1>3, <1>6, <2>2, StatesDisjoint
    <3> QED  BY <1>3, <2>1, <3>1
  <2>3. CASE u # t
    <3>1. ConversationOf[u] # c
      BY <1>2, <1>8, <2>3 DEF StoreInv, ActiveAlone, c
    <3> QED  BY <1>3, <1>5, <2>1, <3>1
  <2> QED  BY <2>2, <2>3
<1>11. EventsAdmitted'
  <2> SUFFICES ASSUME NEW d \in Conversations, NEW i \in DOMAIN events'[d]
               PROVE  status'[events'[d][i].turn] # Absent
    BY DEF EventsAdmitted
  <2>1. i \in DOMAIN events[d] => /\ events[d][i].turn \in Turns
                                  /\ status[events[d][i].turn] # Absent
    <3>1. ASSUME NEW j \in DOMAIN events[d] PROVE events[d][j] \in Events(T)
      BY <1>5, <3>1
    <3> QED  BY <3>1 DEF StoreInv, EventsAdmitted, Events
  <2>2. CASE i \in DOMAIN events[d] /\ events'[d][i] = events[d][i]
    BY <1>2, <1>3, <1>6, <2>1, <2>2
  <2>3. CASE events'[d][i] = TerminalEvent(t, next)
    BY <1>2, <1>3, <1>6, <2>3 DEF TerminalEvent
  <2>4. \/ i \in DOMAIN events[d] /\ events'[d][i] = events[d][i]
        \/ events'[d][i] = TerminalEvent(t, next)
    BY <1>3, <1>5
  <2> QED  BY <2>2, <2>3, <2>4
<1>12. SettledEvents(t)'
  <2>1. SettledEvents(t) /\ status[t] \notin Terminal
    BY <1>2, <1>3, StatesDisjoint DEF StoreInv, SettledTurns, Shown, c
  <2>2. status'[t] = next /\ events[c] \in Seq(Events(T))
    BY <1>1, <1>3, <1>5, <1>6
  <2>3. CASE next \in Terminal
    <3>1. events'[c] = Append(events[c], TerminalEvent(t, next))
      BY <1>1, <1>3, <1>5, <2>3
    <3> QED  BY <2>1, <2>2, <2>3, <3>1, MarkerSettles DEF c
  <2>4. CASE next \notin Terminal
    BY <1>3, <2>1, <2>2, <2>4 DEF SettledEvents
  <2> QED  BY <2>3, <2>4
<1>13. ASSUME NEW d \in Conversations, NEW i \in DOMAIN messages'[d]
       PROVE  /\ i \in DOMAIN messages[d]
              /\ messages'[d][i].turn = messages[d][i].turn
              /\ messages[d][i].turn # t => messages'[d][i] = messages[d][i]
              /\ messages[d][i].turn = t /\ d = c => Says(messages'[d][i], next)
  <2>1. CASE d # c
    BY <1>3, <1>4, <1>13, <2>1
  <2>2. CASE d = c
    <3>1. messages'[c] = SyncedMessages(messages[c], t, next) /\ messages[c] \in Seq(Messages(B, N))
      BY <1>1, <1>3, <1>4
    <3>2. SyncedTo(messages[c], messages'[c], t, next)
      BY <1>2, <3>1, SyncSettles
    <3> QED  BY <1>13, <2>2, <3>2 DEF SyncedTo
  <2> QED  BY <2>1, <2>2
<1>14. SettledMessages(t)'
  <2>1. \A i \in DOMAIN messages'[c] : messages'[c][i].turn = t => Says(messages'[c][i], next)
    BY <1>1, <1>13
  <2>2. status'[t] = next
    BY <1>3, <1>6
  <2> QED  BY <2>1, <2>2 DEF SettledMessages, c
<1>15. ASSUME NEW u \in Turns, u # t, Shown(u)' PROVE SettledEvents(u)' /\ SettledMessages(u)'
  <2> DEFINE d == ConversationOf[u]
  <2>1. d \in Conversations
    BY TurnsAssumption
  <2>2. status'[u] = status[u] /\ Shown(u)
    BY <1>3, <1>6, <1>15 DEF Shown
  <2>3. SettledEvents(u) /\ SettledMessages(u)
    BY <2>2 DEF StoreInv, SettledTurns
  <2>4. SettledMessages(u)'
    <3>1. \A i \in DOMAIN messages'[d] : messages'[d][i].turn = u =>
              i \in DOMAIN messages[d] /\ messages'[d][i] = messages[d][i]
      BY <1>13, <1>15, <2>1
    <3> QED  BY <2>2, <2>3, <3>1 DEF SettledMessages
  <2>5. events[d] \in Seq(Events(T))
    BY <1>5, <2>1
  <2>6. events'[d] \in {events[d], Append(events[d], TerminalEvent(t, next))}
    BY <1>3, <1>5, <2>1
  <2>7. SettledEvents(u)'
    BY <1>15, <2>2, <2>3, <2>5, <2>6, EventsKept DEF TerminalEvent
  <2> QED  BY <2>4, <2>7
<1>16. SettledTurns'
  BY <1>12, <1>14, <1>15 DEF SettledTurns
<1>17. Opened'
  BY <1>2, <1>3, <1>6, StatesDisjoint DEF StoreInv, Opened, c
<1> QED  BY <1>7, <1>9, <1>10, <1>11, <1>16, <1>17 DEF StoreInv

\* An append of an active turn keeps a number for its marker.
LEMMA AppendKeeps ==
    ASSUME StoreInv, UNCHANGED <<conversation, status>>,
           NEW t \in Turns, status[t] \in Active, Room(ConversationOf[t]),
           NEW x, NEW e \in Events({x}), e.turn = t, e.kind # "terminal",
           events' = [events EXCEPT ![ConversationOf[t]] = Append(@, e)],
           \E X, Y : messages' \in [Conversations -> Seq(Messages(X, Y))],
           \A d \in Conversations : \A i \in DOMAIN messages'[d] :
              \/ messages'[d][i].turn = t
              \/ i \in DOMAIN messages[d] /\ messages'[d][i] = messages[d][i]
    PROVE  StoreInv'
<1> DEFINE c == ConversationOf[t]
<1>1. c \in Conversations
  BY TurnsAssumption
<1>2. PICK T : events \in [Conversations -> Seq(Events(T))]
  BY DEF StoreInv, Rows
<1>3. Rows'
  BY <1>1, <1>2, AppendEventRow DEF StoreInv, Rows
<1>4. ActiveAlone' /\ Opened'
  BY DEF StoreInv, ActiveAlone, Opened
<1>5. /\ events'[c] = Append(events[c], e) /\ events[c] \in Seq(Events(T))
      /\ \A d \in Conversations : d # c => events'[d] = events[d]
  BY <1>1, <1>2
<1>6. MarkerFits'
  <2>1. Len(events'[c]) < MaxSequence
    BY <1>5 DEF Room
  <2>2. ASSUME NEW u \in Turns, status[u] \in Active
        PROVE  Len(events'[ConversationOf[u]]) < MaxSequence
    <3>1. ConversationOf[u] \in Conversations
      BY TurnsAssumption
    <3> QED  BY <1>5, <2>1, <2>2, <3>1 DEF StoreInv, MarkerFits
  <2> QED  BY <2>2 DEF StoreInv, MarkerFits
<1>7. EventsAdmitted'
  <2> SUFFICES ASSUME NEW d \in Conversations, NEW i \in DOMAIN events'[d]
               PROVE  status[events'[d][i].turn] # Absent
    BY DEF EventsAdmitted
  <2>1. \/ i \in DOMAIN events[d] /\ events'[d][i] = events[d][i]
        \/ events'[d][i] = e
    BY <1>5
  <2> QED  BY <2>1, StatesDisjoint DEF StoreInv, EventsAdmitted
<1>8. ASSUME NEW u \in Turns, Shown(u)' PROVE SettledEvents(u)' /\ SettledMessages(u)'
  <2> DEFINE d == ConversationOf[u]
  <2>1. d \in Conversations
    BY TurnsAssumption
  <2>2. SettledEvents(u) /\ SettledMessages(u)
    BY <1>8 DEF StoreInv, SettledTurns, Shown
  <2>3. events[d] \in Seq(Events(T)) /\ events'[d] \in {events[d], Append(events[d], e)}
    BY <1>2, <1>5, <2>1
  <2>4. e.turn = u => status[u] \notin Terminal
    BY StatesDisjoint
  <2>5. SettledEvents(u)'
    BY <2>2, <2>3, <2>4, EventsKept
  <2>6. SettledMessages(u)'
    BY <2>1, <2>2, StatesDisjoint DEF SettledMessages
  <2> QED  BY <2>5, <2>6
<1> QED  BY <1>3, <1>4, <1>6, <1>7, <1>8 DEF StoreInv, SettledTurns

\* MessageAt finds a message of the turn or nothing.
LEMMA MessageFound ==
    ASSUME NEW t \in Turns, NEW role, MessageAt(t, role) # 0
    PROVE  /\ MessageAt(t, role) \in DOMAIN messages[ConversationOf[t]]
           /\ messages[ConversationOf[t]][MessageAt(t, role)].turn = t
           /\ messages[ConversationOf[t]][MessageAt(t, role)].role = role
BY DEF MessageAt

LEMMA NoMessage ==
    ASSUME NEW t \in Turns, NEW role, MessageAt(t, role) = 0, 0 \notin DOMAIN messages[ConversationOf[t]]
    PROVE  \A i \in DOMAIN messages[ConversationOf[t]] :
              messages[ConversationOf[t]][i].turn = t => messages[ConversationOf[t]][i].role # role
BY DEF MessageAt

LEMMA AppendChunkKeeps == Inv /\ AppendChunk => StoreInv'
<1> SUFFICES ASSUME Inv, AppendChunk PROVE StoreInv'
  OBVIOUS
<1> DEFINE t     == worker.turn
           c     == ConversationOf[t]
           chunk == Fit(rest, MaxDelta)
           i     == MessageAt(t, "assistant")
           body  == IF i = 0 THEN <<>> ELSE messages[c][i].body
           bytes == IF i = 0 THEN 0 ELSE messages[c][i].bytes
           x     == Extend(body, bytes, chunk)
           n     == bytes + Bytes(chunk)
           m     == [turn |-> t, role |-> "assistant", body |-> x, bytes |-> n,
                     complete |-> FALSE, state |-> "running"]
<1>1. t \in Turns /\ status[t] \in Active /\ Room(c)
  <2>1. At("streaming") /\ Accepts(t, chunk)
    BY DEF AppendChunk
  <2>2. t \in Turns /\ status[t] # Absent
    BY <2>1 DEF Inv, WorkerAdmitted, At
  <2>3. status[t] \in RunState \cup {Absent}
    BY <2>2 DEF Inv, StoreInv, Rows
  <2> QED  BY <2>1, <2>2, <2>3, StatesDisjoint DEF Accepts
<1>2. c \in Conversations
  BY <1>1, TurnsAssumption
<1>3. /\ UNCHANGED <<conversation, status>>
      /\ events' = [events EXCEPT ![c] = Append(@, TextEvent(t, chunk))]
      /\ messages' = [messages EXCEPT ![c] = WithText(messages[c], t, chunk)]
  BY DEF AppendChunk
<1>4. WithText(messages[c], t, chunk) =
        IF i = 0 THEN Append(messages[c], m) ELSE [messages[c] EXCEPT ![i] = m]
  BY DEF WithText
<1>5. m \in Messages({x}, {n}) /\ m.turn = t
  BY <1>1 DEF Messages, RunState, InFlight
<1>6. i # 0 => i \in DOMAIN messages[c]
  BY <1>1, MessageFound
<1>7. /\ TextEvent(t, chunk) \in Events({chunk}) /\ TextEvent(t, chunk).turn = t
      /\ TextEvent(t, chunk).kind # "terminal"
  BY <1>1 DEF TextEvent, Events
<1> HIDE DEF t, c, chunk, i, body, bytes, x, n, m
<1>8. PICK B, N : messages \in [Conversations -> Seq(Messages(B, N))]
  BY DEF Inv, StoreInv, Rows
<1>9. \/ messages' = [messages EXCEPT ![c] = Append(@, m)]
      \/ \E j \in DOMAIN messages[c] : messages' = [messages EXCEPT ![c] = [@ EXCEPT ![j] = m]]
  BY <1>3, <1>4, <1>6
<1>10. \E X, Y : messages' \in [Conversations -> Seq(Messages(X, Y))]
  BY <1>2, <1>5, <1>8, <1>9, AppendMessageRow
<1>11. ASSUME NEW d \in Conversations, NEW j \in DOMAIN messages'[d]
       PROVE  \/ messages'[d][j].turn = t
              \/ j \in DOMAIN messages[d] /\ messages'[d][j] = messages[d][j]
  <2>1. messages[d] \in Seq(Messages(B, N))
    BY <1>8
  <2>2. CASE d # c
    BY <1>3, <1>8, <1>11, <2>2
  <2>3. CASE d = c /\ messages'[c] = Append(messages[c], m)
    BY <1>5, <1>11, <2>1, <2>3
  <2>4. ASSUME NEW k \in DOMAIN messages[c], d = c, messages'[c] = [messages[c] EXCEPT ![k] = m]
        PROVE  \/ messages'[d][j].turn = t
               \/ j \in DOMAIN messages[d] /\ messages'[d][j] = messages[d][j]
    BY <1>5, <1>11, <2>4
  <2>5. \/ messages'[c] = Append(messages[c], m)
        \/ \E k \in DOMAIN messages[c] : messages'[c] = [messages[c] EXCEPT ![k] = m]
    BY <1>2, <1>8, <1>9
  <2> QED  BY <2>2, <2>3, <2>4, <2>5
<1> QED  BY <1>1, <1>3, <1>7, <1>10, <1>11, AppendKeeps DEF Inv, c

\* The notice of a context that was cut.
LEMMA BuildPromptKeeps == Inv /\ BuildPrompt => StoreInv'
<1> SUFFICES ASSUME Inv, BuildPrompt PROVE StoreInv'
  OBVIOUS
<1> DEFINE t == worker.turn
           c == ConversationOf[t]
<1>1. t \in Turns /\ status[t] \in RunState
  BY DEF Inv, StoreInv, Rows, WorkerAdmitted, BuildPrompt, At
<1>2. /\ UNCHANGED <<conversation, status, messages>>
      /\ \/ events' = events
         \/ /\ status[t] \notin Terminal /\ Room(c)
            /\ events' = [events EXCEPT ![c] = Append(@, NoticeEvent(t))]
  BY DEF BuildPrompt
<1>3. CASE events' = events
  BY <1>2, <1>3 DEF Inv, StoreInv, Rows, ActiveAlone, MarkerFits, Opened, EventsAdmitted,
     SettledTurns, SettledEvents, SettledMessages, Shown
<1>4. CASE /\ status[t] \notin Terminal /\ Room(c)
           /\ events' = [events EXCEPT ![c] = Append(@, NoticeEvent(t))]
  <2>1. status[t] \in Active
    BY <1>1, <1>4, StatesDisjoint
  <2>2. /\ NoticeEvent(t) \in Events({<<>>}) /\ NoticeEvent(t).turn = t
        /\ NoticeEvent(t).kind # "terminal"
    BY <1>1 DEF NoticeEvent, Events
  <2>3. \E X, Y : messages' \in [Conversations -> Seq(Messages(X, Y))]
    BY <1>2 DEF Inv, StoreInv, Rows
  <2> QED  BY <1>1, <1>2, <1>4, <2>1, <2>2, <2>3, AppendKeeps DEF Inv
<1> QED  BY <1>2, <1>3, <1>4

\* Admission finds two free numbers, no active turn and no event of the new one.
LEMMA AdmitKeeps ==
    ASSUME Inv, NEW t \in Turns, AdmitTurn(t)
    PROVE  StoreInv'
<1> DEFINE c == ConversationOf[t]
<1>1. c \in Conversations
  BY TurnsAssumption
<1>2. /\ status[t] = Absent /\ conversation[c] = "open" /\ ActiveTurns(c) = {}
      /\ Len(events[c]) <= MaxSequence - 2
      /\ status' = [status EXCEPT ![t] = "queued"]
      /\ messages' = [messages EXCEPT ![c] = Append(@, Question(t))]
      /\ UNCHANGED <<conversation, events>>
  BY DEF AdmitTurn
<1>3. PICK B, N : messages \in [Conversations -> Seq(Messages(B, N))]
  BY DEF Inv, StoreInv, Rows
<1>4. PICK T : events \in [Conversations -> Seq(Events(T))]
  BY DEF Inv, StoreInv, Rows
<1>5. status \in [Turns -> RunState \cup {Absent}]
  BY DEF Inv, StoreInv, Rows
<1>6. \A u \in Turns : u # t => status'[u] = status[u]
  BY <1>2, <1>5
<1>7. status'[t] = "queued" /\ "queued" \in Active /\ "queued" \in RunState \ Terminal
  BY <1>2, <1>5, StatesDisjoint DEF Active
<1>8. \A u \in Turns : u # t /\ ConversationOf[u] = c => status[u] \notin Active
  BY <1>2, StatesDisjoint DEF ActiveTurns, TurnsOf
<1>9. Rows'
  <2>1. Question(t) \in Messages({Input[t]}, {Bytes(Input[t])})
    BY <1>7 DEF Question, Messages
  <2>2. \E X, Y : messages' \in [Conversations -> Seq(Messages(X, Y))]
    BY <1>1, <1>2, <1>3, <2>1, AppendMessageRow
  <2> QED  BY <1>2, <1>5, <1>7, <2>2 DEF Inv, StoreInv, Rows
<1>10. ActiveAlone'
  BY <1>6, <1>7, <1>8 DEF Inv, StoreInv, ActiveAlone
<1>11. MarkerFits'
  <2>1. Len(events[c]) < MaxSequence
    <3>1. Len(events[c]) \in Nat
      BY <1>1, <1>4
    <3> QED  BY <1>2, <3>1, SizesAssumption
  <2> QED  BY <1>2, <1>6, <2>1 DEF Inv, StoreInv, MarkerFits
<1>12. Opened'
  BY <1>2, <1>6 DEF Inv, StoreInv, Opened
<1>13. EventsAdmitted'
  <2> SUFFICES ASSUME NEW d \in Conversations, NEW i \in DOMAIN events[d]
               PROVE  status'[events[d][i].turn] # Absent
    BY <1>2 DEF EventsAdmitted
  <2>1. events[d][i].turn \in Turns
    <3>1. events[d][i] \in Events(T)
      BY <1>4
    <3> QED  BY <3>1 DEF Events
  <2> QED  BY <1>6, <1>7, <2>1, StatesDisjoint DEF Inv, StoreInv, EventsAdmitted
<1>14. SettledEvents(t)' /\ SettledMessages(t)'
  <2>1. \A i \in DOMAIN events[c] : events[c][i].turn # t
    BY <1>1, <1>2 DEF Inv, StoreInv, EventsAdmitted
  <2> QED  BY <1>2, <1>7, <2>1 DEF SettledEvents, SettledMessages
<1>15. ASSUME NEW u \in Turns, u # t, Shown(u)' PROVE SettledEvents(u)' /\ SettledMessages(u)'
  <2> DEFINE d == ConversationOf[u]
  <2>1. SettledEvents(u) /\ SettledMessages(u) /\ status'[u] = status[u]
    BY <1>2, <1>6, <1>15 DEF Inv, StoreInv, SettledTurns, Shown
  <2>2. SettledEvents(u)'
    BY <1>2, <2>1 DEF SettledEvents
  <2>3. d \in Conversations /\ messages[d] \in Seq(Messages(B, N))
    BY <1>3, TurnsAssumption
  <2>4. messages'[d] = messages[d] \/ messages'[d] = Append(messages[d], Question(t))
    BY <1>2, <1>3, <2>3
  <2>5. ASSUME NEW i \in DOMAIN messages'[d], messages'[d][i].turn = u
        PROVE  i \in DOMAIN messages[d] /\ messages'[d][i] = messages[d][i]
    <3>1. Question(t).turn # u
      BY <1>15 DEF Question
    <3> QED  BY <2>3, <2>4, <2>5, <3>1
  <2>6. SettledMessages(u)'
    BY <2>1, <2>5 DEF SettledMessages
  <2> QED  BY <2>2, <2>6
<1>16. SettledTurns'
  BY <1>14, <1>15 DEF SettledTurns
<1> QED  BY <1>9, <1>10, <1>11, <1>12, <1>13, <1>16 DEF StoreInv

\* No turn has been admitted to a conversation that is created.
LEMMA CreateKeeps ==
    ASSUME Inv, NEW c \in Conversations, CreateConversation(c)
    PROVE  StoreInv'
<1>1. /\ conversation[c] = "absent" /\ conversation' = [conversation EXCEPT ![c] = "open"]
      /\ UNCHANGED <<status, messages, events>>
  BY DEF CreateConversation
<1>2. Rows' /\ ActiveAlone' /\ EventsAdmitted'
  BY <1>1 DEF Inv, StoreInv, Rows, ActiveAlone, EventsAdmitted
<1>3. conversation \in [Conversations -> {"absent", "open", "deleted"}]
  BY DEF Inv, StoreInv, Rows
<1>4. \A t \in Turns : status[t] # Absent => conversation'[ConversationOf[t]] = conversation[ConversationOf[t]]
  BY <1>1, <1>3, TurnsAssumption DEF Inv, StoreInv, Opened
<1>5. MarkerFits' /\ Opened'
  BY <1>1, <1>4, StatesDisjoint DEF Inv, StoreInv, MarkerFits, Opened
<1>6. SettledTurns'
  BY <1>1, <1>4 DEF Inv, StoreInv, SettledTurns, SettledEvents, SettledMessages, Shown
<1> QED  BY <1>2, <1>5, <1>6 DEF StoreInv

\* Deletion takes all rows of a conversation without active turns.
LEMMA DeleteKeeps ==
    ASSUME Inv, NEW c \in Conversations, DeleteConversation(c)
    PROVE  StoreInv'
<1>1. /\ conversation[c] = "open" /\ ActiveTurns(c) = {}
      /\ conversation' = [conversation EXCEPT ![c] = "deleted"]
      /\ messages' = [messages EXCEPT ![c] = <<>>]
      /\ events' = [events EXCEPT ![c] = <<>>]
      /\ UNCHANGED status
  BY DEF DeleteConversation
<1>2. PICK B, N : messages \in [Conversations -> Seq(Messages(B, N))]
  BY DEF Inv, StoreInv, Rows
<1>3. PICK T : events \in [Conversations -> Seq(Events(T))]
  BY DEF Inv, StoreInv, Rows
<1>4. Rows'
  <2>1. messages' \in [Conversations -> Seq(Messages(B, N))]
    BY <1>1, <1>2
  <2>2. events' \in [Conversations -> Seq(Events(T))]
    BY <1>1, <1>3
  <2>3. conversation' \in [Conversations -> {"absent", "open", "deleted"}]
    BY <1>1 DEF Inv, StoreInv, Rows
  <2> QED  BY <1>1, <2>1, <2>2, <2>3 DEF Inv, StoreInv, Rows
<1>5. \A d \in Conversations : d # c => /\ conversation'[d] = conversation[d]
                                        /\ messages'[d] = messages[d] /\ events'[d] = events[d]
  BY <1>1, <1>2, <1>3 DEF Inv, StoreInv, Rows
<1>6. conversation'[c] = "deleted" /\ events'[c] = <<>>
  BY <1>1, <1>3 DEF Inv, StoreInv, Rows
<1>7. \A t \in Turns : ConversationOf[t] \in Conversations /\ status'[t] = status[t]
  BY <1>1, TurnsAssumption
<1>8. ActiveAlone'
  BY <1>1 DEF Inv, StoreInv, ActiveAlone
<1>9. \A t \in Turns : status[t] \in Active => ConversationOf[t] # c
  BY <1>1, StatesDisjoint DEF ActiveTurns, TurnsOf
<1>10. MarkerFits' /\ Opened'
  BY <1>5, <1>6, <1>7, <1>9 DEF Inv, StoreInv, MarkerFits, Opened
<1>11. EventsAdmitted'
  BY <1>1, <1>5, <1>6 DEF Inv, StoreInv, EventsAdmitted
<1>12. ASSUME NEW t \in Turns, Shown(t)' PROVE SettledEvents(t)' /\ SettledMessages(t)'
  <2>1. ConversationOf[t] # c
    BY <1>6, <1>12 DEF Shown
  <2>2. Shown(t)
    BY <1>5, <1>7, <1>12, <2>1 DEF Shown
  <2>3. SettledEvents(t) /\ SettledMessages(t)
    BY <2>2 DEF Inv, StoreInv, SettledTurns
  <2> QED  BY <1>5, <1>7, <2>1, <2>3 DEF SettledEvents, SettledMessages
<1> QED  BY <1>4, <1>8, <1>10, <1>11, <1>12 DEF StoreInv, SettledTurns

\* v4_finalize_turn writes what the transition has already written.
LEMMA FinalizeKeeps == Inv /\ Finalize => StoreInv'
<1> SUFFICES ASSUME Inv, Finalize PROVE StoreInv'
  OBVIOUS
<1> DEFINE t == worker.turn
           c == ConversationOf[t]
           i == MessageAt(t, "assistant")
<1>1. t \in Turns /\ status[t] \in RunState
  BY DEF Inv, StoreInv, Rows, WorkerAdmitted, Finalize, At
<1>2. c \in Conversations
  BY <1>1, TurnsAssumption
<1>3. /\ UNCHANGED <<conversation, status, events>>
      /\ messages' = IF i = 0 THEN messages
                     ELSE [messages EXCEPT ![c][i] = Follow(messages[c][i], status[t])]
  BY DEF Finalize
<1>4. i # 0 => i \in DOMAIN messages[c] /\ messages[c][i].turn = t
  BY <1>1, MessageFound
<1>5. PICK B, N : messages \in [Conversations -> Seq(Messages(B, N))]
  BY DEF Inv, StoreInv, Rows
<1> HIDE DEF c, i
<1>6. ASSUME i # 0
      PROVE  /\ Follow(messages[c][i], status[t]) \in Messages(B, N)
             /\ Follow(messages[c][i], status[t]).turn = t
             /\ Says(Follow(messages[c][i], status[t]), status[t])
  <2>1. messages[c][i] \in Messages(B, N)
    BY <1>2, <1>4, <1>5, <1>6
  <2> QED  BY <1>1, <1>4, <1>6, <2>1, FollowFields
<1>7. messages' \in [Conversations -> Seq(Messages(B, N))]
  <2>1. CASE i = 0
    BY <1>3, <1>5, <2>1
  <2>2. CASE i # 0
    <3>1. [messages[c] EXCEPT ![i] = Follow(messages[c][i], status[t])] \in Seq(Messages(B, N))
      BY <1>2, <1>4, <1>5, <1>6, <2>2
    <3> QED  BY <1>2, <1>3, <1>5, <2>2, <3>1
  <2> QED  BY <2>1, <2>2
<1>8. Rows' /\ ActiveAlone' /\ MarkerFits' /\ Opened' /\ EventsAdmitted'
  BY <1>3, <1>7 DEF Inv, StoreInv, Rows, ActiveAlone, MarkerFits, Opened, EventsAdmitted
<1>9. ASSUME NEW d \in Conversations, NEW j \in DOMAIN messages'[d]
      PROVE  /\ j \in DOMAIN messages[d]
             /\ \/ messages'[d][j] = messages[d][j]
                \/ messages'[d][j].turn = t /\ Says(messages'[d][j], status[t])
  BY <1>2, <1>3, <1>4, <1>5, <1>6, <1>9
<1>10. ASSUME NEW u \in Turns, Shown(u)' PROVE SettledEvents(u)' /\ SettledMessages(u)'
  <2>1. SettledEvents(u) /\ SettledMessages(u)
    BY <1>3, <1>10 DEF Inv, StoreInv, SettledTurns, Shown
  <2>2. SettledEvents(u)'
    BY <1>3, <2>1 DEF SettledEvents
  <2>3. ConversationOf[u] \in Conversations
    BY TurnsAssumption
  <2>4. SettledMessages(u)'
    BY <1>3, <1>9, <2>1, <2>3 DEF SettledMessages
  <2> QED  BY <2>2, <2>4
<1> QED  BY <1>8, <1>10 DEF StoreInv, SettledTurns

\* Recovery interrupts the one active turn that a conversation can have in flight.
LEMMA RestartKeeps == Inv /\ Restart => StoreInv'
<1> SUFFICES ASSUME Inv, Restart PROVE StoreInv'
  OBVIOUS
<1> DEFINE interrupted == {t \in Turns : status[t] \in InFlight}
           Of(c)       == {t \in interrupted : ConversationOf[t] = c}
           The(c)      == CHOOSE t \in Of(c) : TRUE
<1>1. /\ status' = [t \in Turns |-> IF t \in interrupted THEN "interrupted" ELSE status[t]]
      /\ messages' = [c \in Conversations |->
                         IF Of(c) = {} THEN messages[c]
                         ELSE SyncedMessages(messages[c], The(c), "interrupted")]
      /\ events' = [c \in Conversations |->
                         IF Of(c) = {} THEN events[c]
                         ELSE SyncedEvents(events[c], The(c), "interrupted")]
      /\ conversation' = conversation
  BY DEF Restart
<1>2. PICK B, N : messages \in [Conversations -> Seq(Messages(B, N))]
  BY DEF Inv, StoreInv, Rows
<1>3. PICK T : events \in [Conversations -> Seq(Events(T))]
  BY DEF Inv, StoreInv, Rows
<1>4. status \in [Turns -> RunState \cup {Absent}]
  BY DEF Inv, StoreInv, Rows
<1>5. /\ "interrupted" \in Terminal /\ "interrupted" \in RunState
      /\ "interrupted" \notin Active /\ "interrupted" # Absent /\ InFlight \subseteq Active
  BY StatesDisjoint DEF Terminal, RunState, Active, Absent
<1>6. ASSUME NEW c \in Conversations, Of(c) # {}
      PROVE  /\ The(c) \in Turns /\ ConversationOf[The(c)] = c
             /\ status[The(c)] \in InFlight /\ Of(c) = {The(c)}
  <2>1. The(c) \in Of(c)
    BY <1>6
  <2> HIDE DEF The
  <2>2. \A u \in Of(c) : u = The(c)
    BY <1>5, <2>1 DEF Inv, StoreInv, ActiveAlone
  <2> QED  BY <2>1, <2>2
<1>7. ASSUME NEW c \in Conversations, Of(c) # {}
      PROVE  events'[c] = Append(events[c], TerminalEvent(The(c), "interrupted"))
  <2> DEFINE t == The(c)
  <2>1. t \in Turns /\ ConversationOf[t] = c /\ status[t] \in Active
    BY <1>5, <1>6, <1>7
  <2>2. events'[c] = SyncedEvents(events[c], t, "interrupted")
    BY <1>1, <1>7
  <2> HIDE DEF t
  <2>3. conversation[c] = "open" /\ Len(events[c]) < MaxSequence
    BY <2>1 DEF Inv, StoreInv, MarkerFits
  <2>4. SettledEvents(t)
    BY <2>1, <2>3, StatesDisjoint DEF Inv, StoreInv, SettledTurns, Shown
  <2>5. \A i \in DOMAIN events[c] : events[c][i].turn = t => events[c][i].kind # "terminal"
    BY <2>1, <2>4, StatesDisjoint DEF SettledEvents
  <2>6. events'[c] = Append(events[c], TerminalEvent(t, "interrupted"))
    BY <1>5, <2>2, <2>3, <2>5 DEF SyncedEvents
  <2> QED  BY <2>6 DEF t
<1>8. ASSUME NEW c \in Conversations, Of(c) # {}
      PROVE  /\ messages'[c] \in Seq(Messages(B, N))
             /\ SyncedTo(messages[c], messages'[c], The(c), "interrupted")
  <2> DEFINE t == The(c)
  <2>1. /\ messages[c] \in Seq(Messages(B, N))
        /\ messages'[c] = SyncedMessages(messages[c], t, "interrupted")
    BY <1>1, <1>2, <1>8
  <2> HIDE DEF t
  <2>2. /\ messages'[c] \in Seq(Messages(B, N))
        /\ SyncedTo(messages[c], messages'[c], t, "interrupted")
    BY <1>5, <2>1, SyncSettles
  <2> QED  BY <2>2 DEF t
<1>9. ASSUME NEW c \in Conversations, Of(c) = {}
      PROVE  events'[c] = events[c] /\ messages'[c] = messages[c]
  BY <1>1, <1>9
<1>10. \A u \in Turns : /\ u \in Of(ConversationOf[u]) => status'[u] = "interrupted"
                        /\ u \notin Of(ConversationOf[u]) => status'[u] = status[u]
  BY <1>1
<1>11. /\ messages' = [c \in Conversations |-> messages'[c]]
       /\ events' = [c \in Conversations |-> events'[c]]
       /\ status' = [t \in Turns |-> status'[t]]
  BY <1>1
<1> HIDE DEF Of, The, interrupted
<1>13. Rows'
  <2>1. ASSUME NEW c \in Conversations PROVE messages'[c] \in Seq(Messages(B, N))
    <3>1. CASE Of(c) = {}
      BY <1>2, <1>9, <3>1
    <3>2. CASE Of(c) # {}
      BY <1>8, <3>2
    <3> QED  BY <3>1, <3>2
  <2>2. messages' \in [Conversations -> Seq(Messages(B, N))]
    BY <1>11, <2>1
  <2> DEFINE U == T \cup {<<>>}
  <2>3. Events(T) \subseteq Events(U) /\ <<>> \in U
    BY DEF Events
  <2> HIDE DEF U
  <2>4. ASSUME NEW c \in Conversations PROVE events'[c] \in Seq(Events(U))
    <3>2. events[c] \in Seq(Events(U))
      BY <1>3, <2>3
    <3>3. CASE Of(c) = {}
      BY <1>9, <3>2, <3>3
    <3>4. CASE Of(c) # {}
      <4>1. TerminalEvent(The(c), "interrupted") \in Events(U)
        BY <1>5, <1>6, <2>3, <3>4 DEF TerminalEvent, Events
      <4> QED  BY <1>7, <3>2, <3>4, <4>1
    <3> QED  BY <3>3, <3>4
  <2>5. events' \in [Conversations -> Seq(Events(U))]
    BY <1>11, <2>4
  <2>6. status' \in [Turns -> RunState \cup {Absent}]
    BY <1>4, <1>5, <1>10, <1>11
  <2> QED  BY <1>1, <2>2, <2>5, <2>6 DEF Inv, StoreInv, Rows
<1>14. \A u \in Turns : status'[u] \in Active => /\ status[u] \in Active
                                                 /\ Of(ConversationOf[u]) = {}
  <2> SUFFICES ASSUME NEW u \in Turns, status'[u] \in Active
               PROVE  status[u] \in Active /\ Of(ConversationOf[u]) = {}
    OBVIOUS
  <2>1. u \notin Of(ConversationOf[u]) /\ status[u] \in Active
    BY <1>5, <1>10
  <2>2. ConversationOf[u] \in Conversations
    BY TurnsAssumption
  <2>3. Of(ConversationOf[u]) = {}
    BY <1>5, <1>6, <2>1, <2>2 DEF Inv, StoreInv, ActiveAlone
  <2> QED  BY <2>1, <2>3
<1>15. ActiveAlone'
  BY <1>14 DEF Inv, StoreInv, ActiveAlone
<1>16. MarkerFits'
  BY <1>1, <1>9, <1>14, TurnsAssumption DEF Inv, StoreInv, MarkerFits
<1>17. \A u \in Turns : status[u] # Absent <=> status'[u] # Absent
  <2>1. \A u \in Turns : u \in Of(ConversationOf[u]) => status[u] \in InFlight
    BY DEF Of, interrupted
  <2> QED  BY <1>5, <1>10, <2>1, StatesDisjoint
<1>18. Opened'
  BY <1>1, <1>17 DEF Inv, StoreInv, Opened
<1>19. EventsAdmitted'
  <2> SUFFICES ASSUME NEW c \in Conversations, NEW i \in DOMAIN events'[c]
               PROVE  status'[events'[c][i].turn] # Absent
    BY DEF EventsAdmitted
  <2>1. events[c] \in Seq(Events(T))
    BY <1>3
  <2>2. CASE i \in DOMAIN events[c] /\ events'[c][i] = events[c][i]
    <3>1. events[c][i] \in Events(T)
      BY <2>1, <2>2
    <3> QED  BY <1>17, <2>2, <3>1 DEF Inv, StoreInv, EventsAdmitted, Events
  <2>3. CASE Of(c) # {} /\ events'[c][i] = TerminalEvent(The(c), "interrupted")
    <3>1. The(c) \in Turns /\ status[The(c)] # Absent
      BY <1>5, <1>6, <2>3, StatesDisjoint
    <3> QED  BY <1>17, <2>3, <3>1 DEF TerminalEvent
  <2>4. \/ i \in DOMAIN events[c] /\ events'[c][i] = events[c][i]
        \/ Of(c) # {} /\ events'[c][i] = TerminalEvent(The(c), "interrupted")
    BY <1>7, <1>9, <2>1
  <2> QED  BY <2>2, <2>3, <2>4
<1>20. ASSUME NEW u \in Turns, Shown(u)' PROVE SettledEvents(u)' /\ SettledMessages(u)'
  <2> DEFINE c == ConversationOf[u]
  <2>1. c \in Conversations /\ events[c] \in Seq(Events(T))
    BY <1>3, TurnsAssumption
  <2>2. SettledEvents(u) /\ SettledMessages(u)
    BY <1>1, <1>17, <1>20 DEF Inv, StoreInv, SettledTurns, Shown
  <2>3. CASE Of(c) = {}
    BY <1>9, <1>10, <2>1, <2>2, <2>3 DEF SettledEvents, SettledMessages
  <2>4. CASE Of(c) # {} /\ u = The(c)
    <3>1. status[u] \notin Terminal /\ status'[u] = "interrupted"
      BY <1>5, <1>6, <1>10, <2>1, <2>4, StatesDisjoint
    <3>2. SettledEvents(u)'
      BY <1>5, <1>7, <2>1, <2>2, <2>4, <3>1, MarkerSettles
    <3>3. \A i \in DOMAIN messages'[c] : messages'[c][i].turn = u => Says(messages'[c][i], "interrupted")
      BY <1>8, <2>1, <2>4 DEF SyncedTo
    <3> QED  BY <3>1, <3>2, <3>3 DEF SettledMessages
  <2>5. CASE Of(c) # {} /\ u # The(c)
    <3>1. status'[u] = status[u]
      BY <1>6, <1>10, <2>1, <2>5
    <3>2. TerminalEvent(The(c), "interrupted").turn # u
      BY <2>5 DEF TerminalEvent
    <3>3. SettledEvents(u)'
      BY <1>7, <2>1, <2>2, <2>5, <3>1, <3>2, EventsKept
    <3>4. \A i \in DOMAIN messages'[c] : messages'[c][i].turn = u =>
              i \in DOMAIN messages[c] /\ messages'[c][i] = messages[c][i]
      BY <1>8, <2>1, <2>5 DEF SyncedTo
    <3> QED  BY <2>2, <3>1, <3>3, <3>4 DEF SettledMessages
  <2> QED  BY <2>3, <2>4, <2>5
<1> QED  BY <1>13, <1>15, <1>16, <1>18, <1>19, <1>20 DEF StoreInv, SettledTurns

LEMMA UnchangedKeeps ==
    ASSUME StoreInv, UNCHANGED durable
    PROVE  StoreInv'
BY DEF durable, StoreInv, Rows, ActiveAlone, MarkerFits, Opened, EventsAdmitted,
   SettledTurns, SettledEvents, SettledMessages, Shown

\* No step takes back the admission of a turn.
LEMMA AdmittedStays ==
    ASSUME Inv, NEW t \in Turns, NEW next, Transition(t, next)
    PROVE  \A u \in Turns : status[u] # Absent => status'[u] # Absent
<1>1. next # Absent
  BY TransitionStates, StatesDisjoint DEF Transition, Active
<1> QED  BY <1>1 DEF Transition, Inv, StoreInv, Rows

\* One step per action.
LEMMA InvStep == Inv /\ [Next]_vars => Inv'
<1> SUFFICES ASSUME Inv, [Next]_vars PROVE Inv'
  OBVIOUS
<1>1. WorkerAdmitted
  BY DEF Inv
<1>2. ASSUME NEW c \in Conversations, CreateConversation(c) PROVE Inv'
  <2>1. WorkerAdmitted'
    BY <1>1, <1>2 DEF CreateConversation, WorkerAdmitted
  <2> QED  BY <1>2, <2>1, CreateKeeps DEF Inv
<1>3. ASSUME NEW c \in Conversations, DeleteConversation(c) PROVE Inv'
  <2>1. WorkerAdmitted'
    BY <1>1, <1>3 DEF DeleteConversation, WorkerAdmitted
  <2> QED  BY <1>3, <2>1, DeleteKeeps DEF Inv
<1>4. ASSUME NEW t \in Turns, AdmitTurn(t) PROVE Inv'
  <2>1. WorkerAdmitted'
    <3>1. status' = [status EXCEPT ![t] = "queued"] /\ worker' = worker
      BY <1>4 DEF AdmitTurn
    <3> QED  BY <1>1, <3>1 DEF WorkerAdmitted, Inv, StoreInv, Rows, Absent
  <2> QED  BY <1>4, <2>1, AdmitKeeps DEF Inv
<1>5. ASSUME NEW t \in Turns, Drop(t) \/ Cancel(t) PROVE Inv'
  <2>1. PICK next : Transition(t, next)
    BY <1>5 DEF Drop, Cancel
  <2>2. worker' = worker
    BY <1>5 DEF Drop, Cancel
  <2>3. WorkerAdmitted'
    BY <1>1, <2>1, <2>2, AdmittedStays DEF WorkerAdmitted
  <2> QED  BY <2>1, <2>3, TransitionKeeps DEF Inv
<1>6. ASSUME NEW t \in Turns, WorkerStart(t) PROVE Inv'
  <2>1. Transition(t, "starting") /\ worker' = [turn |-> t, stage |-> "starting", invalid |-> FALSE]
    BY <1>6 DEF WorkerStart
  <2>2. status[t] # Absent
    BY <2>1, TransitionStates, StatesDisjoint DEF Transition
  <2>3. WorkerAdmitted'
    BY <2>1, <2>2, AdmittedStays DEF WorkerAdmitted, Stages
  <2> QED  BY <2>1, <2>3, TransitionKeeps DEF Inv
<1>7. ASSUME WorkerRun \/ Settle \/ InterruptAdmitted PROVE Inv'
  <2> DEFINE t == worker.turn
  <2>1. worker.stage # "idle"
    BY <1>7 DEF WorkerRun, Settle, InterruptAdmitted, At
  <2>2. t \in Turns /\ status[t] # Absent
    BY <1>1, <2>1 DEF WorkerAdmitted
  <2>3. PICK next : Transition(t, next)
    BY <1>7 DEF WorkerRun, Settle, InterruptAdmitted
  <2>4. worker' = worker \/ \E stage \in Stages : worker' = [worker EXCEPT !.stage = stage]
    BY <1>7 DEF WorkerRun, Settle, InterruptAdmitted, Goto, Stages
  <2>5. WorkerAdmitted'
    BY <1>1, <2>2, <2>3, <2>4, AdmittedStays DEF WorkerAdmitted
  <2> QED  BY <2>2, <2>3, <2>5, TransitionKeeps DEF Inv
<1>8. CASE BuildPrompt
  <2>1. WorkerAdmitted'
    BY <1>1, <1>8 DEF BuildPrompt, Goto, At, WorkerAdmitted, Stages
  <2> QED  BY <1>8, <2>1, BuildPromptKeeps DEF Inv
<1>9. CASE AppendChunk
  <2>1. WorkerAdmitted'
    BY <1>1, <1>9 DEF AppendChunk, WorkerAdmitted
  <2> QED  BY <1>9, <2>1, AppendChunkKeeps DEF Inv
<1>10. CASE Finalize
  <2>1. WorkerAdmitted'
    BY <1>1, <1>10 DEF Finalize, WorkerAdmitted, Idle, Stages
  <2> QED  BY <1>10, <2>1, FinalizeKeeps DEF Inv
<1>11. CASE Restart
  <2>1. WorkerAdmitted'
    BY <1>11 DEF Restart, WorkerAdmitted, Idle, Stages
  <2> QED  BY <1>11, <2>1, RestartKeeps DEF Inv
<1>12. ASSUME EmitStarted \/ EmitText \/ AppendFails \/ EmitFinished \/ EmitStray \/ WorkerFails
       PROVE  Inv'
  <2>1. UNCHANGED durable
    BY <1>12 DEF EmitStarted, EmitText, AppendFails, EmitFinished, EmitStray, WorkerFails
  <2>2. status' = status
    BY <2>1 DEF durable
  <2>3. worker.stage # "idle"
    BY <1>12 DEF EmitStarted, EmitText, AppendFails, EmitFinished, EmitStray, WorkerFails, At
  <2>4. \/ worker' = worker
        \/ \E stage \in Stages : worker' = [worker EXCEPT !.stage = stage]
        \/ worker' = [worker EXCEPT !.invalid = TRUE]
    BY <1>12 DEF EmitStarted, EmitText, AppendFails, EmitFinished, EmitStray, WorkerFails, Goto,
       Stages
  <2>5. WorkerAdmitted'
    BY <1>1, <2>2, <2>3, <2>4 DEF WorkerAdmitted
  <2> QED  BY <2>1, <2>5, UnchangedKeeps DEF Inv
<1>13. ASSUME (\E t \in Reading : ReadPage(t)) \/ UNCHANGED vars PROVE Inv'
  <2>1. UNCHANGED durable /\ worker' = worker
    BY <1>13 DEF ReadPage, vars
  <2>2. WorkerAdmitted'
    BY <1>1, <2>1 DEF WorkerAdmitted, durable
  <2> QED  BY <2>1, <2>2, UnchangedKeeps DEF Inv
<1> QED  BY <1>2, <1>3, <1>4, <1>5, <1>6, <1>7, <1>8, <1>9, <1>10, <1>11, <1>12, <1>13 DEF Next

\* However turns are cancelled, fail, are interrupted by the end of the worker or of the
\* process, and whatever they stream into a conversation with a limited number of events:
\* a turn that has ended has its marker as its last event, and its messages agree with it.
THEOREM TurnsSettle == Spec => []SettledTurns
<1>1. Inv => SettledTurns
  BY DEF Inv, StoreInv
<1> QED  BY InvInit, InvStep, <1>1, PTL DEF Spec
-----------------------------------------------------------------------------
(* The order of a transcript. What the active turn of a conversation left  *)
(* is always at the end of it: nobody else writes there until it settles.  *)

Paired(ms) ==
    \A i \in DOMAIN ms : ms[i].role = "assistant" =>
        /\ i > 1 /\ ms[i - 1].role = "user" /\ ms[i - 1].turn = ms[i].turn

Grouped(es) ==
    \A i, j, k \in DOMAIN es : i < j /\ j < k /\ es[i].turn = es[k].turn => es[j].turn = es[i].turn

\* The last message is one of t.
LastIs(ms, t) == \E n \in DOMAIN ms : ms[n].turn = t /\ \A i \in DOMAIN ms : i <= n

\* After the first event of t there is none of another turn.
TailIs(es, t) == \A i, j \in DOMAIN es : i < j /\ es[i].turn = t => es[j].turn = t

Ordered(c) ==
    /\ Paired(messages[c]) /\ Grouped(events[c])
    /\ \A t \in Turns : ConversationOf[t] = c /\ status[t] \in Active =>
           LastIs(messages[c], t) /\ TailIs(events[c], t)

AllOrdered == \A c \in Conversations : Ordered(c)

\* Messages that differ neither in number nor in whose they are.
SameShape(ms, new) ==
    DOMAIN new = DOMAIN ms /\ \A i \in DOMAIN ms : new[i].turn = ms[i].turn /\ new[i].role = ms[i].role

\* No turn of the conversation becomes active.
Quiet(c) == \A t \in Turns : ConversationOf[t] = c /\ status'[t] \in Active => status[t] \in Active

\* An event, if there is a new one, is one of the active turn.
OwnEvent(c) ==
    \/ events'[c] = events[c]
    \/ \E t \in Turns : /\ ConversationOf[t] = c /\ status[t] \in Active
                        /\ \E e : e.turn = t /\ events'[c] = Append(events[c], e)

LEMMA ShapeKeeps ==
    ASSUME NEW ms, NEW new, SameShape(ms, new), NEW n \in Nat, DOMAIN ms = 1 .. n, Paired(ms)
    PROVE  Paired(new) /\ \A t : LastIs(ms, t) => LastIs(new, t)
<1>1. ASSUME NEW i \in DOMAIN new, new[i].role = "assistant"
      PROVE  i > 1 /\ new[i - 1].role = "user" /\ new[i - 1].turn = new[i].turn
  <2>1. i \in DOMAIN ms /\ ms[i].role = "assistant" /\ new[i].turn = ms[i].turn
    BY <1>1 DEF SameShape
  <2>2. i > 1 /\ ms[i - 1].role = "user" /\ ms[i - 1].turn = ms[i].turn
    BY <2>1 DEF Paired
  <2>3. i - 1 \in DOMAIN ms
    BY <2>1, <2>2
  <2> QED  BY <2>1, <2>2, <2>3 DEF SameShape
<1> QED  BY <1>1 DEF Paired, LastIs, SameShape

LEMMA MessageAppended ==
    ASSUME NEW S, NEW ms \in Seq(S), NEW m \in S, Paired(ms),
           m.role = "assistant" =>
               Len(ms) > 0 /\ ms[Len(ms)].role = "user" /\ ms[Len(ms)].turn = m.turn
    PROVE  Paired(Append(ms, m)) /\ LastIs(Append(ms, m), m.turn)
<1> PICK new : new = Append(ms, m)
  OBVIOUS
<1>1. /\ DOMAIN new = 1 .. Len(ms) + 1 /\ DOMAIN ms = 1 .. Len(ms) /\ Len(ms) \in Nat
      /\ new[Len(ms) + 1] = m /\ \A j \in 1 .. Len(ms) : new[j] = ms[j]
  OBVIOUS
<1>2. LastIs(new, m.turn)
  BY <1>1 DEF LastIs
<1>3. ASSUME NEW i \in DOMAIN new, new[i].role = "assistant"
      PROVE  i > 1 /\ new[i - 1].role = "user" /\ new[i - 1].turn = new[i].turn
  <2>1. CASE i = Len(ms) + 1
    <3>1. i - 1 = Len(ms) /\ new[i] = m /\ m.role = "assistant" /\ Len(ms) > 0
      BY <1>1, <1>3, <2>1
    <3>2. Len(ms) \in 1 .. Len(ms) /\ i > 1
      BY <1>1, <2>1, <3>1
    <3>3. new[Len(ms)] = ms[Len(ms)]
      BY <1>1, <3>2, Zenon
    <3> QED  BY <3>1, <3>2, <3>3
  <2>2. CASE i \in 1 .. Len(ms)
    <3>1. i > 1 /\ ms[i - 1].role = "user" /\ ms[i - 1].turn = ms[i].turn
      BY <1>1, <1>3, <2>2 DEF Paired
    <3> QED  BY <1>1, <2>2, <3>1
  <2> QED  BY <1>1, <2>1, <2>2
<1> QED  BY <1>2, <1>3 DEF Paired

LEMMA EventAppended ==
    ASSUME NEW S, NEW es \in Seq(S), NEW e, Grouped(es), TailIs(es, e.turn)
    PROVE  Grouped(Append(es, e)) /\ TailIs(Append(es, e), e.turn)
<1> PICK new : new = Append(es, e)
  OBVIOUS
<1>1. /\ DOMAIN new = 1 .. Len(es) + 1 /\ DOMAIN es = 1 .. Len(es) /\ Len(es) \in Nat
      /\ new[Len(es) + 1] = e /\ \A j \in 1 .. Len(es) : new[j] = es[j]
  OBVIOUS
<1>2. ASSUME NEW i \in DOMAIN new, NEW j \in DOMAIN new, i < j, new[i].turn = e.turn
      PROVE  new[j].turn = e.turn
  <2>1. i \in DOMAIN es
    BY <1>1, <1>2
  <2>2. CASE j = Len(es) + 1
    BY <1>1, <2>2
  <2>3. CASE j \in DOMAIN es
    BY <1>1, <1>2, <2>1, <2>3 DEF TailIs
  <2> QED  BY <1>1, <2>2, <2>3
<1>3. ASSUME NEW i \in DOMAIN new, NEW j \in DOMAIN new, NEW k \in DOMAIN new,
             i < j, j < k, new[i].turn = new[k].turn
      PROVE  new[j].turn = new[i].turn
  <2>1. i \in DOMAIN es /\ j \in DOMAIN es
    BY <1>1, <1>3
  <2>2. CASE k = Len(es) + 1
    BY <1>1, <1>2, <1>3, <2>2
  <2>3. CASE k \in DOMAIN es
    BY <1>1, <1>3, <2>1, <2>3 DEF Grouped
  <2> QED  BY <1>1, <2>2, <2>3
<1> QED  BY <1>2, <1>3 DEF Grouped, TailIs

LEMMA OwnEventKeeps ==
    ASSUME StoreInv, NEW c \in Conversations, Ordered(c), Quiet(c), OwnEvent(c)
    PROVE  /\ Grouped(events'[c])
           /\ \A t \in Turns : ConversationOf[t] = c /\ status'[t] \in Active => TailIs(events'[c], t)
<1>1. CASE events'[c] = events[c]
  BY <1>1 DEF Ordered, Quiet
<1>2. ASSUME NEW t \in Turns, ConversationOf[t] = c, status[t] \in Active, NEW e, e.turn = t,
             events'[c] = Append(events[c], e)
      PROVE  /\ Grouped(events'[c])
             /\ \A u \in Turns : ConversationOf[u] = c /\ status'[u] \in Active => TailIs(events'[c], u)
  <2>1. PICK T : events[c] \in Seq(Events(T))
    BY DEF StoreInv, Rows
  <2>2. Grouped(events'[c]) /\ TailIs(events'[c], t)
    BY <1>2, <2>1, EventAppended DEF Ordered
  <2>3. \A u \in Turns : ConversationOf[u] = c /\ status'[u] \in Active => u = t
    BY <1>2 DEF Quiet, StoreInv, ActiveAlone
  <2> QED  BY <2>2, <2>3
<1> QED  BY <1>1, <1>2 DEF OwnEvent

\* Messages follow their run, and the active turn may get an event.
LEMMA FollowingOrdered ==
    ASSUME StoreInv, NEW c \in Conversations, Ordered(c), Quiet(c), OwnEvent(c),
           SameShape(messages[c], messages'[c])
    PROVE  Ordered(c)'
<1>1. Len(messages[c]) \in Nat /\ DOMAIN messages[c] = 1 .. Len(messages[c])
  <2>1. PICK B, N : messages[c] \in Seq(Messages(B, N))
    BY DEF StoreInv, Rows
  <2> QED  BY <2>1
<1>2. Paired(messages'[c]) /\ \A t : LastIs(messages[c], t) => LastIs(messages'[c], t)
  BY <1>1, ShapeKeeps DEF Ordered
<1>3. /\ Grouped(events'[c])
      /\ \A t \in Turns : ConversationOf[t] = c /\ status'[t] \in Active => TailIs(events'[c], t)
  BY OwnEventKeeps
<1> QED  BY <1>2, <1>3 DEF Ordered, Quiet

LEMMA UntouchedOrdered ==
    ASSUME StoreInv, NEW c \in Conversations, Ordered(c), Quiet(c),
           messages'[c] = messages[c], events'[c] = events[c]
    PROVE  Ordered(c)'
BY DEF Ordered, Quiet

LEMMA FollowShape ==
    ASSUME NEW B, NEW N, NEW m \in Messages(B, N), NEW state
    PROVE  Follow(m, state).turn = m.turn /\ Follow(m, state).role = m.role
<1> DEFINE whole == (Bytes(m.body) = m.bytes)
<1>1. Follow(m, state) = [m EXCEPT !.state = state, !.complete = whole]
  BY DEF Follow
<1> HIDE DEF whole
<1> QED  BY <1>1 DEF Messages

LEMMA SyncShape ==
    ASSUME NEW B, NEW N, NEW ms \in Seq(Messages(B, N)), NEW t, NEW next
    PROVE  SameShape(ms, SyncedMessages(ms, t, next))
<1>1. DOMAIN SyncedMessages(ms, t, next) = DOMAIN ms /\ \A i \in DOMAIN ms : ms[i] \in Messages(B, N)
  BY DEF SyncedMessages
<1> QED  BY <1>1, FollowShape DEF SameShape, SyncedMessages

LEMMA TransitionOrdered ==
    ASSUME StoreInv, AllOrdered, NEW t \in Turns, NEW next, Transition(t, next)
    PROVE  AllOrdered'
<1> DEFINE c == ConversationOf[t]
<1>1. c \in Conversations /\ status[t] \in Active
  BY TurnsAssumption, TransitionStates DEF Transition
<1>2. /\ status' = [status EXCEPT ![t] = next]
      /\ messages' = [messages EXCEPT ![c] = SyncedMessages(messages[c], t, next)]
      /\ events' = IF next \in Terminal
                   THEN [events EXCEPT ![c] = Append(@, TerminalEvent(t, next))] ELSE events
  BY TransitionEvents DEF Transition
<1>3. TerminalEvent(t, next).turn = t
  BY DEF TerminalEvent
<1> HIDE DEF c
<1>4. PICK B, N : messages \in [Conversations -> Seq(Messages(B, N))]
  BY DEF StoreInv, Rows
<1>5. PICK T : events \in [Conversations -> Seq(Events(T))]
  BY DEF StoreInv, Rows
<1>6. \A d \in Conversations : Quiet(d)
  BY <1>1, <1>2 DEF Quiet, StoreInv, Rows
<1>7. ASSUME NEW d \in Conversations, d # c PROVE Ordered(d)'
  <2>1. messages'[d] = messages[d] /\ events'[d] = events[d]
    BY <1>2, <1>4, <1>5, <1>7
  <2> QED  BY <1>6, <2>1, UntouchedOrdered DEF AllOrdered
<1>8. Ordered(c)'
  <2>1. SameShape(messages[c], messages'[c])
    BY <1>1, <1>2, <1>4, SyncShape
  <2>2. events'[c] = events[c] \/ events'[c] = Append(events[c], TerminalEvent(t, next))
    BY <1>1, <1>2, <1>5
  <2>3. OwnEvent(c)
    BY <1>1, <1>3, <2>2 DEF OwnEvent, c
  <2> QED  BY <1>1, <1>6, <2>1, <2>3, FollowingOrdered DEF AllOrdered
<1> QED  BY <1>7, <1>8 DEF AllOrdered

LEMMA AdmitOrdered ==
    ASSUME Inv, AllOrdered, NEW t \in Turns, AdmitTurn(t)
    PROVE  AllOrdered'
<1> DEFINE c == ConversationOf[t]
<1>1. c \in Conversations
  BY TurnsAssumption
<1>2. /\ status[t] = Absent /\ ActiveTurns(c) = {}
      /\ status' = [status EXCEPT ![t] = "queued"]
      /\ messages' = [messages EXCEPT ![c] = Append(messages[c], Question(t))]
      /\ events' = events
  BY DEF AdmitTurn
<1>3. PICK B, N : messages \in [Conversations -> Seq(Messages(B, N))]
  BY DEF Inv, StoreInv, Rows
<1>4. status \in [Turns -> RunState \cup {Absent}]
  BY DEF Inv, StoreInv, Rows
<1>5. \A u \in Turns : u # t => status'[u] = status[u]
  BY <1>2, <1>4
<1>6. \A u \in Turns : u # t /\ ConversationOf[u] = c => status[u] \notin Active
  BY <1>2, StatesDisjoint DEF ActiveTurns, TurnsOf
<1>7. ASSUME NEW d \in Conversations, d # c PROVE Ordered(d)'
  <2>1. Quiet(d)
    BY <1>5, <1>7 DEF Quiet
  <2>2. messages'[d] = messages[d] /\ events'[d] = events[d]
    BY <1>2, <1>3, <1>7
  <2> QED  BY <2>1, <2>2, UntouchedOrdered DEF AllOrdered, Inv
<1>8. Ordered(c)'
  <2> DEFINE x == Input[t]
             n == Bytes(Input[t])
  <2>1. Question(t) \in Messages({x}, {n}) /\ Question(t).turn = t /\ Question(t).role = "user"
    BY DEF Question, Messages, RunState
  <2> DEFINE X == B \cup {x}
             Y == N \cup {n}
  <2>2. Messages(B, N) \subseteq Messages(X, Y) /\ Question(t) \in Messages(X, Y)
    BY <2>1 DEF Messages
  <2> HIDE DEF X, Y, x, n, c
  <2>3. messages[c] \in Seq(Messages(X, Y))
    BY <1>1, <1>3, <2>2
  <2>4. messages'[c] = Append(messages[c], Question(t))
    BY <1>1, <1>2, <1>3
  <2>5. Paired(messages'[c]) /\ LastIs(messages'[c], t)
    BY <1>1, <2>1, <2>2, <2>3, <2>4, MessageAppended DEF AllOrdered, Ordered
  <2>6. \A i \in DOMAIN events[c] : events[c][i].turn # t
    BY <1>1, <1>2 DEF Inv, StoreInv, EventsAdmitted
  <2>7. TailIs(events'[c], t) /\ Grouped(events'[c])
    BY <1>1, <1>2, <2>6 DEF TailIs, AllOrdered, Ordered
  <2>8. \A u \in Turns : ConversationOf[u] = c /\ status'[u] \in Active => u = t
    BY <1>5, <1>6 DEF c
  <2> QED  BY <2>5, <2>7, <2>8 DEF Ordered
<1> QED  BY <1>7, <1>8 DEF AllOrdered

LEMMA AppendChunkOrdered ==
    ASSUME Inv, AllOrdered, AppendChunk
    PROVE  AllOrdered'
<1>0. PICK t : t = worker.turn
  OBVIOUS
<1> DEFINE c     == ConversationOf[t]
           chunk == Fit(rest, MaxDelta)
           i     == MessageAt(t, "assistant")
           body  == IF i = 0 THEN <<>> ELSE messages[c][i].body
           bytes == IF i = 0 THEN 0 ELSE messages[c][i].bytes
           x     == Extend(body, bytes, chunk)
           n     == bytes + Bytes(chunk)
           m     == [turn |-> t, role |-> "assistant", body |-> x, bytes |-> n,
                     complete |-> FALSE, state |-> "running"]
<1>1. t \in Turns /\ status[t] \in Active
  <2>1. At("streaming") /\ Accepts(t, chunk)
    BY <1>0 DEF AppendChunk
  <2>2. t \in Turns /\ status[t] # Absent
    BY <1>0, <2>1 DEF Inv, WorkerAdmitted, At
  <2>3. status[t] \in RunState \cup {Absent}
    BY <2>2 DEF Inv, StoreInv, Rows
  <2> QED  BY <2>1, <2>2, <2>3, StatesDisjoint DEF Accepts
<1>2. c \in Conversations
  BY <1>1, TurnsAssumption
<1>3. /\ UNCHANGED status
      /\ events' = [events EXCEPT ![c] = Append(@, TextEvent(t, chunk))]
      /\ messages' = [messages EXCEPT ![c] = WithText(messages[c], t, chunk)]
  BY <1>0 DEF AppendChunk
<1>4. WithText(messages[c], t, chunk) =
        IF i = 0 THEN Append(messages[c], m) ELSE [messages[c] EXCEPT ![i] = m]
  BY DEF WithText
<1>5. m \in Messages({x}, {n}) /\ m.turn = t /\ m.role = "assistant"
  BY <1>1 DEF Messages, RunState, InFlight
<1>6. i # 0 => i \in DOMAIN messages[c] /\ messages[c][i].turn = t /\ messages[c][i].role = "assistant"
  BY <1>1, MessageFound
<1>7. TextEvent(t, chunk).turn = t
  BY DEF TextEvent
<1>8. PICK B, N : messages \in [Conversations -> Seq(Messages(B, N))]
  BY DEF Inv, StoreInv, Rows
<1>9. PICK T : events \in [Conversations -> Seq(Events(T))]
  BY DEF Inv, StoreInv, Rows
<1>10. \A d \in Conversations : Quiet(d)
  BY <1>3 DEF Quiet
<1>11. i = 0 => \A j \in DOMAIN messages[c] : messages[c][j].turn = t => messages[c][j].role # "assistant"
  <2>1. 0 \notin DOMAIN messages[c]
    BY <1>2, <1>8
  <2> QED  BY <1>1, <2>1, NoMessage
<1> HIDE DEF chunk, i, body, bytes, x, n, m, c
<1>12. ASSUME NEW d \in Conversations, d # c PROVE Ordered(d)'
  <2>1. messages'[d] = messages[d] /\ events'[d] = events[d]
    BY <1>3, <1>8, <1>9, <1>12
  <2> QED  BY <1>10, <2>1, UntouchedOrdered DEF AllOrdered, Inv
<1>13. OwnEvent(c)
  <2>1. events'[c] = Append(events[c], TextEvent(t, chunk))
    BY <1>2, <1>3, <1>9
  <2> QED  BY <1>1, <1>7, <2>1 DEF OwnEvent, c
<1>14. CASE i # 0
  <2>1. messages'[c] = [messages[c] EXCEPT ![i] = m]
    BY <1>2, <1>3, <1>4, <1>8, <1>14
  <2>2. SameShape(messages[c], messages'[c])
    BY <1>5, <1>6, <1>14, <2>1 DEF SameShape
  <2>3. Ordered(c)'
    BY <1>2, <1>10, <1>13, <2>2, FollowingOrdered DEF AllOrdered, Inv
  <2> QED  BY <1>12, <2>3 DEF AllOrdered
<1>15. CASE i = 0
  <2>1. messages'[c] = Append(messages[c], m)
    BY <1>2, <1>3, <1>4, <1>8, <1>15
  <2> DEFINE X == B \cup {x}
             Y == N \cup {n}
  <2>2. Messages(B, N) \subseteq Messages(X, Y) /\ m \in Messages(X, Y)
    BY <1>5 DEF Messages
  <2> HIDE DEF X, Y
  <2>3. messages[c] \in Seq(Messages(X, Y)) /\ messages[c] \in Seq(Messages(B, N))
    BY <1>2, <1>8, <2>2
  <2>4. Paired(messages[c]) /\ LastIs(messages[c], t)
    BY <1>1, <1>2 DEF AllOrdered, Ordered, c
  <2>5. PICK k \in DOMAIN messages[c] : messages[c][k].turn = t /\ \A j \in DOMAIN messages[c] : j <= k
    BY <2>4 DEF LastIs
  <2>6. k = Len(messages[c]) /\ k > 0
    <3>1. DOMAIN messages[c] = 1 .. Len(messages[c]) /\ Len(messages[c]) \in Nat
      BY <2>3
    <3>2. k \in 1 .. Len(messages[c]) /\ Len(messages[c]) <= k
      BY <2>5, <3>1
    <3> QED  BY <3>1, <3>2
  <2>7. messages[c][k].role = "user"
    <3>1. messages[c][k] \in Messages(B, N)
      BY <2>3, <2>5
    <3> QED  BY <1>11, <1>15, <2>5, <3>1 DEF Messages
  <2>8. Paired(messages'[c]) /\ LastIs(messages'[c], t)
    BY <1>5, <2>1, <2>2, <2>3, <2>4, <2>5, <2>6, <2>7, MessageAppended
  <2>9. /\ Grouped(events'[c])
        /\ \A u \in Turns : ConversationOf[u] = c /\ status'[u] \in Active => TailIs(events'[c], u)
    BY <1>2, <1>10, <1>13, OwnEventKeeps DEF AllOrdered, Inv
  <2>10. \A u \in Turns : ConversationOf[u] = c /\ status'[u] \in Active => u = t
    BY <1>1, <1>3 DEF Inv, StoreInv, ActiveAlone, c
  <2>11. Ordered(c)'
    BY <2>8, <2>9, <2>10 DEF Ordered
  <2> QED  BY <1>12, <2>11 DEF AllOrdered
<1> QED  BY <1>14, <1>15

LEMMA BuildPromptOrdered ==
    ASSUME Inv, AllOrdered, BuildPrompt
    PROVE  AllOrdered'
<1> DEFINE t == worker.turn
           c == ConversationOf[t]
<1>1. t \in Turns /\ status[t] \in RunState
  BY DEF Inv, StoreInv, Rows, WorkerAdmitted, BuildPrompt, At
<1>2. /\ UNCHANGED <<status, messages>>
      /\ \/ events' = events
         \/ /\ status[t] \notin Terminal
            /\ events' = [events EXCEPT ![c] = Append(@, NoticeEvent(t))]
  BY DEF BuildPrompt
<1>3. NoticeEvent(t).turn = t /\ c \in Conversations
  BY <1>1, TurnsAssumption DEF NoticeEvent
<1>4. PICK T : events \in [Conversations -> Seq(Events(T))]
  BY DEF Inv, StoreInv, Rows
<1>5. status[t] \notin Terminal => status[t] \in Active
  BY <1>1, StatesDisjoint
<1> HIDE DEF t, c
<1>6. ASSUME NEW d \in Conversations PROVE Ordered(d)'
  <2>1. Quiet(d) /\ SameShape(messages[d], messages'[d])
    BY <1>2 DEF Quiet, SameShape
  <2>2. OwnEvent(d)
    <3>1. events'[d] = events[d] \/ (d = c /\ status[t] \in Active /\ events'[d] = Append(events[d], NoticeEvent(t)))
      BY <1>2, <1>3, <1>4, <1>5
    <3> QED  BY <1>1, <1>3, <3>1 DEF OwnEvent, c
  <2> QED  BY <2>1, <2>2, FollowingOrdered DEF AllOrdered, Inv
<1> QED  BY <1>6 DEF AllOrdered

LEMMA DeleteOrdered ==
    ASSUME Inv, AllOrdered, NEW c \in Conversations, DeleteConversation(c)
    PROVE  AllOrdered'
<1>1. /\ ActiveTurns(c) = {} /\ UNCHANGED status
      /\ messages' = [messages EXCEPT ![c] = <<>>] /\ events' = [events EXCEPT ![c] = <<>>]
  BY DEF DeleteConversation
<1>2. PICK B, N : messages \in [Conversations -> Seq(Messages(B, N))]
  BY DEF Inv, StoreInv, Rows
<1>3. PICK T : events \in [Conversations -> Seq(Events(T))]
  BY DEF Inv, StoreInv, Rows
<1>4. \A u \in Turns : ConversationOf[u] = c => status'[u] \notin Active
  BY <1>1, StatesDisjoint DEF ActiveTurns, TurnsOf
<1>5. DOMAIN messages'[c] = {} /\ DOMAIN events'[c] = {}
  BY <1>1, <1>2, <1>3
<1>6. Ordered(c)'
  BY <1>4, <1>5 DEF Ordered, Paired, Grouped
<1>7. ASSUME NEW d \in Conversations, d # c PROVE Ordered(d)'
  <2>1. messages'[d] = messages[d] /\ events'[d] = events[d] /\ Quiet(d)
    BY <1>1, <1>2, <1>3, <1>7 DEF Quiet
  <2> QED  BY <2>1, UntouchedOrdered DEF AllOrdered, Inv
<1> QED  BY <1>6, <1>7 DEF AllOrdered

LEMMA FinalizeOrdered ==
    ASSUME Inv, AllOrdered, Finalize
    PROVE  AllOrdered'
<1> DEFINE t == worker.turn
           c == ConversationOf[t]
           i == MessageAt(t, "assistant")
<1>1. t \in Turns /\ c \in Conversations
  BY TurnsAssumption DEF Inv, StoreInv, Rows, WorkerAdmitted, Finalize, At
<1>2. /\ UNCHANGED <<status, events>>
      /\ messages' = IF i = 0 THEN messages
                     ELSE [messages EXCEPT ![c][i] = Follow(messages[c][i], status[t])]
  BY DEF Finalize
<1>3. i # 0 => i \in DOMAIN messages[c]
  BY <1>1, MessageFound
<1>4. PICK B, N : messages \in [Conversations -> Seq(Messages(B, N))]
  BY DEF Inv, StoreInv, Rows
<1> HIDE DEF t, c, i
<1>5. i # 0 => /\ Follow(messages[c][i], status[t]).turn = messages[c][i].turn
               /\ Follow(messages[c][i], status[t]).role = messages[c][i].role
  <2>1. i # 0 => messages[c][i] \in Messages(B, N)
    BY <1>1, <1>3, <1>4
  <2> QED  BY <2>1, FollowShape
<1>6. ASSUME NEW d \in Conversations PROVE Ordered(d)'
  <2>1. Quiet(d) /\ OwnEvent(d)
    BY <1>2 DEF Quiet, OwnEvent
  <2>2. SameShape(messages[d], messages'[d])
    BY <1>1, <1>2, <1>3, <1>4, <1>5 DEF SameShape
  <2> QED  BY <2>1, <2>2, FollowingOrdered DEF AllOrdered, Inv
<1> QED  BY <1>6 DEF AllOrdered

LEMMA RestartOrdered ==
    ASSUME Inv, AllOrdered, Restart
    PROVE  AllOrdered'
<1> DEFINE interrupted == {t \in Turns : status[t] \in InFlight}
           Of(c)       == {t \in interrupted : ConversationOf[t] = c}
           The(c)      == CHOOSE t \in Of(c) : TRUE
<1>1. /\ status' = [t \in Turns |-> IF t \in interrupted THEN "interrupted" ELSE status[t]]
      /\ messages' = [c \in Conversations |->
                         IF Of(c) = {} THEN messages[c]
                         ELSE SyncedMessages(messages[c], The(c), "interrupted")]
      /\ events' = [c \in Conversations |->
                         IF Of(c) = {} THEN events[c]
                         ELSE SyncedEvents(events[c], The(c), "interrupted")]
  BY DEF Restart
<1>2. PICK B, N : messages \in [Conversations -> Seq(Messages(B, N))]
  BY DEF Inv, StoreInv, Rows
<1>3. "interrupted" \notin Active /\ InFlight \subseteq Active
  BY StatesDisjoint DEF Terminal, Active
<1>4. ASSUME NEW c \in Conversations PROVE Quiet(c)
  BY <1>1, <1>3 DEF Quiet
<1>5. ASSUME NEW c \in Conversations, Of(c) = {} PROVE Ordered(c)'
  <2>1. messages'[c] = messages[c] /\ events'[c] = events[c]
    BY <1>1, <1>5
  <2> QED  BY <1>4, <2>1, UntouchedOrdered DEF AllOrdered, Inv
<1>6. ASSUME NEW c \in Conversations, Of(c) # {} PROVE Ordered(c)'
  <2>1. The(c) \in Of(c)
    BY <1>6
  <2>2. /\ messages'[c] = SyncedMessages(messages[c], The(c), "interrupted")
        /\ events'[c] = SyncedEvents(events[c], The(c), "interrupted")
    BY <1>1, <1>6
  <2>3. PICK t : t = The(c)
    OBVIOUS
  <2>4. t \in Turns /\ ConversationOf[t] = c /\ status[t] \in Active
    BY <1>3, <2>1, <2>3
  <2> HIDE DEF The, Of, interrupted
  <2>5. SameShape(messages[c], messages'[c])
    BY <1>2, <2>2, SyncShape
  <2>6. events'[c] = events[c] \/ events'[c] = Append(events[c], TerminalEvent(t, "interrupted"))
    BY <2>2, <2>3 DEF SyncedEvents
  <2>7. TerminalEvent(t, "interrupted").turn = t
    BY DEF TerminalEvent
  <2>8. OwnEvent(c)
    BY <2>4, <2>6, <2>7 DEF OwnEvent
  <2> QED  BY <1>4, <2>5, <2>8, FollowingOrdered DEF AllOrdered, Inv
<1> QED  BY <1>5, <1>6 DEF AllOrdered

LEMMA OrderedStep == Inv /\ AllOrdered /\ [Next]_vars => AllOrdered'
<1> SUFFICES ASSUME Inv, AllOrdered, [Next]_vars PROVE AllOrdered'
  OBVIOUS
<1>1. ASSUME UNCHANGED <<status, messages, events>> PROVE AllOrdered'
  BY <1>1 DEF AllOrdered, Ordered
<1>2. ASSUME NEW t \in Turns, Drop(t) \/ Cancel(t) \/ WorkerStart(t) PROVE AllOrdered'
  <2>1. PICK next : Transition(t, next)
    BY <1>2 DEF Drop, Cancel, WorkerStart
  <2> QED  BY <2>1, TransitionOrdered DEF Inv
<1>3. ASSUME WorkerRun \/ Settle \/ InterruptAdmitted PROVE AllOrdered'
  <2>1. worker.turn \in Turns
    BY <1>3 DEF WorkerRun, Settle, InterruptAdmitted, At, Inv, WorkerAdmitted
  <2>2. PICK next : Transition(worker.turn, next)
    BY <1>3 DEF WorkerRun, Settle, InterruptAdmitted
  <2> QED  BY <2>1, <2>2, TransitionOrdered DEF Inv
<1>4. CASE EmitStarted \/ EmitText \/ AppendFails \/ EmitFinished \/ EmitStray \/ WorkerFails
  BY <1>1, <1>4 DEF EmitStarted, EmitText, AppendFails, EmitFinished, EmitStray, WorkerFails, durable
<1>5. CASE (\E t \in Reading : ReadPage(t)) \/ UNCHANGED vars \/ \E c \in Conversations : CreateConversation(c)
  BY <1>1, <1>5 DEF ReadPage, vars, durable, CreateConversation
<1> QED  BY <1>2, <1>3, <1>4, <1>5, DeleteOrdered, AdmitOrdered, AppendChunkOrdered, BuildPromptOrdered,
            FinalizeOrdered, RestartOrdered DEF Next

\* Whatever interleaving of clients, worker and restarts: in every conversation each reply comes
\* directly after its question, and the events of a turn are contiguous.
THEOREM TranscriptAlways == Spec => []Transcript
<1>1. Init => Inv /\ AllOrdered
  <2> SUFFICES ASSUME Init PROVE AllOrdered
    BY InvInit
  <2>1. \A c \in Conversations : DOMAIN messages[c] = {} /\ DOMAIN events[c] = {}
    BY DEF Init
  <2>2. \A t \in Turns : status[t] \notin Active
    BY StatesDisjoint DEF Init
  <2> QED  BY <2>1, <2>2 DEF AllOrdered, Ordered, Paired, Grouped
<1>2. AllOrdered => Transcript
  BY DEF AllOrdered, Ordered, Paired, Grouped, Transcript
<1>3. Inv /\ AllOrdered /\ [Next]_vars => (Inv /\ AllOrdered)'
  BY InvStep, OrderedStep
<1> QED  BY <1>1, <1>2, <1>3, PTL DEF Spec
-----------------------------------------------------------------------------
(* Induction over the folds of the model. A statement is proved for every  *)
(* number, sequence or set of positions by showing that the set of those   *)
(* that satisfy it is all of them, so that no operator has to be           *)
(* instantiated.                                                           *)

\* Every nonempty set of natural numbers has a least element.
LEMMA NatLeast ==
    ASSUME NEW S, S \subseteq Nat, S # {}
    PROVE  \E n \in S : \A k \in S : n <= k
<1> DEFINE R == {p \in Nat \X Nat : p[1] < p[2]}
<1>1. IsWellFoundedOn(R, Nat)
  BY NatLessThanWellFounded, Zenon DEF OpToRel
<1>2. \A p : p \in R <=> p \in Nat \X Nat /\ p[1] < p[2]
  OBVIOUS
<1> HIDE DEF R
<1>3. PICK n \in S : \A k \in S : ~ (<<k, n>> \in R)
  BY <1>1, WFMin
<1>4. \A k \in S : ~ (k < n)
  <2> SUFFICES ASSUME NEW k \in S, k < n PROVE FALSE
    OBVIOUS
  <2>1. <<k, n>> \in Nat \X Nat /\ <<k, n>>[1] = k /\ <<k, n>>[2] = n
    OBVIOUS
  <2> QED  BY <1>2, <1>3, <2>1
<1> QED  BY <1>4

\* Induction, as a statement about sets.
LEMMA NatInductive ==
    ASSUME NEW S, S \subseteq Nat, 0 \in S, \A n \in S : n + 1 \in S
    PROVE  S = Nat
<1> SUFFICES ASSUME Nat \ S # {} PROVE FALSE
  OBVIOUS
<1>1. PICK n \in Nat \ S : \A k \in Nat \ S : n <= k
  BY NatLeast
<1> QED  BY <1>1

\* Induction over sequences.
LEMMA SeqInductive ==
    ASSUME NEW A, NEW S, S \subseteq Seq(A), <<>> \in S,
           \A s \in S, a \in A : Append(s, a) \in S
    PROVE  S = Seq(A)
<1> DEFINE N == {n \in Nat : \A s \in Seq(A) : Len(s) = n => s \in S}
<1>1. 0 \in N
  <2>1. \A s \in Seq(A) : Len(s) = 0 => s = <<>>
    OBVIOUS
  <2> QED  BY <2>1
<1>2. ASSUME NEW n \in N PROVE n + 1 \in N
  <2> SUFFICES ASSUME NEW s \in Seq(A), Len(s) = n + 1 PROVE s \in S
    OBVIOUS
  <2>1. s # <<>>
    OBVIOUS
  <2>2. PICK u \in Seq(A), a \in A : s = Append(u, a)
    BY <2>1, SequenceEmptyOrAppend
  <2>3. Len(u) = n
    BY <2>2
  <2> QED  BY <2>2, <2>3
<1>3. N = Nat
  <2> HIDE DEF N
  <2>1. N \subseteq Nat
    BY DEF N
  <2> QED  BY <1>1, <1>2, <2>1, NatInductive
<1>4. \A s \in Seq(A) : Len(s) \in Nat
  OBVIOUS
<1> QED  BY <1>3, <1>4

\* The greatest number of a set of numbers up to n.
LEMMA MaxOf ==
    ASSUME NEW n \in Nat, NEW S, S \subseteq 0 .. n, S # {}
    PROVE  Max(S) \in S /\ \A k \in S : k <= Max(S)
<1> DEFINE D == {n - k : k \in S}
<1>1. D \subseteq Nat /\ D # {}
  <2>1. \A k \in S : n - k \in Nat
    OBVIOUS
  <2> QED  BY <2>1
<1>2. PICK d \in D : \A k \in D : d <= k
  BY <1>1, NatLeast
<1>3. PICK m \in S : d = n - m
  BY <1>2
<1>4. \A k \in S : m >= k
  <2> SUFFICES ASSUME NEW k \in S PROVE m >= k
    OBVIOUS
  <2>1. n - k \in D
    OBVIOUS
  <2>2. d <= n - k
    BY <1>2, <2>1
  <2> QED  BY <1>3, <2>2
<1>5. \E x \in S : \A k \in S : x >= k
  BY <1>4
<1>6. Max(S) \in S /\ \A k \in S : Max(S) >= k
  <2> DEFINE P(x) == x \in S /\ \A k \in S : x >= k
  <2>1. \E x : P(x)
    BY <1>5
  <2>2. P(CHOOSE x : P(x))
    BY <2>1
  <2> QED  BY <1>5 DEF Max
<1> QED  BY <1>6

-----------------------------------------------------------------------------
(* FoldLeft takes the last element off first: it is a recursion over sets  *)
(* of positions.                                                           *)

\* The last of a set of positions, and what is left without it.
LEMMA LastPosition ==
    ASSUME NEW n \in Nat, NEW s \in SUBSET (1 .. n), s # {}
    PROVE  /\ Max(s) \in s /\ Max(s) \in 1 .. n
           /\ s \ {Max(s)} \in SUBSET (1 .. n)
           /\ \A m \in Nat : n = m + 1 => s \ {Max(s)} \in SUBSET (1 .. m)
<1>1. s \subseteq 0 .. n
  OBVIOUS
<1>2. Max(s) \in s /\ \A k \in s : k <= Max(s)
  BY <1>1, MaxOf
<1>3. ASSUME NEW m \in Nat, n = m + 1 PROVE s \ {Max(s)} \in SUBSET (1 .. m)
  <2>1. Max(s) \in 1 .. n
    BY <1>2
  <2>2. \A k \in s : k # Max(s) => k \in 1 .. m
    BY <1>2, <1>3, <2>1
  <2> QED  BY <2>2
<1> QED  BY <1>2, <1>3

\* The last of all the positions.
LEMMA FullPosition ==
    ASSUME NEW n \in Nat
    PROVE  Max(1 .. n + 1) = n + 1 /\ (1 .. n + 1) \ {Max(1 .. n + 1)} = 1 .. n /\ 1 .. n + 1 # {}
<1>1. 1 .. n + 1 \subseteq 0 .. n + 1 /\ 1 .. n + 1 # {} /\ n + 1 \in Nat /\ n + 1 \in 1 .. n + 1
  OBVIOUS
<1>2. Max(1 .. n + 1) \in 1 .. n + 1 /\ n + 1 <= Max(1 .. n + 1)
  BY <1>1, MaxOf
<1> QED  BY <1>1, <1>2

\* Induction over sets of positions.
LEMMA PositionsInductive ==
    ASSUME NEW n \in Nat, NEW P, P \subseteq SUBSET (1 .. n), {} \in P,
           \A s \in SUBSET (1 .. n) : s # {} /\ s \ {Max(s)} \in P => s \in P
    PROVE  P = SUBSET (1 .. n)
<1> DEFINE N == {m \in Nat : m <= n => SUBSET (1 .. m) \subseteq P}
<1>1. 0 \in N
  <2>1. \A s \in SUBSET (1 .. 0) : s = {}
    OBVIOUS
  <2> QED  BY <2>1
<1>2. ASSUME NEW m \in N PROVE m + 1 \in N
  <2> SUFFICES ASSUME m + 1 <= n, NEW s \in SUBSET (1 .. m + 1) PROVE s \in P
    OBVIOUS
  <2>1. m \in Nat /\ SUBSET (1 .. m) \subseteq P /\ s \in SUBSET (1 .. n)
    BY <1>2
  <2>2. CASE s = {}
    BY <2>2
  <2>3. CASE s # {}
    <3>1. s \ {Max(s)} \in SUBSET (1 .. m)
      BY <2>1, <2>3, LastPosition
    <3> QED  BY <2>1, <2>3, <3>1
  <2> QED  BY <2>2, <2>3
<1>3. N = Nat
  <2> HIDE DEF N
  <2>1. N \subseteq Nat
    BY DEF N
  <2> QED  BY <1>1, <1>2, <2>1, NatInductive
<1>4. n \in N /\ n <= n
  BY <1>3
<1>5. SUBSET (1 .. n) \subseteq P
  BY <1>4
<1> QED  BY <1>5

\* f is the recursion of a fold of n elements that starts with base; F gives its steps.
Solution(f, V, base, F, n) ==
    /\ f \in [SUBSET (1 .. n) -> V]
    /\ \A s \in SUBSET (1 .. n) :
          f[s] = IF s = {} THEN base ELSE F[<<f[s \ {Max(s)}], Max(s)>>]

\* A fold has a solution for any steps, however many elements.
LEMMA FoldSolved ==
    ASSUME NEW V, NEW base \in V, NEW n \in Nat, NEW F \in [V \X (1 .. n) -> V]
    PROVE  \E f : Solution(f, V, base, F, n)
<1> DEFINE Solves(f, m) == Solution(f, V, base, F, m)
           N == {m \in Nat : m <= n => \E f : Solves(f, m)}
<1> USE DEF Solution
<1>1. 0 \in N
  <2> DEFINE f == [s \in SUBSET (1 .. 0) |-> base]
  <2>1. \A s \in SUBSET (1 .. 0) : s = {}
    OBVIOUS
  <2>2. Solves(f, 0)
    BY <2>1
  <2> QED  BY <2>2
<1>2. ASSUME NEW m \in Nat, m \in N PROVE m + 1 \in N
  <2> SUFFICES ASSUME m + 1 <= n PROVE \E f : Solves(f, m + 1)
    <3> HIDE DEF Solves
    <3> QED  OBVIOUS
  <2>1. PICK f : Solves(f, m)
    <3> HIDE DEF Solves
    <3> QED  BY <1>2
  <2> DEFINE Step(s) == IF s = {} THEN base ELSE F[<<f[s \ {Max(s)}], Max(s)>>]
             g == [s \in SUBSET (1 .. m + 1) |-> Step(s)]
  <2>2. ASSUME NEW s \in SUBSET (1 .. m + 1), s # {}
        PROVE  s \ {Max(s)} \in SUBSET (1 .. m) /\ Max(s) \in 1 .. n
    BY <1>2, <2>2, LastPosition
  <2>3. ASSUME NEW s \in SUBSET (1 .. m + 1) PROVE Step(s) \in V
    <3>1. CASE s = {}
      BY <3>1
    <3>2. CASE s # {}
      <4>1. f[s \ {Max(s)}] \in V /\ Max(s) \in 1 .. n
        BY <2>1, <2>2, <3>2
      <4> QED  BY <3>2, <4>1
    <3> QED  BY <3>1, <3>2
  <2>4. ASSUME NEW s \in SUBSET (1 .. m) PROVE g[s] = f[s]
    <3>1. s \in SUBSET (1 .. m + 1)
      BY <1>2
    <3>2. f[s] = Step(s)
      BY <2>1
    <3> QED  BY <3>1, <3>2
  <2>5. \A s \in SUBSET (1 .. m + 1) :
           g[s] = IF s = {} THEN base ELSE F[<<g[s \ {Max(s)}], Max(s)>>]
    BY <2>2, <2>4
  <2>6. g \in [SUBSET (1 .. m + 1) -> V]
    BY <2>3
  <2>7. Solves(g, m + 1)
    BY <2>5, <2>6
  <2> QED  BY <2>7
<1>3. N = Nat
  <2> HIDE DEF N
  <2>1. N \subseteq Nat
    BY DEF N
  <2> QED  BY <1>1, <1>2, <2>1, NatInductive
<1>4. \E f : Solves(f, n)
  <2> HIDE DEF Solves
  <2>1. n \in N /\ n <= n
    BY <1>3
  <2> QED  BY <2>1
<1> QED  BY <1>4

\* Two recursions that start and go on in the same way.
SameSteps(f, g, n) ==
    /\ g[{}] = f[{}]
    /\ \A s \in SUBSET (1 .. n) : s # {} /\ g[s \ {Max(s)}] = f[s \ {Max(s)}] => g[s] = f[s]

\* Such recursions agree everywhere.
LEMMA SameFold ==
    ASSUME NEW n \in Nat, NEW f, NEW g, SameSteps(f, g, n)
    PROVE  \A s \in SUBSET (1 .. n) : g[s] = f[s]
<1> DEFINE P == {s \in SUBSET (1 .. n) : g[s] = f[s]}
<1>1. {} \in P /\ P \subseteq SUBSET (1 .. n)
  BY DEF SameSteps
<1>2. \A s \in SUBSET (1 .. n) : s # {} /\ s \ {Max(s)} \in P => s \in P
  BY DEF SameSteps
<1>3. P = SUBSET (1 .. n)
  <2> HIDE DEF P
  <2> QED  BY <1>1, <1>2, PositionsInductive
<1> QED  BY <1>3

\* Bytes of a text, as the value of a recursion over its positions.
BytesBy(f, text, n) ==
    /\ f \in [SUBSET (1 .. n) -> Nat]
    /\ Bytes(text) = f[1 .. n]
    /\ \A s \in SUBSET (1 .. n) :
          f[s] = IF s = {} THEN 0 ELSE f[s \ {Max(s)}] + Width[text[Max(s)]]

\* The fold of Bytes is one of these recursions.
LEMMA BytesFold ==
    ASSUME NEW text \in Seq(Chars)
    PROVE  \E f : BytesBy(f, text, Len(text))
<1>0. PICK n \in Nat : n = Len(text)
  OBVIOUS
<1> DEFINE Step(f, s) == IF s = {} THEN 0 ELSE f[s \ {Max(s)}] + Width[text[Max(s)]]
           F == [p \in Nat \X (1 .. n) |-> p[1] + Width[text[p[2]]]]
<1>1. DOMAIN text = 1 .. n /\ \A k \in 1 .. n : text[k] \in Chars
  BY <1>0
<1>2. Bytes(text) = (CHOOSE f : f = [s \in SUBSET DOMAIN text |-> Step(f, s)])[DOMAIN text]
  BY Zenon DEF Bytes, FoldLeft, MapThenFoldSet
<1>3. F \in [Nat \X (1 .. n) -> Nat]
  BY <1>1, TextAssumption
<1>4. PICK f : Solution(f, Nat, 0, F, n)
  <2> HIDE DEF F
  <2> QED  BY <1>3, FoldSolved
<1>5. ASSUME NEW s \in SUBSET (1 .. n) PROVE f[s] = Step(f, s)
  <2>1. ASSUME s # {} PROVE F[<<f[s \ {Max(s)}], Max(s)>>] = f[s \ {Max(s)}] + Width[text[Max(s)]]
    <3>1. Max(s) \in 1 .. n /\ f[s \ {Max(s)}] \in Nat
      BY <1>4, <2>1, LastPosition DEF Solution
    <3> QED  BY <3>1
  <2> HIDE DEF F
  <2> QED  BY <1>4, <2>1 DEF Solution
<1> HIDE DEF F
<1>6. PICK g : g = [s \in SUBSET (1 .. n) |-> Step(g, s)] /\ Bytes(text) = g[1 .. n]
  <2>1. f = [s \in SUBSET (1 .. n) |-> Step(f, s)]
    BY <1>4, <1>5 DEF Solution
  <2> HIDE DEF Step
  <2> QED  BY <1>1, <1>2, <2>1
<1>7. ASSUME NEW s \in SUBSET (1 .. n) PROVE g[s] = Step(g, s)
  <2> HIDE DEF Step
  <2> QED  BY <1>6
<1>8. SameSteps(f, g, n)
  BY <1>5, <1>7 DEF SameSteps
<1>9. \A s \in SUBSET (1 .. n) : g[s] = f[s]
  BY <1>8, SameFold
<1>10. BytesBy(f, text, n)
  BY <1>4, <1>5, <1>6, <1>9 DEF BytesBy, Solution
<1> QED  BY <1>0, <1>10

\* The bytes of no text, and of one character more.
LEMMA BytesEmpty == Bytes(<<>>) = 0
<1>1. <<>> \in Seq(Chars) /\ Len(<<>>) = 0 /\ 1 .. 0 = {} /\ {} \in SUBSET (1 .. 0)
  OBVIOUS
<1>2. PICK f : BytesBy(f, <<>>, 0)
  BY <1>1, BytesFold
<1> QED  BY <1>1, <1>2 DEF BytesBy

LEMMA BytesAppend ==
    ASSUME NEW text \in Seq(Chars), NEW ch \in Chars
    PROVE  Bytes(text) \in Nat /\ Bytes(Append(text, ch)) = Bytes(text) + Width[ch]
<1>0. PICK n \in Nat : n = Len(text)
  OBVIOUS
<1> DEFINE new == Append(text, ch)
<1>1. /\ new \in Seq(Chars) /\ n + 1 \in Nat /\ n + 1 = Len(new)
      /\ new[n + 1] = ch /\ \A k \in 1 .. n : new[k] = text[k]
  BY <1>0
<1> HIDE DEF new
<1>2. PICK f : BytesBy(f, text, n)
  BY <1>0, BytesFold
<1>3. PICK g : BytesBy(g, new, n + 1)
  BY <1>1, BytesFold
<1>4. /\ {} \in SUBSET (1 .. n) /\ 1 .. n \in SUBSET (1 .. n) /\ 1 .. n + 1 \in SUBSET (1 .. n + 1)
      /\ \A s \in SUBSET (1 .. n) : s \in SUBSET (1 .. n + 1)
  OBVIOUS
<1>5. SameSteps(f, g, n)
  <2>1. g[{}] = f[{}]
    BY <1>2, <1>3, <1>4 DEF BytesBy
  <2>2. ASSUME NEW s \in SUBSET (1 .. n), s # {}, g[s \ {Max(s)}] = f[s \ {Max(s)}]
        PROVE  g[s] = f[s]
    <3>1. new[Max(s)] = text[Max(s)]
      BY <1>1, <2>2, LastPosition
    <3>2. /\ g[s] = g[s \ {Max(s)}] + Width[new[Max(s)]]
          /\ f[s] = f[s \ {Max(s)}] + Width[text[Max(s)]]
      BY <1>2, <1>3, <1>4, <2>2 DEF BytesBy
    <3> QED  BY <2>2, <3>1, <3>2
  <2> QED  BY <2>1, <2>2 DEF SameSteps
<1>6. g[1 .. n] = f[1 .. n]
  BY <1>4, <1>5, SameFold
<1>7. g[1 .. n + 1] = g[1 .. n] + Width[ch]
  <2>1. Max(1 .. n + 1) = n + 1 /\ (1 .. n + 1) \ {Max(1 .. n + 1)} = 1 .. n /\ 1 .. n + 1 # {}
    BY FullPosition
  <2>2. g[1 .. n + 1] = g[(1 .. n + 1) \ {Max(1 .. n + 1)}] + Width[new[Max(1 .. n + 1)]]
    BY <1>3, <1>4, <2>1 DEF BytesBy
  <2> QED  BY <1>1, <2>1, <2>2
<1>8. f[1 .. n] \in Nat
  BY <1>2, <1>4 DEF BytesBy
<1> QED  BY <1>2, <1>3, <1>6, <1>7, <1>8 DEF BytesBy, new

\* A text has a size, and the sizes of two add up.
LEMMA BytesNat == ASSUME NEW text \in Seq(Chars) PROVE Bytes(text) \in Nat
<1>1. PICK n \in Nat : n = Len(text)
  OBVIOUS
<1>2. PICK f : BytesBy(f, text, n)
  BY <1>1, BytesFold
<1>3. 1 .. n \in SUBSET (1 .. n)
  OBVIOUS
<1> QED  BY <1>2, <1>3 DEF BytesBy

LEMMA BytesConcat ==
    ASSUME NEW a \in Seq(Chars), NEW b \in Seq(Chars)
    PROVE  Bytes(a \o b) = Bytes(a) + Bytes(b)
<1> DEFINE S == {u \in Seq(Chars) : Bytes(a \o u) = Bytes(a) + Bytes(u)}
<1>1. <<>> \in S
  <2>1. a \o <<>> = a /\ <<>> \in Seq(Chars)
    OBVIOUS
  <2> QED  BY <2>1, BytesEmpty, BytesNat
<1>2. ASSUME NEW u \in S, NEW ch \in Chars PROVE Append(u, ch) \in S
  <2>1. a \o Append(u, ch) = Append(a \o u, ch) /\ Append(u, ch) \in Seq(Chars) /\ a \o u \in Seq(Chars)
    OBVIOUS
  <2>2. /\ Bytes(Append(u, ch)) = Bytes(u) + Width[ch] /\ Bytes(u) \in Nat
        /\ Bytes(Append(a \o u, ch)) = Bytes(a \o u) + Width[ch]
    BY <2>1, BytesAppend
  <2>3. Bytes(a) \in Nat /\ Width[ch] \in Nat
    BY BytesNat, TextAssumption
  <2>4. Bytes(a \o u) = Bytes(a) + Bytes(u)
    OBVIOUS
  <2>5. Bytes(a \o Append(u, ch)) = Bytes(Append(a \o u, ch))
    BY <2>1, Zenon
  <2>6. Bytes(a \o Append(u, ch)) = Bytes(a) + Bytes(Append(u, ch))
    <3> HIDE DEF S
    <3> QED  BY <2>2, <2>3, <2>4, <2>5
  <2> QED  BY <2>1, <2>6
<1>3. S = Seq(Chars)
  <2>1. S \subseteq Seq(Chars)
    OBVIOUS
  <2> HIDE DEF S
  <2> QED  BY <1>1, <1>2, <2>1, SeqInductive
<1> QED  BY <1>3

\* Every character takes a byte.
LEMMA BytesPositive ==
    ASSUME NEW text \in Seq(Chars), text # <<>>
    PROVE  Bytes(text) > 0
<1>1. PICK u \in Seq(Chars), ch \in Chars : text = Append(u, ch)
  BY SequenceEmptyOrAppend
<1>2. Bytes(u) \in Nat /\ Bytes(text) = Bytes(u) + Width[ch]
  BY <1>1, BytesAppend
<1>3. Width[ch] \in 1 .. MaxDelta
  BY TextAssumption
<1> QED  BY <1>2, <1>3, SizesAssumption

\* What Fit cuts off a text: a prefix within the limit, and not nothing if one character fits.
LEMMA FitPrefix ==
    ASSUME NEW text \in Seq(Chars), NEW limit \in Nat
    PROVE  /\ \E k \in 0 .. Len(text) : Fit(text, limit) = SubSeq(text, 1, k)
           /\ Fit(text, limit) \in Seq(Chars)
           /\ Bytes(Fit(text, limit)) <= limit
           /\ text # <<>> /\ limit = MaxDelta => Fit(text, limit) # <<>>
<1>0. PICK n \in Nat : n = Len(text)
  OBVIOUS
<1> DEFINE S == {k \in 0 .. Len(text) : Bytes(SubSeq(text, 1, k)) <= limit}
           m == Max(S)
<1>1. Fit(text, limit) = SubSeq(text, 1, m)
  BY DEF Fit
<1>2. SubSeq(text, 1, 0) = <<>>
  OBVIOUS
<1>3. 0 \in S
  <2>1. Bytes(SubSeq(text, 1, 0)) = 0
    BY <1>2, BytesEmpty, Zenon
  <2> QED  BY <1>0, <2>1
<1>4. S \subseteq 0 .. n /\ S # {}
  BY <1>0, <1>3
<1>5. m \in S /\ \A k \in S : k <= m
  <2> HIDE DEF S
  <2> QED  BY <1>4, MaxOf
<1>6. m \in 0 .. Len(text) /\ Bytes(SubSeq(text, 1, m)) <= limit
  BY <1>5
<1>7. SubSeq(text, 1, m) \in Seq(Chars)
  <2> HIDE DEF m
  <2>1. \A i \in 1 .. m : text[i] \in Chars
    BY <1>0, <1>6
  <2> QED  BY <1>6, <2>1, SubSeqProperties
<1>8. ASSUME text # <<>>, limit = MaxDelta PROVE Fit(text, limit) # <<>>
  <2>1. 1 \in 0 .. Len(text) /\ text[1] \in Chars
    BY <1>8
  <2>2. SubSeq(text, 1, 1) = Append(<<>>, text[1])
    <3>1. SubSeq(text, 1, 1) = SubSeq(text, 1, 0) \o <<text[1]>>
      <4>1. 1 \in 1 .. Len(text) /\ 1 - 1 = 0
        BY <2>1
      <4> QED  BY <4>1, SubSeqRecursiveSecond
    <3>2. Append(<<>>, text[1]) = <<>> \o <<text[1]>>
      <4>1. <<>> \in Seq(Chars)
        OBVIOUS
      <4> QED  BY <2>1, <4>1, AppendIsConcat
    <3> QED  BY <1>2, <3>1, <3>2, Zenon
  <2>3. Bytes(SubSeq(text, 1, 1)) = 0 + Width[text[1]]
    <3>1. <<>> \in Seq(Chars)
      OBVIOUS
    <3> QED  BY <2>1, <2>2, <3>1, BytesAppend, BytesEmpty
  <2>4. Width[text[1]] \in 1 .. MaxDelta
    BY <2>1, TextAssumption
  <2>5. 1 \in S
    BY <1>8, <2>1, <2>3, <2>4, SizesAssumption
  <2>6. 1 <= m
    BY <1>5, <2>5
  <2>7. Len(SubSeq(text, 1, m)) = m
    BY <1>0, <1>6
  <2> QED  BY <1>0, <1>1, <1>6, <2>6, <2>7
<1> QED  BY <1>1, <1>6, <1>7, <1>8

-----------------------------------------------------------------------------
(* The events of one turn: Own.                                            *)

\* The events of a turn, as the value of a recursion over positions.
OwnBy(f, A, es, t, n) ==
    /\ f \in [SUBSET (1 .. n) -> Seq(A)]
    /\ Own(es, t) = f[1 .. n]
    /\ \A s \in SUBSET (1 .. n) :
          f[s] = IF s = {} THEN <<>>
                 ELSE IF es[Max(s)].turn = t THEN Append(f[s \ {Max(s)}], es[Max(s)])
                 ELSE f[s \ {Max(s)}]

\* The fold of Own is such a recursion too.
LEMMA OwnFold ==
    ASSUME NEW A, NEW es \in Seq(A), NEW t
    PROVE  \E f : OwnBy(f, A, es, t, Len(es))
<1>0. PICK n \in Nat : n = Len(es)
  OBVIOUS
<1> DEFINE Step(f, s) == IF s = {} THEN <<>>
                         ELSE IF es[Max(s)].turn = t THEN Append(f[s \ {Max(s)}], es[Max(s)])
                         ELSE f[s \ {Max(s)}]
           Next1(own, e) == IF e.turn = t THEN Append(own, e) ELSE own
           F == [p \in Seq(A) \X (1 .. n) |-> Next1(p[1], es[p[2]])]
<1>1. DOMAIN es = 1 .. n /\ \A k \in 1 .. n : es[k] \in A
  BY <1>0
<1>2. Own(es, t) = (CHOOSE f : f = [s \in SUBSET DOMAIN es |-> Step(f, s)])[DOMAIN es]
  BY Zenon DEF Own, FoldLeft, MapThenFoldSet
<1>3. F \in [Seq(A) \X (1 .. n) -> Seq(A)]
  BY <1>1
<1>4. PICK f : Solution(f, Seq(A), <<>>, F, n)
  <2>1. <<>> \in Seq(A)
    OBVIOUS
  <2> HIDE DEF F
  <2> QED  BY <1>3, <2>1, FoldSolved
<1>5. ASSUME NEW s \in SUBSET (1 .. n) PROVE f[s] = Step(f, s)
  <2>1. ASSUME s # {} PROVE F[<<f[s \ {Max(s)}], Max(s)>>] = Next1(f[s \ {Max(s)}], es[Max(s)])
    <3>1. Max(s) \in 1 .. n /\ f[s \ {Max(s)}] \in Seq(A)
      BY <1>4, <2>1, LastPosition DEF Solution
    <3> HIDE DEF Next1
    <3> QED  BY <3>1
  <2> HIDE DEF F
  <2> QED  BY <1>4, <2>1 DEF Solution
<1> HIDE DEF F
<1>6. PICK g : g = [s \in SUBSET (1 .. n) |-> Step(g, s)] /\ Own(es, t) = g[1 .. n]
  <2>1. f = [s \in SUBSET (1 .. n) |-> Step(f, s)]
    BY <1>4, <1>5 DEF Solution
  <2> HIDE DEF Step
  <2> QED  BY <1>1, <1>2, <2>1
<1>7. ASSUME NEW s \in SUBSET (1 .. n) PROVE g[s] = Step(g, s)
  <2> HIDE DEF Step
  <2> QED  BY <1>6
<1>8. SameSteps(f, g, n)
  BY <1>5, <1>7 DEF SameSteps
<1>9. \A s \in SUBSET (1 .. n) : g[s] = f[s]
  BY <1>8, SameFold
<1>10. OwnBy(f, A, es, t, n)
  BY <1>4, <1>5, <1>6, <1>9 DEF OwnBy, Solution
<1> QED  BY <1>0, <1>10

\* The events of a turn among none, and among one more.
LEMMA OwnEmpty == \A t : Own(<<>>, t) = <<>>
<1> TAKE t
<1>1. <<>> \in Seq({}) /\ Len(<<>>) = 0 /\ 1 .. 0 = {} /\ {} \in SUBSET (1 .. 0)
  OBVIOUS
<1>2. PICK f : OwnBy(f, {}, <<>>, t, 0)
  BY <1>1, OwnFold
<1> QED  BY <1>1, <1>2 DEF OwnBy

LEMMA OwnAppend ==
    ASSUME NEW A, NEW es \in Seq(A), NEW e \in A, NEW t
    PROVE  /\ Own(es, t) \in Seq(A)
           /\ Own(Append(es, e), t) = IF e.turn = t THEN Append(Own(es, t), e) ELSE Own(es, t)
<1>0. PICK n \in Nat : n = Len(es)
  OBVIOUS
<1> DEFINE new == Append(es, e)
<1>1. /\ new \in Seq(A) /\ n + 1 \in Nat /\ n + 1 = Len(new)
      /\ new[n + 1] = e /\ \A k \in 1 .. n : new[k] = es[k]
  BY <1>0
<1> HIDE DEF new
<1>2. PICK f : OwnBy(f, A, es, t, n)
  BY <1>0, OwnFold
<1>3. PICK g : OwnBy(g, A, new, t, n + 1)
  BY <1>1, OwnFold
<1>4. /\ {} \in SUBSET (1 .. n) /\ 1 .. n \in SUBSET (1 .. n) /\ 1 .. n + 1 \in SUBSET (1 .. n + 1)
      /\ \A s \in SUBSET (1 .. n) : s \in SUBSET (1 .. n + 1)
  OBVIOUS
<1>5. SameSteps(f, g, n)
  <2>1. g[{}] = f[{}]
    BY <1>2, <1>3, <1>4 DEF OwnBy
  <2>2. ASSUME NEW s \in SUBSET (1 .. n), s # {}, g[s \ {Max(s)}] = f[s \ {Max(s)}]
        PROVE  g[s] = f[s]
    <3>1. new[Max(s)] = es[Max(s)]
      BY <1>1, <2>2, LastPosition
    <3> QED  BY <1>2, <1>3, <1>4, <2>2, <3>1 DEF OwnBy
  <2> QED  BY <2>1, <2>2 DEF SameSteps
<1>6. g[1 .. n] = f[1 .. n]
  BY <1>4, <1>5, SameFold
<1>7. g[1 .. n + 1] = IF e.turn = t THEN Append(g[1 .. n], e) ELSE g[1 .. n]
  <2>1. Max(1 .. n + 1) = n + 1 /\ (1 .. n + 1) \ {Max(1 .. n + 1)} = 1 .. n /\ 1 .. n + 1 # {}
    BY FullPosition
  <2>2. g[1 .. n + 1] = IF new[Max(1 .. n + 1)].turn = t
                        THEN Append(g[(1 .. n + 1) \ {Max(1 .. n + 1)}], new[Max(1 .. n + 1)])
                        ELSE g[(1 .. n + 1) \ {Max(1 .. n + 1)}]
    BY <1>3, <1>4, <2>1 DEF OwnBy
  <2> QED  BY <1>1, <2>1, <2>2
<1>8. f[1 .. n] \in Seq(A)
  BY <1>2, <1>4 DEF OwnBy
<1> QED  BY <1>2, <1>3, <1>6, <1>7, <1>8 DEF OwnBy, new

\* They are events of the conversation.
LEMMA OwnType ==
    ASSUME NEW A, NEW es \in Seq(A), NEW t
    PROVE  Own(es, t) \in Seq(A)
<1>1. CASE A = {}
  <2>1. es = <<>>
    BY <1>1
  <2> QED  BY <2>1, OwnEmpty
<1>2. ASSUME NEW e \in A PROVE Own(es, t) \in Seq(A)
  BY OwnAppend
<1> QED  BY <1>1, <1>2

\* One sequence is put together from two.
Joins(a, b, s) == a \o b = s

\* The events of a turn in two runs, one after the other.
LEMMA OwnConcat ==
    ASSUME NEW a \in Seq(EventType), NEW b \in Seq(EventType), NEW s, Joins(a, b, s), NEW t
    PROVE  Joins(Own(a, t), Own(b, t), Own(s, t))
<1> DEFINE S == {u \in Seq(EventType) : Own(a \o u, t) = Own(a, t) \o Own(u, t)}
<1>0. \A u \in Seq(EventType) : Own(u, t) \in Seq(EventType)
  BY OwnType
<1>1. <<>> \in S
  <2>1. a \o <<>> = a /\ <<>> \in Seq(EventType) /\ Own(a, t) \o <<>> = Own(a, t)
    BY <1>0
  <2>2. Own(a \o <<>>, t) = Own(a, t) \o Own(<<>>, t)
    BY <2>1, OwnEmpty, Zenon
  <2> QED  BY <2>1, <2>2
<1>2. ASSUME NEW u \in S, NEW e \in EventType PROVE Append(u, e) \in S
  <2>1. /\ a \o Append(u, e) = Append(a \o u, e) /\ Append(u, e) \in Seq(EventType)
        /\ a \o u \in Seq(EventType) /\ u \in Seq(EventType)
    OBVIOUS
  <2>2. Own(a \o u, t) = Own(a, t) \o Own(u, t)
    OBVIOUS
  <2> HIDE DEF S
  <2>3. Own(a \o Append(u, e), t) = Own(Append(a \o u, e), t)
    BY <2>1, Zenon
  <2>4. /\ Own(Append(u, e), t) = IF e.turn = t THEN Append(Own(u, t), e) ELSE Own(u, t)
        /\ Own(Append(a \o u, e), t) = IF e.turn = t THEN Append(Own(a \o u, t), e) ELSE Own(a \o u, t)
    <3>1. PICK w \in Seq(EventType) : w = a \o u
      BY <2>1
    <3>2. Own(Append(u, e), t) = IF e.turn = t THEN Append(Own(u, t), e) ELSE Own(u, t)
      BY <2>1, OwnAppend
    <3>3. Own(Append(w, e), t) = IF e.turn = t THEN Append(Own(w, t), e) ELSE Own(w, t)
      BY OwnAppend
    <3> QED  BY <3>1, <3>2, <3>3, Zenon
  <2>5. Append(Own(a, t) \o Own(u, t), e) = Own(a, t) \o Append(Own(u, t), e)
    <3>1. Own(a, t) \in Seq(EventType) /\ Own(u, t) \in Seq(EventType)
      BY <1>0, <2>1
    <3>2. PICK x \in Seq(EventType), y \in Seq(EventType) : x = Own(a, t) /\ y = Own(u, t)
      BY <3>1, Zenon
    <3>3. Append(x \o y, e) = x \o Append(y, e)
      <4>1. x \o y \in Seq(EventType) /\ <<e>> \in Seq(EventType)
        OBVIOUS
      <4>2. Append(x \o y, e) = (x \o y) \o <<e>> /\ Append(y, e) = y \o <<e>>
        BY <4>1, AppendIsConcat
      <4>3. (x \o y) \o <<e>> = x \o (y \o <<e>>)
        BY <4>1, ConcatAssociative
      <4> QED  BY <4>2, <4>3, Zenon
    <3> QED  BY <3>2, <3>3, Zenon
  <2>6. Own(a \o Append(u, e), t) = Own(a, t) \o Own(Append(u, e), t)
    BY <2>2, <2>3, <2>4, <2>5, Zenon
  <2> QED  BY <2>1, <2>6 DEF S
<1>3. S = Seq(EventType)
  <2>1. S \subseteq Seq(EventType)
    OBVIOUS
  <2> HIDE DEF S
  <2> QED  BY <1>1, <1>2, <2>1, SeqInductive
<1>4. Own(a \o b, t) = Own(a, t) \o Own(b, t)
  BY <1>3
<1> QED  BY <1>4, Zenon DEF Joins

\* Where a turn has no events there are none to select.
LEMMA OwnNone ==
    ASSUME NEW A, NEW es \in Seq(A), NEW t, \A i \in 1 .. Len(es) : es[i].turn # t
    PROVE  Own(es, t) = <<>>
<1> DEFINE S == {u \in Seq(A) : (\A i \in 1 .. Len(u) : u[i].turn # t) => Own(u, t) = <<>>}
<1>1. <<>> \in S
  BY OwnEmpty
<1>2. ASSUME NEW u \in S, NEW e \in A PROVE Append(u, e) \in S
  <2> DEFINE new == Append(u, e)
  <2>1. /\ u \in Seq(A) /\ new \in Seq(A) /\ Len(new) = Len(u) + 1 /\ Len(u) \in Nat
        /\ new[Len(u) + 1] = e /\ \A i \in 1 .. Len(u) : new[i] = u[i]
    OBVIOUS
  <2>2. Own(new, t) = IF e.turn = t THEN Append(Own(u, t), e) ELSE Own(u, t)
    BY <2>1, OwnAppend
  <2>3. (\A i \in 1 .. Len(u) : u[i].turn # t) => Own(u, t) = <<>>
    OBVIOUS
  <2> HIDE DEF new, S
  <2>4. ASSUME \A i \in 1 .. Len(new) : new[i].turn # t PROVE Own(new, t) = <<>>
    <3>1. Len(u) + 1 \in 1 .. Len(new) /\ \A i \in 1 .. Len(u) : i \in 1 .. Len(new)
      BY <2>1
    <3>2. e.turn # t
      BY <2>1, <2>4, <3>1
    <3>3. \A i \in 1 .. Len(u) : u[i].turn # t
      BY <2>1, <2>4, <3>1
    <3> QED  BY <2>2, <2>3, <3>2, <3>3
  <2> QED  BY <2>1, <2>4 DEF S, new
<1>3. S = Seq(A)
  <2>1. S \subseteq Seq(A)
    OBVIOUS
  <2> HIDE DEF S
  <2> QED  BY <1>1, <1>2, <2>1, SeqInductive
<1> QED  BY <1>3

-----------------------------------------------------------------------------
(* Sequences put together: FlattenSeq.                                     *)

\* FlattenSeq as the value of a recursion over positions.
FlatStep(f, ss, i) == IF i = 1 THEN ss[i] ELSE f[i - 1] \o ss[i]

\* f holds what the first n sequences are together.
FlatBy(f, A, ss, n) ==
    /\ f \in [1 .. n -> Seq(A)]
    /\ \A i \in 1 .. n : f[i] = FlatStep(f, ss, i)

\* Two sequences with the same first n elements.
AgreeOn(ss, tt, n) == \A i \in 1 .. n : ss[i] = tt[i]

\* There is such an f.
LEMMA FlatSolved ==
    ASSUME NEW A, NEW ss \in Seq(Seq(A)), NEW n \in Nat, n <= Len(ss)
    PROVE  \E f : FlatBy(f, A, ss, n)
<1> DEFINE N == {m \in Nat : m <= Len(ss) => \E f : FlatBy(f, A, ss, m)}
<1>0. Len(ss) \in Nat /\ \A i \in 1 .. Len(ss) : ss[i] \in Seq(A)
  OBVIOUS
<1>1. 0 \in N
  <2>1. FlatBy([i \in 1 .. 0 |-> <<>>], A, ss, 0)
    BY DEF FlatBy
  <2> QED  BY <2>1
<1>2. ASSUME NEW m \in Nat, m \in N PROVE m + 1 \in N
  <2> SUFFICES ASSUME m + 1 <= Len(ss) PROVE \E f : FlatBy(f, A, ss, m + 1)
    OBVIOUS
  <2>1. PICK f : FlatBy(f, A, ss, m)
    BY <1>0, <1>2
  <2> DEFINE g == [i \in 1 .. m + 1 |-> FlatStep(f, ss, i)]
  <2>2. ASSUME NEW i \in 1 .. m + 1 PROVE FlatStep(f, ss, i) \in Seq(A)
    <3>1. ss[i] \in Seq(A)
      BY <1>0
    <3>2. i # 1 => f[i - 1] \in Seq(A)
      BY <2>1 DEF FlatBy
    <3> QED  BY <3>1, <3>2 DEF FlatStep
  <2>3. ASSUME NEW i \in 1 .. m PROVE g[i] = f[i]
    <3>1. i \in 1 .. m + 1
      OBVIOUS
    <3>2. f[i] = FlatStep(f, ss, i)
      BY <2>1 DEF FlatBy
    <3> QED  BY <3>1, <3>2
  <2>4. ASSUME NEW i \in 1 .. m + 1 PROVE g[i] = FlatStep(g, ss, i)
    <3>1. g[i] = FlatStep(f, ss, i)
      OBVIOUS
    <3>2. CASE i = 1
      BY <3>1, <3>2 DEF FlatStep
    <3>3. CASE i # 1
      <4>1. i - 1 \in 1 .. m
        BY <3>3
      <4>2. g[i - 1] = f[i - 1]
        BY <2>3, <4>1
      <4> HIDE DEF g
      <4> QED  BY <3>1, <3>3, <4>2 DEF FlatStep
    <3> QED  BY <3>2, <3>3
  <2>5. g \in [1 .. m + 1 -> Seq(A)]
    BY <2>2
  <2>6. FlatBy(g, A, ss, m + 1)
    <3> HIDE DEF g
    <3> QED  BY <2>4, <2>5 DEF FlatBy
  <2> QED  BY <2>6
<1>3. N = Nat
  <2>1. N \subseteq Nat
    OBVIOUS
  <2> HIDE DEF N
  <2> QED  BY <1>1, <1>2, <2>1, NatInductive
<1> QED  BY <1>3

\* The recursion of FlattenSeq alone, without the types.
FlatSteps(f, ss, n) == \A i \in 1 .. n : f[i] = FlatStep(f, ss, i)

\* It has one solution.
LEMMA FlatSame ==
    ASSUME NEW ss, NEW tt, NEW n \in Nat, AgreeOn(ss, tt, n),
           NEW f, NEW g, FlatSteps(f, ss, n), FlatSteps(g, tt, n)
    PROVE  AgreeOn(f, g, n)
<1> DEFINE N == {k \in Nat : k + 1 <= n => g[k + 1] = f[k + 1]}
<1>1. 0 \in N
  <2>1. 0 + 1 = 1 /\ (1 <= n => 1 \in 1 .. n)
    OBVIOUS
  <2>2. 1 <= n => g[1] = f[1]
    BY <2>1 DEF FlatSteps, FlatStep, AgreeOn
  <2> QED  BY <2>1, <2>2
<1>2. ASSUME NEW k \in Nat, k \in N PROVE k + 1 \in N
  <2>1. PICK i \in Nat : i = (k + 1) + 1
    OBVIOUS
  <2>2. i # 1 /\ i - 1 = k + 1 /\ (i <= n => i \in 1 .. n /\ k + 1 <= n)
    BY <2>1
  <2>3. k + 1 <= n => g[k + 1] = f[k + 1]
    BY <1>2
  <2> HIDE DEF N
  <2>4. ASSUME i <= n PROVE g[i] = f[i]
    <3>1. g[i] = g[i - 1] \o tt[i] /\ f[i] = f[i - 1] \o ss[i] /\ ss[i] = tt[i]
      BY <2>2, <2>4 DEF FlatSteps, FlatStep, AgreeOn
    <3> QED  BY <2>2, <2>3, <2>4, <3>1
  <2> QED  BY <2>1, <2>4 DEF N
<1>3. N = Nat
  <2>1. N \subseteq Nat
    OBVIOUS
  <2> HIDE DEF N
  <2> QED  BY <1>1, <1>2, <2>1, NatInductive
<1>4. ASSUME NEW i \in 1 .. n PROVE f[i] = g[i]
  <2>1. PICK k \in Nat : k + 1 = i
    <3>1. i - 1 \in Nat /\ (i - 1) + 1 = i
      OBVIOUS
    <3> QED  BY <3>1
  <2>2. k \in N
    <3> HIDE DEF N
    <3> QED  BY <1>3
  <2>3. k + 1 <= n
    BY <2>1
  <2> QED  BY <2>1, <2>2, <2>3
<1> QED  BY <1>4 DEF AgreeOn

\* FlattenSeq is the last value of the recursion.
LEMMA FlattenIs ==
    ASSUME NEW A, NEW ss \in Seq(Seq(A)), ss # <<>>
    PROVE  \E f : FlatBy(f, A, ss, Len(ss)) /\ FlattenSeq(ss) = f[Len(ss)]
<1>0. PICK n \in Nat : n = Len(ss) /\ n # 0
  OBVIOUS
<1>1. FlattenSeq(ss) = (CHOOSE f : f = [i \in 1 .. Len(ss) |-> FlatStep(f, ss, i)])[Len(ss)]
  BY <1>0, Zenon DEF FlattenSeq, FlatStep
<1>2. PICK f : FlatBy(f, A, ss, n)
  BY <1>0, FlatSolved
<1>3. f = [i \in 1 .. n |-> FlatStep(f, ss, i)]
  BY <1>2 DEF FlatBy
<1>4. PICK g : g = [i \in 1 .. n |-> FlatStep(g, ss, i)] /\ FlattenSeq(ss) = g[n]
  BY <1>0, <1>1, <1>3
<1>5. AgreeOn(f, g, n)
  <2>1. FlatSteps(f, ss, n)
    BY <1>2 DEF FlatBy, FlatSteps
  <2>2. FlatSteps(g, ss, n)
    BY <1>4 DEF FlatSteps
  <2>3. AgreeOn(ss, ss, n)
    BY DEF AgreeOn
  <2> QED  BY <2>1, <2>2, <2>3, FlatSame
<1>6. n \in 1 .. n
  BY <1>0
<1>7. f[n] = g[n]
  BY <1>5, <1>6 DEF AgreeOn
<1> QED  BY <1>0, <1>2, <1>4, <1>7

\* FlattenSeq of nothing, and of one sequence more.
LEMMA FlattenEmpty == FlattenSeq(<<>>) = <<>>
BY DEF FlattenSeq

LEMMA FlattenAppend ==
    ASSUME NEW A, NEW ss \in Seq(Seq(A)), NEW x \in Seq(A)
    PROVE  /\ FlattenSeq(ss) \in Seq(A)
           /\ FlattenSeq(Append(ss, x)) = FlattenSeq(ss) \o x
<1>0. PICK n \in Nat : n = Len(ss)
  OBVIOUS
<1> DEFINE new == Append(ss, x)
<1>1. /\ new \in Seq(Seq(A)) /\ n + 1 = Len(new) /\ new # <<>> /\ n + 1 \in Nat
      /\ new[n + 1] = x /\ \A k \in 1 .. n : ss[k] = new[k]
  BY <1>0
<1>a. new = Append(ss, x)
  OBVIOUS
<1> HIDE DEF new
<1>2. PICK g : FlatBy(g, A, new, n + 1) /\ FlattenSeq(new) = g[n + 1]
  BY <1>1, FlattenIs
<1>3. CASE ss = <<>>
  <2>1. n = 0 /\ n + 1 = 1 /\ 1 \in 1 .. n + 1
    BY <1>0, <1>3
  <2>2. g[1] = new[1] /\ new[1] = x
    BY <1>1, <1>2, <2>1 DEF FlatBy, FlatStep
  <2>3. <<>> \o x = x /\ <<>> \in Seq(A)
    OBVIOUS
  <2>4. FlattenSeq(ss) = <<>>
    BY <1>3, FlattenEmpty, Zenon
  <2>5. FlattenSeq(new) = x
    BY <1>2, <2>1, <2>2
  <2> QED  BY <1>a, <2>3, <2>4, <2>5
<1>4. CASE ss # <<>>
  <2>1. PICK f : FlatBy(f, A, ss, n) /\ FlattenSeq(ss) = f[n]
    BY <1>0, <1>4, FlattenIs
  <2>2. n \in 1 .. n /\ n + 1 \in 1 .. n + 1 /\ n + 1 # 1 /\ (n + 1) - 1 = n
    BY <1>0, <1>4
  <2>3. FlatSteps(f, ss, n)
    BY <2>1 DEF FlatBy, FlatSteps
  <2>4. FlatSteps(g, new, n)
    <3>1. \A i \in 1 .. n : i \in 1 .. n + 1
      OBVIOUS
    <3> QED  BY <1>2, <3>1 DEF FlatBy, FlatSteps
  <2>5. AgreeOn(ss, new, n)
    BY <1>1 DEF AgreeOn
  <2>6. AgreeOn(f, g, n)
    BY <2>3, <2>4, <2>5, FlatSame
  <2>7. f[n] = g[n]
    BY <2>2, <2>6 DEF AgreeOn
  <2>8. g[n + 1] = g[(n + 1) - 1] \o new[n + 1]
    BY <1>2, <2>2 DEF FlatBy, FlatStep
  <2>9. f[n] \in Seq(A)
    BY <2>1, <2>2 DEF FlatBy
  <2>10. FlattenSeq(new) = f[n] \o x
    BY <1>1, <1>2, <2>2, <2>7, <2>8
  <2> QED  BY <1>a, <2>1, <2>9, <2>10
<1> QED  BY <1>3, <1>4

-----------------------------------------------------------------------------
(* Texts and their prefixes: TextOf, Fit, Extend.                          *)

\* The text of no events, and of one event more.
LEMMA TextEmpty == TextOf(<<>>) = <<>>
<1>1. [i \in DOMAIN <<>> |-> <<>>[i].text] = <<>>
  OBVIOUS
<1> QED  BY <1>1, FlattenEmpty, Zenon DEF TextOf

LEMMA TextAppend ==
    ASSUME NEW es \in Seq(EventType), NEW e \in EventType
    PROVE  TextOf(es) \in Seq(Chars) /\ TextOf(Append(es, e)) = TextOf(es) \o e.text
<1>0. PICK n \in Nat : n = Len(es)
  OBVIOUS
<1> DEFINE new == Append(es, e)
           ss == [i \in DOMAIN es |-> es[i].text]
           tt == [i \in DOMAIN new |-> new[i].text]
<1>1. DOMAIN es = 1 .. n /\ DOMAIN new = 1 .. n + 1 /\ new[n + 1] = e /\ \A i \in 1 .. n : new[i] = es[i]
  BY <1>0
<1>2. e.text \in Seq(Chars) /\ \A i \in 1 .. n : es[i].text \in Seq(Chars)
  <2>1. \A i \in 1 .. n : es[i] \in EventType
    BY <1>0
  <2>2. \A x \in EventType : x.text \in Seq(Chars)
    BY DEF EventType
  <2> QED  BY <2>1, <2>2
<1>3. TextOf(es) = FlattenSeq(ss) /\ TextOf(new) = FlattenSeq(tt)
  BY Zenon DEF TextOf
<1> HIDE DEF new
<1>4. ss \in Seq(Seq(Chars)) /\ Len(ss) = n
  BY <1>1, <1>2
<1>5. tt = Append(ss, e.text)
  BY <1>1, <1>4
<1> HIDE DEF ss, tt
<1>6. PICK x \in Seq(Chars) : x = e.text
  BY <1>2
<1>7. FlattenSeq(ss) \in Seq(Chars) /\ FlattenSeq(Append(ss, x)) = FlattenSeq(ss) \o x
  BY <1>4, FlattenAppend
<1> QED  BY <1>3, <1>5, <1>6, <1>7, Zenon DEF new

\* The text of events is a text, and that of two runs of events is theirs joined.
LEMMA TextType ==
    ASSUME NEW es \in Seq(EventType)
    PROVE  TextOf(es) \in Seq(Chars)
<1>1. CASE EventType = {}
  <2>1. es = <<>>
    BY <1>1
  <2>2. TextOf(es) = <<>>
    BY <2>1, TextEmpty, Zenon
  <2> QED  BY <2>2
<1>2. ASSUME NEW e \in EventType PROVE TextOf(es) \in Seq(Chars)
  BY TextAppend
<1> QED  BY <1>1, <1>2

LEMMA TextConcat ==
    ASSUME NEW a \in Seq(EventType), NEW b \in Seq(EventType)
    PROVE  TextOf(a \o b) = TextOf(a) \o TextOf(b)
<1> DEFINE S == {u \in Seq(EventType) : TextOf(a \o u) = TextOf(a) \o TextOf(u)}
<1>0. PICK x \in Seq(Chars) : x = TextOf(a)
  BY TextType
<1>1. <<>> \in S
  <2>1. a \o <<>> = a /\ <<>> \in Seq(EventType) /\ x \o <<>> = x
    OBVIOUS
  <2>2. TextOf(a \o <<>>) = TextOf(a) \o TextOf(<<>>)
    BY <1>0, <2>1, TextEmpty, Zenon
  <2> QED  BY <2>1, <2>2
<1>2. ASSUME NEW u \in S, NEW e \in EventType PROVE Append(u, e) \in S
  <2>1. u \in Seq(EventType) /\ TextOf(a \o u) = TextOf(a) \o TextOf(u)
    OBVIOUS
  <2> HIDE DEF S
  <2>2. PICK w \in Seq(EventType) : w = a \o u
    BY <2>1, ConcatProperties
  <2>3. a \o Append(u, e) = Append(w, e) /\ Append(u, e) \in Seq(EventType)
    BY <2>1, <2>2
  <2>4. TextOf(Append(w, e)) = TextOf(w) \o e.text /\ TextOf(Append(u, e)) = TextOf(u) \o e.text
    BY <2>1, TextAppend
  <2>5. PICK y \in Seq(Chars), z \in Seq(Chars) : y = TextOf(u) /\ z = e.text
    <3>1. TextOf(u) \in Seq(Chars) /\ e.text \in Seq(Chars)
      BY <2>1, TextType DEF EventType
    <3> QED  BY <3>1
  <2>6. (x \o y) \o z = x \o (y \o z)
    BY ConcatAssociative
  <2>7. TextOf(a \o Append(u, e)) = TextOf(a) \o TextOf(Append(u, e))
    BY <1>0, <2>1, <2>2, <2>3, <2>4, <2>5, <2>6, Zenon
  <2> QED  BY <2>3, <2>7 DEF S
<1>3. S = Seq(EventType)
  <2>1. S \subseteq Seq(EventType)
    OBVIOUS
  <2> HIDE DEF S
  <2> QED  BY <1>1, <1>2, <2>1, SeqInductive
<1> QED  BY <1>3

\* A prefix is what comes before the rest.
LEMMA PrefixRest ==
    ASSUME NEW A, NEW a \in Seq(A), NEW t \in Seq(A), IsPrefix(a, t)
    PROVE  \E x \in Seq(A) : t = a \o x
<1>1. Len(a) \in Nat /\ Len(t) \in Nat /\ Len(a) <= Len(t)
  BY DEF IsPrefix
<1>2. SubSeq(a, 1, Len(a)) = SubSeq(t, 1, Len(a))
  BY Zenon DEF IsPrefix
<1>3. SubSeq(a, 1, Len(a)) = a /\ SubSeq(t, 1, Len(t)) = t
  BY SubSeqFull
<1>4. PICK n \in Nat, k \in Nat : n = Len(a) /\ k = Len(t)
  BY <1>1
<1>5. SubSeq(t, 1, n) \o SubSeq(t, n + 1, k) = SubSeq(t, 1, k)
  <2>1. 1 \in 1 .. Len(t) + 1 /\ n \in 1 - 1 .. Len(t) /\ k \in n .. Len(t)
    BY <1>1, <1>4
  <2> QED  BY <2>1, ConcatAdjacentSubSeq
<1>6. SubSeq(t, n + 1, k) \in Seq(A)
  <2>1. \A i \in n + 1 .. k : t[i] \in A
    BY <1>1, <1>4
  <2> QED  BY <2>1, SubSeqProperties
<1> QED  BY <1>2, <1>3, <1>4, <1>5, <1>6, Zenon

\* What comes first is a prefix.
LEMMA RestPrefix ==
    ASSUME NEW A, NEW a \in Seq(A), NEW x \in Seq(A)
    PROVE  IsPrefix(a, a \o x)
<1>1. Len(a) \in Nat /\ Len(x) \in Nat /\ Len(a \o x) = Len(a) + Len(x)
  OBVIOUS
<1>2. SubSeq(a \o x, 1, Len(a)) = a
  BY SubSeqOfConcat1, <1>1
<1>3. SubSeq(a, 1, Len(a)) = a
  BY SubSeqFull
<1>4. Len(a) <= Len(a \o x)
  BY <1>1
<1> QED  BY <1>2, <1>3, <1>4, Zenon DEF IsPrefix

\* It stays one when the text grows.
LEMMA PrefixGrows ==
    ASSUME NEW A, NEW a \in Seq(A), NEW t \in Seq(A), IsPrefix(a, t), NEW y \in Seq(A)
    PROVE  IsPrefix(a, t \o y)
<1>1. PICK x \in Seq(A) : t = a \o x
  BY PrefixRest
<1>2. (a \o x) \o y = a \o (x \o y)
  BY ConcatAssociative
<1>3. PICK z \in Seq(A) : z = x \o y
  BY ConcatProperties
<1>4. IsPrefix(a, a \o z)
  BY RestPrefix
<1> QED  BY <1>1, <1>2, <1>3, <1>4, Zenon

\* A prefix with as many bytes as the text is the text.
LEMMA PrefixWhole ==
    ASSUME NEW a \in Seq(Chars), NEW t \in Seq(Chars), IsPrefix(a, t), Bytes(a) = Bytes(t)
    PROVE  a = t
<1>1. PICK x \in Seq(Chars) : t = a \o x
  BY PrefixRest
<1>2. Bytes(a \o x) = Bytes(a) + Bytes(x)
  BY BytesConcat
<1>3. Bytes(a) \in Nat /\ Bytes(x) \in Nat
  BY BytesNat
<1>4. Bytes(t) = Bytes(a \o x)
  BY <1>1, Zenon
<1>5. Bytes(x) = 0
  BY <1>2, <1>3, <1>4
<1>6. x = <<>>
  BY <1>5, BytesPositive
<1>7. a \o <<>> = a
  BY ConcatEmptySeq
<1> QED  BY <1>1, <1>6, <1>7, Zenon

\* The chunk that Fit cuts off, and what is left, are the text.
LEMMA FitSplits ==
    ASSUME NEW text \in Seq(Chars), NEW limit \in Nat
    PROVE  /\ SubSeq(text, Len(Fit(text, limit)) + 1, Len(text)) \in Seq(Chars)
           /\ Fit(text, limit) \o SubSeq(text, Len(Fit(text, limit)) + 1, Len(text)) = text
<1>1. PICK k \in 0 .. Len(text) : Fit(text, limit) = SubSeq(text, 1, k)
  BY FitPrefix
<1>2. PICK n \in Nat : n = Len(text)
  OBVIOUS
<1>3. k \in Nat /\ k <= n
  BY <1>1, <1>2
<1>4. Len(SubSeq(text, 1, k)) = k
  <2>1. \A i \in 1 .. k : text[i] \in Chars
    BY <1>2, <1>3
  <2>2. 1 \in Int /\ k \in Int
    BY <1>3
  <2>3. Len(SubSeq(text, 1, k)) = IF 1 <= k THEN k - 1 + 1 ELSE 0
    BY <2>1, <2>2, SubSeqProperties
  <2> QED  BY <1>3, <2>3
<1>5. SubSeq(text, k + 1, n) \in Seq(Chars)
  <2>1. \A i \in k + 1 .. n : text[i] \in Chars
    BY <1>2, <1>3
  <2>2. k + 1 \in Int /\ n \in Int
    BY <1>3
  <2> QED  BY <2>1, <2>2, SubSeqProperties
<1>6. SubSeq(text, 1, k) \o SubSeq(text, k + 1, n) = SubSeq(text, 1, n)
  <2>1. 1 \in 1 .. Len(text) + 1 /\ k \in 1 - 1 .. Len(text) /\ n \in k .. Len(text)
    BY <1>2, <1>3
  <2> QED  BY <2>1, ConcatAdjacentSubSeq
<1>7. SubSeq(text, 1, Len(text)) = text
  BY SubSeqFull
<1> QED  BY <1>1, <1>2, <1>4, <1>5, <1>6, <1>7, Zenon

\* update_assistant_preview keeps a prefix of the text and the limit of previews.
LEMMA ExtendPrefix ==
    ASSUME NEW body \in Seq(Chars), NEW text \in Seq(Chars), NEW chunk \in Seq(Chars),
           IsPrefix(body, text), Bytes(body) <= MaxPreview
    PROVE  /\ Extend(body, Bytes(text), chunk) \in Seq(Chars)
           /\ IsPrefix(Extend(body, Bytes(text), chunk), text \o chunk)
           /\ Bytes(Extend(body, Bytes(text), chunk)) <= MaxPreview
<1> DEFINE limit == MaxPreview - Bytes(body)
           more  == Fit(chunk, limit)
           left  == SubSeq(chunk, Len(more) + 1, Len(chunk))
<1>1. CASE Bytes(body) = Bytes(text)
  <2>1. Extend(body, Bytes(text), chunk) = body \o more
    BY <1>1, Zenon DEF Extend
  <2>2. limit \in Nat /\ Bytes(body) \in Nat
    BY BytesNat, SizesAssumption
  <2>3. more \in Seq(Chars) /\ Bytes(more) <= limit
    <3> HIDE DEF limit
    <3> QED  BY <2>2, FitPrefix
  <2>4. left \in Seq(Chars) /\ more \o left = chunk
    <3> HIDE DEF limit
    <3> QED  BY <2>2, FitSplits
  <2>5. body = text
    BY <1>1, PrefixWhole
  <2>6. Bytes(more) \in Nat
    BY <2>3, BytesNat
  <2> HIDE DEF more, left
  <2>7. Bytes(body \o more) = Bytes(body) + Bytes(more)
    BY <2>3, BytesConcat
  <2>8. Bytes(body \o more) <= MaxPreview
    BY <2>2, <2>3, <2>6, <2>7, SizesAssumption
  <2>9. PICK x \in Seq(Chars), y \in Seq(Chars) : x = more /\ y = left
    BY <2>3, <2>4
  <2>14. (body \o x) \o y = body \o (x \o y)
    BY ConcatAssociative
  <2>10. PICK w \in Seq(Chars) : w = body \o x
    BY ConcatProperties
  <2>11. IsPrefix(w, w \o left)
    BY <2>4, RestPrefix
  <2>12. IsPrefix(body \o more, text \o chunk)
    BY <2>4, <2>5, <2>9, <2>10, <2>11, <2>14, Zenon
  <2>13. body \o more \in Seq(Chars)
    BY <2>3
  <2> QED  BY <2>1, <2>8, <2>12, <2>13, Zenon
<1>2. CASE Bytes(body) # Bytes(text)
  <2>1. Extend(body, Bytes(text), chunk) = body
    BY <1>2, Zenon DEF Extend
  <2>2. IsPrefix(body, text \o chunk)
    BY PrefixGrows
  <2> QED  BY <2>1, <2>2, Zenon
<1> QED  BY <1>1, <1>2

-----------------------------------------------------------------------------
(* The history of a turn: Questions, Context.                              *)

\* The questions whose turn has succeeded.
Answered(A) == {m \in A : m.role = "user" /\ status[m.turn] = "succeeded"}

\* The fold of Questions selects nothing else.
LEMMA QuestionsAnswered ==
    ASSUME NEW A, NEW c, messages[c] \in Seq(A)
    PROVE  Questions(c) \in Seq(Answered(A))
<1>a. PICK ms \in Seq(A) : ms = messages[c]
  OBVIOUS
<1>b. PICK Q : Q = Answered(A)
  OBVIOUS
<1>0. PICK n \in Nat : n = Len(ms)
  OBVIOUS
<1> DEFINE Asks(m) == m.role = "user" /\ status[m.turn] = "succeeded"
           Next1(later, m) == IF Asks(m) THEN <<m>> \o later ELSE later
           Step(f, s) == IF s = {} THEN <<>> ELSE Next1(f[s \ {Max(s)}], ms[Max(s)])
           F == [p \in Seq(Q) \X (1 .. n) |-> Next1(p[1], ms[p[2]])]
<1>1. DOMAIN ms = 1 .. n /\ \A k \in 1 .. n : ms[k] \in A
  BY <1>0
<1>2. Questions(c) = (CHOOSE f : f = [s \in SUBSET DOMAIN ms |-> Step(f, s)])[DOMAIN ms]
  BY <1>a, Zenon DEF Questions, FoldLeft, MapThenFoldSet
<1>c. ASSUME NEW later \in Seq(Q), NEW m \in A PROVE Next1(later, m) \in Seq(Q)
  <2>1. CASE Asks(m)
    <3>1. m \in Q
      BY <1>b, <2>1 DEF Answered
    <3>2. <<m>> \in Seq(Q)
      BY <3>1
    <3>3. <<m>> \o later \in Seq(Q)
      BY <3>2, ConcatProperties
    <3> QED  BY <2>1, <3>3, Zenon
  <2>2. CASE ~Asks(m)
    BY <2>2
  <2> QED  BY <2>1, <2>2
<1> HIDE DEF Next1
<1>3. F \in [Seq(Q) \X (1 .. n) -> Seq(Q)]
  BY <1>1, <1>c
<1>4. PICK f : Solution(f, Seq(Q), <<>>, F, n)
  <2>1. <<>> \in Seq(Q)
    OBVIOUS
  <2> HIDE DEF F
  <2> QED  BY <1>3, <2>1, FoldSolved
<1>5. ASSUME NEW s \in SUBSET (1 .. n) PROVE f[s] = Step(f, s)
  <2>1. ASSUME s # {} PROVE F[<<f[s \ {Max(s)}], Max(s)>>] = Next1(f[s \ {Max(s)}], ms[Max(s)])
    <3>1. Max(s) \in 1 .. n /\ f[s \ {Max(s)}] \in Seq(Q)
      BY <1>4, <2>1, LastPosition DEF Solution
    <3> QED  BY <3>1
  <2> HIDE DEF F
  <2> QED  BY <1>4, <2>1 DEF Solution
<1> HIDE DEF F
<1>6. PICK g : g = [s \in SUBSET (1 .. n) |-> Step(g, s)] /\ Questions(c) = g[1 .. n]
  <2>1. f = [s \in SUBSET (1 .. n) |-> Step(f, s)]
    BY <1>4, <1>5 DEF Solution
  <2> HIDE DEF Step
  <2> QED  BY <1>1, <1>2, <2>1
<1>7. ASSUME NEW s \in SUBSET (1 .. n) PROVE g[s] = Step(g, s)
  <2> HIDE DEF Step
  <2> QED  BY <1>6
<1>8. SameSteps(f, g, n)
  BY <1>5, <1>7 DEF SameSteps
<1>9. 1 .. n \in SUBSET (1 .. n) /\ \A s \in SUBSET (1 .. n) : g[s] = f[s]
  BY <1>8, SameFold
<1>10. f[1 .. n] \in Seq(Q)
  BY <1>4, <1>9 DEF Solution
<1> QED  BY <1>b, <1>6, <1>9, <1>10

\* What v4_turn_context accepts of an answered question.
Reads(m) ==
    /\ m.bytes \in Int
    /\ IF MessageAt(m.turn, "assistant") = 0 THEN EmptySuccess(m.turn)
       ELSE Reply(m.turn).bytes \in Int /\ PairReadable(m.turn)

\* v4_turn_context accepts a history of which it accepts every turn.
LEMMA ContextReads ==
    ASSUME NEW t, NEW Q, Questions(ConversationOf[t]) \in Seq(Q), \A m \in Q : Reads(m)
    PROVE  Context(t).readable
<1>a. PICK ms \in Seq(Q) : ms = Questions(ConversationOf[t])
  OBVIOUS
<1>0. PICK n \in Nat : n = Len(ms)
  OBVIOUS
<1> DEFINE V == [left : Int, truncated : BOOLEAN, readable : {TRUE}]
           base == [left |-> ContextBytes, truncated |-> FALSE, readable |-> TRUE]
           Pair(acc, m) ==
            IF MessageAt(m.turn, "assistant") = 0
            THEN [acc EXCEPT !.readable = @ /\ EmptySuccess(m.turn)]
            ELSE LET size == m.bytes + Reply(m.turn).bytes
                 IN  IF size > acc.left
                     THEN [acc EXCEPT !.truncated = TRUE,
                                      !.readable = @ /\ PairFound(m.turn)]
                     ELSE [acc EXCEPT !.left = @ - size, !.readable = @ /\ PairReadable(m.turn)]
           Step(f, s) == IF s = {} THEN base ELSE Pair(f[s \ {Max(s)}], ms[Max(s)])
           F == [p \in V \X (1 .. n) |-> Pair(p[1], ms[p[2]])]
<1>1. DOMAIN ms = 1 .. n /\ \A k \in 1 .. n : ms[k] \in Q
  BY <1>0
<1>2. Context(t) = (CHOOSE f : f = [s \in SUBSET DOMAIN ms |-> Step(f, s)])[DOMAIN ms]
  <2>1. Context(t) = FoldLeft(Pair, base, ms)
    BY <1>a, Zenon DEF Context
  <2> HIDE DEF Pair, base
  <2> QED  BY <2>1, Zenon DEF FoldLeft, MapThenFoldSet
<1>b. base \in V
  BY SizesAssumption
<1>c. ASSUME NEW acc \in V, NEW m \in Q PROVE Pair(acc, m) \in V
  <2>1. Reads(m)
    OBVIOUS
  <2>2. CASE MessageAt(m.turn, "assistant") = 0
    <3>1. EmptySuccess(m.turn) = TRUE
      BY <2>1, <2>2, Zenon DEF Reads, EmptySuccess
    <3> HIDE DEF V
    <3>2. Pair(acc, m) = [acc EXCEPT !.readable = acc.readable /\ TRUE]
      BY <2>2, <3>1, Zenon
    <3> HIDE DEF Pair
    <3> QED  BY <3>2 DEF V
  <2>3. CASE MessageAt(m.turn, "assistant") # 0
    <3> DEFINE size == m.bytes + Reply(m.turn).bytes
    <3>1. PairReadable(m.turn) = TRUE /\ PairFound(m.turn) = TRUE
      BY <2>1, <2>3, Zenon DEF Reads, PairReadable, PairFound
    <3>2. size \in Int
      BY <2>1, <2>3 DEF Reads
    <3> HIDE DEF V
    <3>3. CASE size > acc.left
      <4>1. Pair(acc, m) = [acc EXCEPT !.truncated = TRUE, !.readable = acc.readable /\ TRUE]
        BY <2>3, <3>1, <3>3, Zenon
      <4> HIDE DEF Pair, size
      <4> QED  BY <4>1 DEF V
    <3>4. CASE ~(size > acc.left)
      <4>1. Pair(acc, m) = [acc EXCEPT !.left = acc.left - size, !.readable = acc.readable /\ TRUE]
        BY <2>3, <3>1, <3>4, Zenon
      <4> HIDE DEF Pair, size
      <4>2. acc.left \in Int
        BY DEF V
      <4>3. PICK l \in Int : l = acc.left - size
        BY <3>2, <4>2
      <4>4. Pair(acc, m) = [acc EXCEPT !.left = l, !.readable = acc.readable /\ TRUE]
        BY <4>1, <4>3, Zenon
      <4> QED  BY <4>4 DEF V
    <3> QED  BY <3>3, <3>4
  <2> QED  BY <2>2, <2>3
<1> HIDE DEF Pair, base, V
<1>3. F \in [V \X (1 .. n) -> V]
  BY <1>1, <1>c
<1>4. PICK f : Solution(f, V, base, F, n)
  <2> HIDE DEF F
  <2> QED  BY <1>3, <1>b, FoldSolved
<1>5. ASSUME NEW s \in SUBSET (1 .. n) PROVE f[s] = Step(f, s)
  <2>1. ASSUME s # {} PROVE F[<<f[s \ {Max(s)}], Max(s)>>] = Pair(f[s \ {Max(s)}], ms[Max(s)])
    <3>1. Max(s) \in 1 .. n /\ f[s \ {Max(s)}] \in V
      BY <1>4, <2>1, LastPosition DEF Solution
    <3> QED  BY <3>1
  <2> HIDE DEF F
  <2> QED  BY <1>4, <2>1 DEF Solution
<1> HIDE DEF F
<1>6. PICK g : g = [s \in SUBSET (1 .. n) |-> Step(g, s)] /\ Context(t) = g[1 .. n]
  <2>1. f = [s \in SUBSET (1 .. n) |-> Step(f, s)]
    BY <1>4, <1>5 DEF Solution
  <2> HIDE DEF Step
  <2> QED  BY <1>1, <1>2, <2>1
<1>7. ASSUME NEW s \in SUBSET (1 .. n) PROVE g[s] = Step(g, s)
  <2> HIDE DEF Step
  <2> QED  BY <1>6
<1>8. SameSteps(f, g, n)
  BY <1>5, <1>7 DEF SameSteps
<1>9. 1 .. n \in SUBSET (1 .. n) /\ \A s \in SUBSET (1 .. n) : g[s] = f[s]
  BY <1>8, SameFold
<1>10. f[1 .. n] \in V
  BY <1>4, <1>9 DEF Solution
<1>11. Context(t) \in V
  BY <1>6, <1>9, <1>10
<1> QED  BY <1>11 DEF V

-----------------------------------------------------------------------------
(* The texts of turns.                                                     *)

\* A row of the messages of a conversation; replies keep to their limits.
MessageRows(c) ==
    {m \in MessageType : /\ ConversationOf[m.turn] = c
                         /\ m.role = "assistant" => m.bytes <= MaxText /\ Bytes(m.body) <= MaxPreview}

\* The rows of a conversation; only turns that were admitted have messages.
Table(c) ==
    /\ messages[c] \in Seq(MessageRows(c))
    /\ events[c] \in Seq(EventType) /\ Len(events[c]) <= MaxSequence
    /\ \A i \in DOMAIN messages[c] : status[messages[c][i].turn] # Absent

\* The rows of every conversation.
Tables ==
    /\ messages = [c \in Conversations |-> messages[c]]
    /\ events = [c \in Conversations |-> events[c]]
    /\ \A c \in Conversations : Table(c)

\* What the events of a turn look like: only the first can be a notice, and only the last of a
\* turn that has ended is its marker.
Told(es, t, state) ==
    /\ \A k \in DOMAIN es : es[k].kind = "notice" => k = 1 /\ es[k] = NoticeEvent(t)
    /\ \A k \in DOMAIN es : es[k].kind = "terminal" <=> state \in Terminal /\ k = Len(es)
    /\ state \in Terminal => es # <<>> /\ es[Len(es)] = TerminalEvent(t, state)

\* What a reply holds of the text, and what there is without one.
Quotes(es, body, bytes) ==
    /\ TextOf(es) # <<>> /\ IsPrefix(body, TextOf(es)) /\ bytes = Bytes(TextOf(es))

Silent(es) == TextOf(es) = <<>> /\ \A k \in DOMAIN es : es[k].kind # "text"

\* The reply of a turn is faithful to its events.
Previewed(t) ==
    IF MessageAt(t, "assistant") = 0 THEN Silent(EventsOf(t))
    ELSE Quotes(EventsOf(t), Reply(t).body, Reply(t).bytes)

\* All that is known of the rows of a turn that can be read.
Content(t) == Shown(t) => Told(EventsOf(t), t, status[t]) /\ Previewed(t)

\* The same of every turn.
Contents == \A t \in Turns : Content(t)

\* A turn has no events before its prompt is built.
QueuedFresh == \A t \in Turns : status[t] = "queued" => EventsOf(t) = <<>>
WorkerFresh == worker.stage \in {"starting", "prompt"} => EventsOf(worker.turn) = <<>>

\* The worker's turn is in flight until it is settled, and as long as nothing went wrong what is
\* stored and what is left of the delta is what the provider said.
Streams ==
    /\ worker.stage \in {"starting", "prompt", "opening", "streaming", "closed"} =>
           status[worker.turn] \in InFlight
    /\ rest # <<>> => worker.stage = "streaming"
    /\ worker.stage \in {"starting", "prompt", "opening"} => spoken = <<>>
    /\ worker.stage \in {"opening", "streaming", "closed"} /\ ~worker.invalid =>
           TextOf(EventsOf(worker.turn)) \o rest = FlattenSeq(spoken)

\* A reader has read the text up to its cursor, and stops at the marker.
ReadSoFar(r, es, t) ==
    /\ r.after <= Len(es)
    /\ r.text = TextOf(Own(SubSeq(es, 1, r.after), t))
    /\ r.done => r.after > 0 /\ es[r.after].turn = t /\ es[r.after].kind = "terminal"

\* Every reader; one of a conversation that does not exist yet has read nothing.
Readers ==
    \A t \in Reading :
        /\ conversation[ConversationOf[t]] = "absent" =>
               reader[t] = [after |-> 0, text |-> <<>>, done |-> FALSE]
        /\ conversation[ConversationOf[t]] = "open" =>
               ReadSoFar(reader[t], events[ConversationOf[t]], t)

\* The types of what is not stored.
Volatile ==
    /\ items \subseteq Turns /\ rest \in Seq(Chars) /\ spoken \in Seq(Deltas)
    /\ reader \in [Reading -> [after : 0 .. MaxSequence, text : Seq(Chars), done : BOOLEAN]]
    /\ restarts \in 0 .. MaxRestarts

\* The inductive invariant of the texts, next to Inv.
TextInv == Tables /\ Contents /\ QueuedFresh /\ WorkerFresh /\ Streams /\ Readers /\ Volatile

-----------------------------------------------------------------------------
(* What a step can do to the rows of one turn.                             *)

\* Its reply keeps its place and its text.
SameReply(u) ==
    /\ MessageAt(u, "assistant")' = MessageAt(u, "assistant")
    /\ MessageAt(u, "assistant") # 0 =>
          Reply(u)'.body = Reply(u).body /\ Reply(u)'.bytes = Reply(u).bytes

\* None of its rows changes, except for the state of its messages.
Untouched(u) ==
    /\ EventsOf(u)' = EventsOf(u) /\ status'[u] = status[u] /\ SameReply(u)
    /\ Shown(u)' => Shown(u)

\* Its run goes on to another state.
Moved(u) ==
    /\ status[u] \in Active /\ status'[u] \in RunState \ {"queued"} /\ Shown(u) /\ SameReply(u)
    /\ EventsOf(u)' = IF status'[u] \in Terminal
                      THEN Append(EventsOf(u), TerminalEvent(u, status'[u])) ELSE EventsOf(u)

\* It is admitted.
Asked(u) ==
    /\ status[u] = Absent /\ status'[u] = "queued"
    /\ EventsOf(u)' = <<>> /\ MessageAt(u, "assistant")' = 0

\* The notice that its context was cut is stored.
Noticed(u) ==
    /\ u = worker.turn /\ worker.stage = "prompt" /\ status'[u] = status[u] /\ Shown(u) /\ SameReply(u)
    /\ EventsOf(u)' = Append(EventsOf(u), NoticeEvent(u))

\* The preview so far, and the bytes of the text so far.
Body(u) == IF MessageAt(u, "assistant") = 0 THEN <<>> ELSE Reply(u).body
Count(u) == IF MessageAt(u, "assistant") = 0 THEN 0 ELSE Reply(u).bytes

\* A chunk is appended to its text.
Spoke(u, chunk) ==
    /\ u = worker.turn /\ worker.stage = "streaming" /\ status'[u] = status[u] /\ Shown(u)
    /\ chunk \in Seq(Chars) \ {<<>>}
    /\ EventsOf(u)' = Append(EventsOf(u), TextEvent(u, chunk))
    /\ MessageAt(u, "assistant")' # 0
    /\ Reply(u)'.body = Extend(Body(u), Count(u), chunk) /\ Reply(u)'.bytes = Count(u) + Bytes(chunk)

\* Its conversation is deleted.
Erased(u) == ~Shown(u)' /\ status'[u] = status[u] /\ status[u] \notin Active

\* One of these happens to it.
Effect(u) ==
    \/ Untouched(u) \/ Moved(u) \/ Asked(u) \/ Noticed(u) \/ Spoke(u, Fit(rest, MaxDelta)) \/ Erased(u)

\* Events are appended one at a time while a conversation is open.
Grows(c) ==
    \/ /\ conversation'[c] = conversation[c]
       /\ events'[c] = events[c] \/ \E e \in EventType : events'[c] = Append(events[c], e)
    \/ conversation[c] = "absent" /\ conversation'[c] = "open"
    \/ conversation'[c] = "deleted"

\* What a step makes of a conversation and of its turns.
Stepped(c) == Table(c)' /\ Grows(c) /\ \A u \in Turns : ConversationOf[u] = c => Effect(u)

\* A conversation that is left alone, and one of which a turn goes on to another state.
Rests(c) ==
    /\ messages'[c] = messages[c] /\ events'[c] = events[c] /\ conversation'[c] = conversation[c]
    /\ \A u \in Turns : status'[u] = status[u] \/ ConversationOf[u] # c

\* A turn of the conversation goes on to another state.
Progress(c, t, next) ==
    /\ ConversationOf[t] = c /\ status[t] \in Active /\ next \in RunState \ {"queued"}
    /\ messages'[c] = SyncedMessages(messages[c], t, next)
    /\ events'[c] = IF next \in Terminal THEN Append(events[c], TerminalEvent(t, next)) ELSE events[c]
    /\ conversation'[c] = conversation[c]
    /\ status'[t] = next
    /\ \A u \in Turns : u # t /\ ConversationOf[u] = c => status'[u] = status[u]
    /\ \A u \in Turns : status[u] # Absent => status'[u] # Absent

\* The messages of a turn are found at the same places and hold the same text.
SameReplies(ms, new, u) ==
    /\ {i \in DOMAIN new : new[i].turn = u /\ new[i].role = "assistant"} =
          {i \in DOMAIN ms : ms[i].turn = u /\ ms[i].role = "assistant"}
    /\ \A i \in DOMAIN ms : ms[i].turn = u /\ ms[i].role = "assistant" =>
          new[i].body = ms[i].body /\ new[i].bytes = ms[i].bytes

\* Then its reply is the same.
LEMMA ReplyKept ==
    ASSUME NEW u \in Turns,
           SameReplies(messages[ConversationOf[u]], messages'[ConversationOf[u]], u)
    PROVE  SameReply(u)
<1>1. MessageAt(u, "assistant")' = MessageAt(u, "assistant")
  <2> DEFINE Found(ms) == {i \in DOMAIN ms : ms[i].turn = u /\ ms[i].role = "assistant"}
             First(S) == IF S = {} THEN 0 ELSE CHOOSE i \in S : TRUE
  <2>1. Found(messages'[ConversationOf[u]]) = Found(messages[ConversationOf[u]])
    BY DEF SameReplies
  <2>2. /\ MessageAt(u, "assistant") = First(Found(messages[ConversationOf[u]]))
        /\ MessageAt(u, "assistant")' = First(Found(messages'[ConversationOf[u]]))
    BY Zenon DEF MessageAt
  <2> HIDE DEF Found, First
  <2> QED  BY <2>1, <2>2, Zenon
<1>2. ASSUME MessageAt(u, "assistant") # 0
      PROVE  Reply(u)'.body = Reply(u).body /\ Reply(u)'.bytes = Reply(u).bytes
  <2>1. PICK i : i = MessageAt(u, "assistant")
    OBVIOUS
  <2>2. /\ i \in DOMAIN messages[ConversationOf[u]]
        /\ messages[ConversationOf[u]][i].turn = u
        /\ messages[ConversationOf[u]][i].role = "assistant"
    BY <1>2, <2>1, MessageFound
  <2>3. Reply(u) = messages[ConversationOf[u]][i] /\ Reply(u)' = messages'[ConversationOf[u]][i]
    BY <1>1, <2>1 DEF Reply
  <2> QED  BY <2>2, <2>3 DEF SameReplies
<1> QED  BY <1>1, <1>2 DEF SameReply

\* The events of a turn when its conversation has none or one more.
LEMMA EventsOfSame ==
    ASSUME NEW u \in Turns, events'[ConversationOf[u]] = events[ConversationOf[u]]
    PROVE  EventsOf(u)' = EventsOf(u)
BY Zenon DEF EventsOf

LEMMA EventsOfMore ==
    ASSUME NEW u \in Turns, NEW e \in EventType, events[ConversationOf[u]] \in Seq(EventType),
           events'[ConversationOf[u]] = Append(events[ConversationOf[u]], e)
    PROVE  EventsOf(u)' = IF e.turn = u THEN Append(EventsOf(u), e) ELSE EventsOf(u)
<1>1. PICK es \in Seq(EventType) : es = events[ConversationOf[u]]
  OBVIOUS
<1>2. Own(Append(es, e), u) = IF e.turn = u THEN Append(Own(es, u), e) ELSE Own(es, u)
  BY OwnAppend
<1>3. EventsOf(u)' = Own(events'[ConversationOf[u]], u) /\ EventsOf(u) = Own(events[ConversationOf[u]], u)
  BY Zenon DEF EventsOf
<1> QED  BY <1>1, <1>2, <1>3, Zenon

\* A conversation that is left alone.
LEMMA RestsStep ==
    ASSUME NEW c \in Conversations, Table(c), Rests(c),
           \A u \in Turns : status[u] # Absent => status'[u] # Absent
    PROVE  Stepped(c)
<1>1. Table(c)'
  <2>1. \A i \in DOMAIN messages[c] : messages[c][i].turn \in Turns
    <3>1. \A i \in DOMAIN messages[c] : messages[c][i] \in MessageRows(c)
      BY DEF Table
    <3>2. \A m \in MessageRows(c) : m.turn \in Turns
      BY DEF MessageRows, MessageType
    <3> QED  BY <3>1, <3>2
  <2> QED  BY <2>1 DEF Table, Rests
<1>2. Grows(c)
  BY DEF Rests, Grows
<1>3. ASSUME NEW u \in Turns, ConversationOf[u] = c PROVE Effect(u)
  <2>1. EventsOf(u)' = EventsOf(u)
    BY <1>3, EventsOfSame DEF Rests
  <2>2. SameReply(u)
    <3>1. SameReplies(messages[c], messages'[c], u)
      BY DEF Rests, SameReplies
    <3> QED  BY <1>3, <3>1, ReplyKept
  <2>3. status'[u] = status[u] /\ (Shown(u)' => Shown(u))
    BY <1>3 DEF Rests, Shown
  <2> QED  BY <2>1, <2>2, <2>3 DEF Effect, Untouched
<1> QED  BY <1>1, <1>2, <1>3 DEF Stepped

\* Following its run leaves a message where it is and keeps its text.
LEMMA FollowRow ==
    ASSUME NEW c, NEW m \in MessageRows(c), NEW state \in RunState
    PROVE  /\ Follow(m, state) \in MessageRows(c)
           /\ Follow(m, state).turn = m.turn /\ Follow(m, state).role = m.role
           /\ Follow(m, state).body = m.body /\ Follow(m, state).bytes = m.bytes
<1> DEFINE whole == (Bytes(m.body) = m.bytes)
<1>1. whole \in BOOLEAN
  OBVIOUS
<1>2. Follow(m, state) = [m EXCEPT !.state = state, !.complete = whole]
  BY DEF Follow
<1> HIDE DEF whole
<1>3. m \in MessageType
  BY DEF MessageRows
<1>4. /\ Follow(m, state) \in MessageType
      /\ Follow(m, state).turn = m.turn /\ Follow(m, state).role = m.role
      /\ Follow(m, state).body = m.body /\ Follow(m, state).bytes = m.bytes
  BY <1>1, <1>2, <1>3 DEF MessageType
<1>5. Bytes(Follow(m, state).body) = Bytes(m.body)
  BY <1>4, Zenon
<1> QED  BY <1>4, <1>5 DEF MessageRows

\* Messages of which some follow their run.
Followed(ms, new) ==
    /\ DOMAIN new = DOMAIN ms
    /\ \A i \in DOMAIN ms : /\ new[i].turn = ms[i].turn /\ new[i].role = ms[i].role
                            /\ new[i].body = ms[i].body /\ new[i].bytes = ms[i].bytes

\* They keep the replies of every turn.
LEMMA FollowedReplies ==
    ASSUME NEW ms, NEW new, NEW u, Followed(ms, new)
    PROVE  SameReplies(ms, new, u)
BY DEF Followed, SameReplies

\* sync_message_state makes the messages of a turn follow.
LEMMA SyncFollowed ==
    ASSUME NEW c, NEW ms \in Seq(MessageRows(c)), NEW t, NEW next \in RunState
    PROVE  /\ SyncedMessages(ms, t, next) \in Seq(MessageRows(c))
           /\ Followed(ms, SyncedMessages(ms, t, next))
<1>1. /\ DOMAIN SyncedMessages(ms, t, next) = DOMAIN ms
      /\ \A i \in DOMAIN ms : ms[i] \in MessageRows(c)
  BY DEF SyncedMessages
<1>2. ASSUME NEW i \in DOMAIN ms
      PROVE  /\ SyncedMessages(ms, t, next)[i] \in MessageRows(c)
             /\ SyncedMessages(ms, t, next)[i].turn = ms[i].turn
             /\ SyncedMessages(ms, t, next)[i].role = ms[i].role
             /\ SyncedMessages(ms, t, next)[i].body = ms[i].body
             /\ SyncedMessages(ms, t, next)[i].bytes = ms[i].bytes
  BY <1>1, FollowRow DEF SyncedMessages
<1>3. SyncedMessages(ms, t, next) \in Seq(MessageRows(c))
  BY <1>1, <1>2 DEF SyncedMessages
<1> QED  BY <1>1, <1>2, <1>3 DEF Followed

\* A transition, as a step of its conversation.
LEMMA ProgressStep ==
    ASSUME Inv, NEW c \in Conversations, Table(c), NEW t \in Turns, NEW next, Progress(c, t, next)
    PROVE  Stepped(c)
<1>1. /\ ConversationOf[t] = c /\ status[t] \in Active /\ next \in RunState /\ next # "queued"
      /\ conversation'[c] = conversation[c] /\ status'[t] = next
  BY DEF Progress
<1>2. conversation[c] = "open" /\ Len(events[c]) < MaxSequence
  BY <1>1 DEF Inv, StoreInv, MarkerFits
<1>3. messages'[c] \in Seq(MessageRows(c)) /\ Followed(messages[c], messages'[c])
  BY <1>1, SyncFollowed DEF Table, Progress
<1>4. next \in Terminal => TerminalEvent(t, next) \in EventType /\ TerminalEvent(t, next).turn = t
  BY DEF TerminalEvent, EventType
<1>5. events'[c] = IF next \in Terminal THEN Append(events[c], TerminalEvent(t, next)) ELSE events[c]
  BY DEF Progress
<1>6. events[c] \in Seq(EventType) /\ Len(events[c]) <= MaxSequence /\ Len(events[c]) \in Nat
  BY DEF Table
<1>7. events'[c] \in Seq(EventType) /\ Len(events'[c]) <= MaxSequence
  BY <1>2, <1>4, <1>5, <1>6, SizesAssumption
<1>8. \A i \in DOMAIN messages'[c] : status'[messages'[c][i].turn] # Absent
  <2> SUFFICES ASSUME NEW i \in DOMAIN messages'[c] PROVE status'[messages'[c][i].turn] # Absent
    OBVIOUS
  <2>1. i \in DOMAIN messages[c] /\ messages'[c][i].turn = messages[c][i].turn
    BY <1>3 DEF Followed
  <2>2. messages[c][i] \in MessageRows(c)
    BY <2>1 DEF Table
  <2>3. messages[c][i].turn \in Turns
    BY <2>2 DEF MessageRows, MessageType
  <2>4. status[messages[c][i].turn] # Absent
    BY <2>1 DEF Table
  <2> QED  BY <2>1, <2>3, <2>4 DEF Progress
<1>9. Table(c)'
  BY <1>3, <1>7, <1>8 DEF Table
<1>10. Grows(c)
  BY <1>1, <1>4, <1>5 DEF Grows
<1>11. ASSUME NEW u \in Turns, ConversationOf[u] = c PROVE Effect(u)
  <2>1. SameReply(u)
    BY <1>3, <1>11, FollowedReplies, ReplyKept
  <2>2. EventsOf(u)' = IF next \in Terminal /\ u = t THEN Append(EventsOf(u), TerminalEvent(t, next))
                       ELSE EventsOf(u)
    <3>1. CASE next \in Terminal
      <4>1. PICK e \in EventType : e = TerminalEvent(t, next) /\ e.turn = t
        BY <1>4, <3>1
      <4>2. events'[ConversationOf[u]] = Append(events[ConversationOf[u]], e)
        BY <1>5, <1>11, <3>1, <4>1
      <4>3. EventsOf(u)' = IF e.turn = u THEN Append(EventsOf(u), e) ELSE EventsOf(u)
        BY <1>6, <1>11, <4>2, EventsOfMore
      <4> QED  BY <3>1, <4>1, <4>3, Zenon
    <3>2. CASE next \notin Terminal
      BY <1>5, <1>11, <3>2, EventsOfSame
    <3> QED  BY <3>1, <3>2
  <2>3. CASE u = t
    <3>1. Shown(u)
      BY <1>1, <1>2, <2>3, StatesDisjoint DEF Shown
    <3>2. Moved(u)
      BY <1>1, <2>1, <2>2, <2>3, <3>1, Zenon DEF Moved
    <3> QED  BY <3>2 DEF Effect
  <2>4. CASE u # t
    <3>1. status'[u] = status[u] /\ (Shown(u)' => Shown(u))
      BY <1>1, <1>11, <2>4 DEF Progress, Shown
    <3>2. Untouched(u)
      BY <2>1, <2>2, <2>4, <3>1, Zenon DEF Untouched
    <3> QED  BY <3>2 DEF Effect
  <2> QED  BY <2>3, <2>4
<1> QED  BY <1>9, <1>10, <1>11 DEF Stepped

-----------------------------------------------------------------------------
(* What each action does to the tables.                                    *)

\* The tables after a step, and what it did to every conversation.
AllStepped ==
    /\ messages' = [c \in Conversations |-> messages'[c]]
    /\ events' = [c \in Conversations |-> events'[c]]
    /\ \A c \in Conversations : Stepped(c)

\* A transition, as a step of all conversations: the others rest.
LEMMA TransitionStepped ==
    ASSUME Inv, Tables, NEW t \in Turns, NEW next, Transition(t, next)
    PROVE  AllStepped
<1> DEFINE c == ConversationOf[t]
<1>1. c \in Conversations /\ status[t] \in Active /\ next \in RunState /\ next # "queued"
  BY TurnsAssumption, TransitionStates, StatesDisjoint DEF Transition, Active, InFlight, Terminal
<1>2. /\ status' = [status EXCEPT ![t] = next] /\ conversation' = conversation
      /\ messages' = [messages EXCEPT ![c] = SyncedMessages(messages[c], t, next)]
      /\ events' = IF next \in Terminal
                   THEN [events EXCEPT ![c] = Append(@, TerminalEvent(t, next))] ELSE events
  BY TransitionEvents DEF Transition, Inv
<1> HIDE DEF c
<1>3. /\ messages = [d \in Conversations |-> messages[d]]
      /\ events = [d \in Conversations |-> events[d]]
      /\ \A d \in Conversations : Table(d)
  BY DEF Tables
<1>4. status \in [Turns -> RunState \cup {Absent}]
  BY DEF Inv, StoreInv, Rows
<1>5. /\ messages' = [d \in Conversations |-> messages'[d]]
      /\ events' = [d \in Conversations |-> events'[d]]
  BY <1>2, <1>3
<1>6. \A u \in Turns : /\ u # t => status'[u] = status[u]
                       /\ status[u] # Absent => status'[u] # Absent
  BY <1>1, <1>2, <1>4, StatesDisjoint
<1>7. ASSUME NEW d \in Conversations, d # c PROVE Stepped(d)
  <2>1. Rests(d)
    BY <1>2, <1>3, <1>6, <1>7 DEF Rests, c
  <2> QED  BY <1>3, <1>6, <2>1, RestsStep
<1>8. Stepped(c)
  <2>1. /\ messages'[c] = SyncedMessages(messages[c], t, next)
        /\ events'[c] = IF next \in Terminal THEN Append(events[c], TerminalEvent(t, next)) ELSE events[c]
        /\ status'[t] = next
    BY <1>1, <1>2, <1>3, <1>4
  <2>2. Progress(c, t, next)
    BY <1>1, <1>2, <1>6, <2>1 DEF Progress, c
  <2> QED  BY <1>1, <1>3, <2>2, ProgressStep
<1> QED  BY <1>5, <1>7, <1>8 DEF AllStepped

\* A step that stores nothing.
LEMMA UnchangedStepped ==
    ASSUME Tables, UNCHANGED durable
    PROVE  AllStepped
<1>1. UNCHANGED <<conversation, status, messages, events>>
  BY DEF durable
<1>2. \A c \in Conversations : Rests(c)
  BY <1>1 DEF Rests
<1>3. \A c \in Conversations : Stepped(c)
  BY <1>1, <1>2, RestsStep DEF Tables
<1> QED  BY <1>1, <1>3 DEF AllStepped, Tables

\* recover_interrupted_on moves the one active turn of each conversation.
LEMMA RestartStepped ==
    ASSUME Inv, Tables, Restart
    PROVE  AllStepped
<1> DEFINE interrupted == {t \in Turns : status[t] \in InFlight}
           Of(c)       == {t \in interrupted : ConversationOf[t] = c}
           The(c)      == CHOOSE t \in Of(c) : TRUE
<1>1. /\ status' = [t \in Turns |-> IF t \in interrupted THEN "interrupted" ELSE status[t]]
      /\ messages' = [c \in Conversations |->
                         IF Of(c) = {} THEN messages[c]
                         ELSE SyncedMessages(messages[c], The(c), "interrupted")]
      /\ events' = [c \in Conversations |->
                         IF Of(c) = {} THEN events[c]
                         ELSE SyncedEvents(events[c], The(c), "interrupted")]
      /\ conversation' = conversation
  BY DEF Restart
<1>2. \A c \in Conversations : Table(c)
  BY DEF Tables
<1>3. /\ "interrupted" \in Terminal /\ "interrupted" \in RunState /\ "interrupted" # "queued"
      /\ "interrupted" # Absent /\ InFlight \subseteq Active
  BY StatesDisjoint DEF Terminal, RunState, Active, Absent
<1>4. \A u \in Turns : /\ status[u] # Absent => status'[u] # Absent
                       /\ status[u] \in InFlight => status'[u] = "interrupted"
                       /\ status[u] \notin InFlight => status'[u] = status[u]
  BY <1>1, <1>3
<1>5. ASSUME NEW c \in Conversations, Of(c) = {} PROVE Stepped(c)
  <2>1. messages'[c] = messages[c] /\ events'[c] = events[c]
    BY <1>1, <1>5
  <2>2. \A u \in Turns : status[u] \in InFlight => ConversationOf[u] # c
    BY <1>5
  <2>3. Rests(c)
    BY <1>1, <1>4, <2>1, <2>2 DEF Rests
  <2> QED  BY <1>2, <1>4, <2>3, RestsStep
<1>6. ASSUME NEW c \in Conversations, Of(c) # {} PROVE Stepped(c)
  <2>1. The(c) \in Of(c)
    BY <1>6
  <2>2. /\ messages'[c] = SyncedMessages(messages[c], The(c), "interrupted")
        /\ events'[c] = SyncedEvents(events[c], The(c), "interrupted")
    BY <1>1, <1>6
  <2>3. PICK t : t = The(c)
    OBVIOUS
  <2>4. t \in Turns /\ ConversationOf[t] = c /\ status[t] \in InFlight /\ status[t] \in Active
    BY <1>3, <2>1, <2>3
  <2> HIDE DEF The, Of, interrupted
  <2>5. conversation[c] = "open" /\ Len(events[c]) < MaxSequence
    BY <2>4 DEF Inv, StoreInv, MarkerFits
  <2>6. SettledEvents(t)
    BY <2>4, <2>5, StatesDisjoint DEF Inv, StoreInv, SettledTurns, Shown
  <2>7. \A i \in DOMAIN events[c] : events[c][i].turn = t => events[c][i].kind # "terminal"
    BY <2>4, <2>6, StatesDisjoint DEF SettledEvents
  <2>8. events'[c] = Append(events[c], TerminalEvent(t, "interrupted"))
    BY <1>3, <2>2, <2>3, <2>5, <2>7 DEF SyncedEvents
  <2>9. \A u \in Turns : u # t /\ ConversationOf[u] = c => status'[u] = status[u]
    BY <1>3, <1>4, <2>4 DEF Inv, StoreInv, ActiveAlone
  <2>10. Progress(c, t, "interrupted")
    BY <1>1, <1>3, <1>4, <2>2, <2>3, <2>4, <2>8, <2>9 DEF Progress
  <2> QED  BY <1>2, <2>4, <2>10, ProgressStep
<1>7. /\ messages' = [c \in Conversations |-> messages'[c]]
      /\ events' = [c \in Conversations |-> events'[c]]
  BY <1>1
<1> QED  BY <1>5, <1>6, <1>7 DEF AllStepped

\* A message more, which is no reply of this turn.
LEMMA AppendReplies ==
    ASSUME NEW S, NEW ms \in Seq(S), NEW m, NEW u, ~(m.turn = u /\ m.role = "assistant")
    PROVE  SameReplies(ms, Append(ms, m), u)
<1>1. PICK new : new = Append(ms, m)
  OBVIOUS
<1>2. /\ DOMAIN new = 1 .. Len(ms) + 1 /\ DOMAIN ms = 1 .. Len(ms) /\ Len(ms) \in Nat
      /\ new[Len(ms) + 1] = m /\ \A j \in 1 .. Len(ms) : new[j] = ms[j]
  BY <1>1
<1>3. SameReplies(ms, new, u)
  BY <1>2 DEF SameReplies
<1> QED  BY <1>1, <1>3, Zenon

\* Whose the messages of a conversation are.
LEMMA RowTurns ==
    ASSUME NEW c \in Conversations, Table(c)
    PROVE  \A i \in DOMAIN messages[c] : /\ messages[c][i] \in MessageRows(c)
                                         /\ messages[c][i].turn \in Turns
<1>1. \A i \in DOMAIN messages[c] : messages[c][i] \in MessageRows(c)
  BY DEF Table
<1>2. \A m \in MessageRows(c) : m.turn \in Turns
  BY DEF MessageRows, MessageType
<1> QED  BY <1>1, <1>2

\* The events of a turn and their text.
LEMMA EventsOfType ==
    ASSUME NEW u \in Turns, Table(ConversationOf[u])
    PROVE  EventsOf(u) \in Seq(EventType) /\ TextOf(EventsOf(u)) \in Seq(Chars)
<1>1. PICK es \in Seq(EventType) : es = events[ConversationOf[u]]
  BY DEF Table
<1>2. PICK own \in Seq(EventType) : own = Own(es, u)
  BY OwnType
<1>3. EventsOf(u) = own
  BY <1>1, <1>2, Zenon DEF EventsOf
<1>4. TextOf(own) \in Seq(Chars)
  BY TextType
<1> QED  BY <1>3, <1>4, Zenon

\* Admission: the question is the only row of its turn.
LEMMA AdmitStepped ==
    ASSUME Inv, Tables, NEW t \in Turns, AdmitTurn(t)
    PROVE  AllStepped
<1> DEFINE c == ConversationOf[t]
<1>1. c \in Conversations
  BY TurnsAssumption
<1>2. /\ status[t] = Absent
      /\ status' = [status EXCEPT ![t] = "queued"]
      /\ messages' = [messages EXCEPT ![c] = Append(messages[c], Question(t))]
      /\ UNCHANGED <<conversation, events>>
  BY DEF AdmitTurn
<1> HIDE DEF c
<1>3. /\ messages = [d \in Conversations |-> messages[d]]
      /\ events = [d \in Conversations |-> events[d]]
      /\ \A d \in Conversations : Table(d)
  BY DEF Tables
<1>4. status \in [Turns -> RunState \cup {Absent}]
  BY DEF Inv, StoreInv, Rows
<1>5. /\ messages' = [d \in Conversations |-> messages'[d]]
      /\ events' = [d \in Conversations |-> events'[d]]
  BY <1>2, <1>3
<1>6. /\ status'[t] = "queued" /\ "queued" # Absent
      /\ \A u \in Turns : /\ u # t => status'[u] = status[u]
                          /\ status[u] # Absent => status'[u] # Absent
  BY <1>2, <1>4 DEF Absent
<1>7. ASSUME NEW d \in Conversations, d # c PROVE Stepped(d)
  <2>1. Rests(d)
    BY <1>2, <1>3, <1>6, <1>7 DEF Rests, c
  <2> QED  BY <1>3, <1>6, <2>1, RestsStep
<1>8. messages'[c] = Append(messages[c], Question(t)) /\ events'[c] = events[c]
  BY <1>1, <1>2, <1>3
<1>9. Question(t) \in MessageRows(c) /\ Question(t).turn = t /\ Question(t).role = "user"
  <2>1. Input[t] \in Seq(Chars)
    BY TurnsAssumption
  <2>2. Bytes(Input[t]) \in Nat
    BY <2>1, BytesNat
  <2>3. Question(t).turn = t /\ Question(t).role = "user" /\ Question(t) \in MessageType
    BY <2>1, <2>2 DEF Question, MessageType, RunState
  <2> QED  BY <2>3 DEF MessageRows, c
<1>10. messages[c] \in Seq(MessageRows(c))
  BY <1>1, <1>3 DEF Table
<1>11. PICK new : /\ new = messages'[c] /\ new \in Seq(MessageRows(c))
                  /\ DOMAIN new = 1 .. Len(messages[c]) + 1 /\ Len(messages[c]) \in Nat
                  /\ DOMAIN messages[c] = 1 .. Len(messages[c])
                  /\ new[Len(messages[c]) + 1] = Question(t)
                  /\ \A j \in 1 .. Len(messages[c]) : new[j] = messages[c][j]
  BY <1>8, <1>9, <1>10
<1>12. \A i \in DOMAIN messages[c] : messages[c][i].turn \in Turns /\ status[messages[c][i].turn] # Absent
  BY <1>1, <1>3, RowTurns DEF Table
<1>13. \A i \in DOMAIN new : status'[new[i].turn] # Absent
  BY <1>6, <1>9, <1>11, <1>12
<1>14. Table(c)' /\ Grows(c)
  BY <1>1, <1>2, <1>3, <1>8, <1>11, <1>13 DEF Table, Grows
<1>15. ASSUME NEW u \in Turns, ConversationOf[u] = c, u # t PROVE Effect(u)
  <2>1. EventsOf(u)' = EventsOf(u)
    BY <1>8, <1>15, EventsOfSame
  <2>2. SameReply(u)
    <3>1. SameReplies(messages[c], messages'[c], u)
      BY <1>8, <1>9, <1>10, <1>15, AppendReplies
    <3> QED  BY <1>15, <3>1, ReplyKept
  <2>3. status'[u] = status[u] /\ (Shown(u)' => Shown(u))
    BY <1>2, <1>6, <1>15 DEF Shown
  <2> QED  BY <2>1, <2>2, <2>3 DEF Effect, Untouched
<1>16. Effect(t)
  <2>1. EventsOf(t)' = <<>>
    <3>1. PICK es \in Seq(EventType) : es = events[c]
      BY <1>1, <1>3 DEF Table
    <3>2. \A i \in 1 .. Len(es) : es[i].turn # t
      BY <1>1, <1>2, <3>1 DEF Inv, StoreInv, EventsAdmitted
    <3>3. Own(es, t) = <<>>
      BY <3>2, OwnNone
    <3>4. EventsOf(t)' = Own(events'[c], t)
      BY Zenon DEF EventsOf, c
    <3> QED  BY <1>8, <3>1, <3>3, <3>4, Zenon
  <2>2. MessageAt(t, "assistant")' = 0
    <3>1. {i \in DOMAIN new : new[i].turn = t /\ new[i].role = "assistant"} = {}
      BY <1>2, <1>9, <1>11, <1>12
    <3>2. {i \in DOMAIN messages'[c] : messages'[c][i].turn = t /\ messages'[c][i].role = "assistant"} = {}
      BY <1>11, <3>1, Zenon
    <3> QED  BY <3>2, Zenon DEF MessageAt, c
  <2> QED  BY <1>2, <1>6, <2>1, <2>2 DEF Effect, Asked
<1>17. Stepped(c)
  BY <1>14, <1>15, <1>16 DEF Stepped
<1> QED  BY <1>5, <1>7, <1>17 DEF AllStepped

\* The notice, if there is one.
LEMMA BuildPromptStepped ==
    ASSUME Inv, Tables, BuildPrompt
    PROVE  AllStepped
<1>a. PICK t, c : t = worker.turn /\ c = ConversationOf[t]
  OBVIOUS
<1>1. t \in Turns /\ status[t] \in RunState /\ worker.stage = "prompt"
  BY <1>a DEF Inv, StoreInv, Rows, WorkerAdmitted, BuildPrompt, At
<1>2. /\ UNCHANGED <<conversation, status, messages>>
      /\ \/ events' = events
         \/ /\ status[t] \notin Terminal /\ Room(c)
            /\ events' = [events EXCEPT ![c] = Append(@, NoticeEvent(t))]
  BY <1>a DEF BuildPrompt
<1>3. CASE events' = events
  BY <1>2, <1>3, UnchangedStepped DEF durable
<1>4. CASE /\ status[t] \notin Terminal /\ Room(c)
           /\ events' = [events EXCEPT ![c] = Append(@, NoticeEvent(t))]
  <2>1. c \in Conversations /\ status[t] \in Active
    BY <1>1, <1>4, <1>a, StatesDisjoint, TurnsAssumption
  <2>2. NoticeEvent(t) \in EventType /\ NoticeEvent(t).turn = t
    BY <1>1 DEF NoticeEvent, EventType
  <2>3. /\ messages = [d \in Conversations |-> messages[d]]
        /\ events = [d \in Conversations |-> events[d]]
        /\ \A d \in Conversations : Table(d)
    BY DEF Tables
  <2>4. /\ messages' = [d \in Conversations |-> messages'[d]]
        /\ events' = [d \in Conversations |-> events'[d]]
    BY <1>2, <1>4, <2>3
  <2>5. ASSUME NEW d \in Conversations, d # c PROVE Stepped(d)
    <3>1. Rests(d)
      BY <1>2, <1>4, <2>3, <2>5 DEF Rests
    <3> QED  BY <1>2, <2>3, <3>1, RestsStep
  <2>6. events'[c] = Append(events[c], NoticeEvent(t)) /\ events[c] \in Seq(EventType)
    BY <1>4, <2>1, <2>3 DEF Table
  <2>7. events'[c] \in Seq(EventType) /\ Len(events'[c]) <= MaxSequence
    <3>1. events'[c] \in Seq(EventType) /\ Len(events'[c]) = Len(events[c]) + 1 /\ Len(events[c]) \in Nat
      BY <2>2, <2>6
    <3> QED  BY <1>4, <3>1, SizesAssumption DEF Room
  <2>8. Table(c)' /\ Grows(c)
    BY <1>2, <2>1, <2>2, <2>3, <2>6, <2>7 DEF Table, Grows
  <2>9. ASSUME NEW u \in Turns, ConversationOf[u] = c PROVE Effect(u)
    <3>1. SameReply(u)
      <4>1. SameReplies(messages[c], messages'[c], u)
        BY <1>2 DEF SameReplies
      <4> QED  BY <2>9, <4>1, ReplyKept
    <3>2. PICK e \in EventType : e = NoticeEvent(t) /\ e.turn = t
      BY <2>2
    <3>3. EventsOf(u)' = IF e.turn = u THEN Append(EventsOf(u), e) ELSE EventsOf(u)
      BY <2>6, <2>9, <3>2, EventsOfMore
    <3>4. CASE u = t
      <4>1. Shown(u)
        BY <2>1, <3>4, <1>a, StatesDisjoint DEF Shown, Inv, StoreInv, MarkerFits
      <4>2. EventsOf(u)' = Append(EventsOf(u), NoticeEvent(u))
        BY <3>2, <3>3, <3>4, Zenon
      <4>3. status'[u] = status[u] /\ u = worker.turn
        BY <1>2, <3>4, <1>a
      <4> QED  BY <1>1, <3>1, <4>1, <4>2, <4>3 DEF Effect, Noticed
    <3>5. CASE u # t
      <4>1. EventsOf(u)' = EventsOf(u)
        BY <3>2, <3>3, <3>5, Zenon
      <4>2. status'[u] = status[u] /\ (Shown(u)' => Shown(u))
        BY <1>2 DEF Shown
      <4> QED  BY <3>1, <4>1, <4>2 DEF Effect, Untouched
    <3> QED  BY <3>4, <3>5
  <2>10. Stepped(c)
    BY <2>8, <2>9 DEF Stepped
  <2> QED  BY <2>4, <2>5, <2>10 DEF AllStepped
<1> QED  BY <1>2, <1>3, <1>4

\* A conversation that is created has no rows.
LEMMA CreateStepped ==
    ASSUME Inv, Tables, NEW c \in Conversations, CreateConversation(c)
    PROVE  AllStepped
<1>1. /\ conversation[c] = "absent" /\ conversation' = [conversation EXCEPT ![c] = "open"]
      /\ UNCHANGED <<status, messages, events>>
  BY DEF CreateConversation
<1>2. conversation \in [Conversations -> {"absent", "open", "deleted"}]
  BY DEF Inv, StoreInv, Rows
<1>3. /\ messages = [d \in Conversations |-> messages[d]]
      /\ events = [d \in Conversations |-> events[d]]
      /\ \A d \in Conversations : Table(d)
  BY DEF Tables
<1>4. ASSUME NEW d \in Conversations, d # c PROVE Stepped(d)
  <2>1. Rests(d)
    BY <1>1, <1>2, <1>4 DEF Rests
  <2> QED  BY <1>1, <1>3, <2>1, RestsStep
<1>5. ASSUME NEW u \in Turns, ConversationOf[u] = c PROVE Effect(u)
  <2>1. SameReply(u)
    <3>1. SameReplies(messages[c], messages'[c], u)
      BY <1>1 DEF SameReplies
    <3> QED  BY <1>5, <3>1, ReplyKept
  <2>2. EventsOf(u)' = EventsOf(u)
    BY <1>1, EventsOfSame
  <2>3. ~Shown(u)' /\ status'[u] = status[u]
    BY <1>1, <1>5 DEF Shown, Inv, StoreInv, Opened
  <2> QED  BY <2>1, <2>2, <2>3 DEF Effect, Untouched
<1>6. Table(c)' /\ Grows(c)
  BY <1>1, <1>2, <1>3 DEF Table, Grows
<1>7. Stepped(c)
  BY <1>5, <1>6 DEF Stepped
<1> QED  BY <1>1, <1>3, <1>4, <1>7 DEF AllStepped

\* A conversation that is deleted has no active turn.
LEMMA DeleteStepped ==
    ASSUME Inv, Tables, NEW c \in Conversations, DeleteConversation(c)
    PROVE  AllStepped
<1>1. /\ ActiveTurns(c) = {}
      /\ conversation' = [conversation EXCEPT ![c] = "deleted"]
      /\ messages' = [messages EXCEPT ![c] = <<>>]
      /\ events' = [events EXCEPT ![c] = <<>>]
      /\ UNCHANGED status
  BY DEF DeleteConversation
<1>2. conversation \in [Conversations -> {"absent", "open", "deleted"}]
  BY DEF Inv, StoreInv, Rows
<1>3. /\ messages = [d \in Conversations |-> messages[d]]
      /\ events = [d \in Conversations |-> events[d]]
      /\ \A d \in Conversations : Table(d)
  BY DEF Tables
<1>4. /\ messages' = [d \in Conversations |-> messages'[d]]
      /\ events' = [d \in Conversations |-> events'[d]]
  BY <1>1, <1>3
<1>5. ASSUME NEW d \in Conversations, d # c PROVE Stepped(d)
  <2>1. Rests(d)
    BY <1>1, <1>2, <1>3, <1>5 DEF Rests
  <2> QED  BY <1>1, <1>3, <2>1, RestsStep
<1>6. conversation'[c] = "deleted" /\ messages'[c] = <<>> /\ events'[c] = <<>>
  BY <1>1, <1>2, <1>3
<1>7. Table(c)' /\ Grows(c)
  <2>1. <<>> \in Seq(MessageRows(c)) /\ <<>> \in Seq(EventType) /\ Len(<<>>) = 0 /\ DOMAIN <<>> = {}
    OBVIOUS
  <2>2. Len(events'[c]) <= MaxSequence
    BY <1>6, <2>1, SizesAssumption
  <2> QED  BY <1>6, <2>1, <2>2 DEF Table, Grows
<1>8. ASSUME NEW u \in Turns, ConversationOf[u] = c PROVE Effect(u)
  <2>1. ~Shown(u)'
    BY <1>6, <1>8 DEF Shown
  <2>2. status[u] \notin Active
    BY <1>1, <1>8, StatesDisjoint DEF ActiveTurns, TurnsOf
  <2>3. status'[u] = status[u]
    BY <1>1
  <2> QED  BY <2>1, <2>2, <2>3 DEF Effect, Erased
<1>9. Stepped(c)
  BY <1>7, <1>8 DEF Stepped
<1> QED  BY <1>4, <1>5, <1>9 DEF AllStepped

\* v4_finalize_turn rewrites the state of a reply and not its text.
LEMMA FinalizeStepped ==
    ASSUME Inv, Tables, Finalize
    PROVE  AllStepped
<1>a. PICK t, c, i : t = worker.turn /\ c = ConversationOf[t] /\ i = MessageAt(t, "assistant")
  OBVIOUS
<1>1. t \in Turns /\ c \in Conversations /\ status[t] \in RunState
  BY <1>a, TurnsAssumption DEF Inv, StoreInv, Rows, WorkerAdmitted, Finalize, At
<1>2. /\ UNCHANGED <<conversation, status, events>>
      /\ messages' = IF i = 0 THEN messages
                     ELSE [messages EXCEPT ![c][i] = Follow(messages[c][i], status[t])]
  BY <1>a DEF Finalize
<1>3. CASE i = 0
  BY <1>2, <1>3, UnchangedStepped DEF durable
<1>4. CASE i # 0
  <2>1. i \in DOMAIN messages[c]
    BY <1>1, <1>4, <1>a, MessageFound
  <2>3. /\ messages = [d \in Conversations |-> messages[d]]
        /\ events = [d \in Conversations |-> events[d]]
        /\ \A d \in Conversations : Table(d)
    BY DEF Tables
  <2>4. PICK m : m = Follow(messages[c][i], status[t])
    OBVIOUS
  <2>5. /\ messages' = [messages EXCEPT ![c] = [messages[c] EXCEPT ![i] = m]]
        /\ messages'[c] = [messages[c] EXCEPT ![i] = m]
    BY <1>1, <1>2, <1>4, <2>3, <2>4
  <2>6. /\ messages' = [d \in Conversations |-> messages'[d]]
        /\ events' = [d \in Conversations |-> events'[d]]
    BY <1>2, <2>3, <2>5
  <2>7. messages[c] \in Seq(MessageRows(c)) /\ messages[c][i] \in MessageRows(c)
    BY <1>1, <2>1, <2>3, RowTurns DEF Table
  <2>8. /\ m \in MessageRows(c)
        /\ m.turn = messages[c][i].turn /\ m.role = messages[c][i].role
        /\ m.body = messages[c][i].body /\ m.bytes = messages[c][i].bytes
    BY <1>1, <2>4, <2>7, FollowRow
  <2>9. messages'[c] \in Seq(MessageRows(c))
    BY <2>1, <2>5, <2>7, <2>8
  <2>10. Followed(messages[c], messages'[c])
    BY <2>1, <2>5, <2>7, <2>8 DEF Followed
  <2>11. ASSUME NEW d \in Conversations, d # c PROVE Stepped(d)
    <3>1. Rests(d)
      BY <1>2, <2>3, <2>5, <2>11 DEF Rests
    <3> QED  BY <1>2, <2>3, <3>1, RestsStep
  <2>12. Table(c)' /\ Grows(c)
    <3>1. Table(c)
      BY <1>1, <2>3
    <3> QED  BY <1>2, <2>9, <2>10, <3>1 DEF Table, Grows, Followed
  <2>13. ASSUME NEW u \in Turns, ConversationOf[u] = c PROVE Effect(u)
    <3>1. SameReply(u)
      BY <2>10, <2>13, FollowedReplies, ReplyKept
    <3>2. EventsOf(u)' = EventsOf(u)
      BY <1>2, EventsOfSame
    <3>3. status'[u] = status[u] /\ (Shown(u)' => Shown(u))
      BY <1>2 DEF Shown
    <3> QED  BY <3>1, <3>2, <3>3 DEF Effect, Untouched
  <2>14. Stepped(c)
    BY <2>12, <2>13 DEF Stepped
  <2> QED  BY <2>6, <2>11, <2>14 DEF AllStepped
<1> QED  BY <1>3, <1>4

\* What is stored of a reply before the next chunk.
LEMMA SoFar ==
    ASSUME NEW u \in Turns, Table(ConversationOf[u]), Shown(u), Content(u)
    PROVE  /\ Body(u) \in Seq(Chars) /\ Bytes(Body(u)) <= MaxPreview
           /\ IsPrefix(Body(u), TextOf(EventsOf(u)))
           /\ Count(u) = Bytes(TextOf(EventsOf(u)))
<1>0. ConversationOf[u] \in Conversations
  BY TurnsAssumption
<1>1. CASE MessageAt(u, "assistant") = 0
  <2>1. TextOf(EventsOf(u)) = <<>>
    BY <1>1 DEF Content, Previewed, Silent
  <2>2. Body(u) = <<>> /\ Count(u) = 0
    BY <1>1 DEF Body, Count
  <2>3. <<>> \in Seq(Chars) /\ <<>> \o <<>> = <<>>
    OBVIOUS
  <2>4. IsPrefix(<<>>, <<>> \o <<>>)
    BY <2>3, RestPrefix
  <2>5. Bytes(Body(u)) = 0 /\ Bytes(TextOf(EventsOf(u))) = 0
    BY <2>1, <2>2, BytesEmpty, Zenon
  <2>6. IsPrefix(Body(u), TextOf(EventsOf(u)))
    BY <2>1, <2>2, <2>3, <2>4, Zenon
  <2> QED  BY <2>2, <2>3, <2>5, <2>6, SizesAssumption
<1>2. CASE MessageAt(u, "assistant") # 0
  <2>1. Body(u) = Reply(u).body /\ Count(u) = Reply(u).bytes
    BY <1>2 DEF Body, Count
  <2>2. IsPrefix(Reply(u).body, TextOf(EventsOf(u))) /\ Reply(u).bytes = Bytes(TextOf(EventsOf(u)))
    BY <1>2, Zenon DEF Content, Previewed, Quotes
  <2>3. PICK i : i = MessageAt(u, "assistant")
    OBVIOUS
  <2>4. /\ i \in DOMAIN messages[ConversationOf[u]] /\ Reply(u) = messages[ConversationOf[u]][i]
        /\ Reply(u).role = "assistant"
    BY <1>2, <2>3, MessageFound DEF Reply
  <2>5. Reply(u) \in MessageRows(ConversationOf[u])
    BY <1>0, <2>4, RowTurns
  <2>6. Reply(u).body \in Seq(Chars) /\ Bytes(Reply(u).body) <= MaxPreview
    BY <2>4, <2>5 DEF MessageRows, MessageType
  <2> QED  BY <2>1, <2>2, <2>6, Zenon
<1> QED  BY <1>1, <1>2

\* v4_append_content stores the chunk and extends the reply of its turn.
LEMMA AppendChunkStepped ==
    ASSUME Inv, Tables, Contents, Volatile, AppendChunk
    PROVE  AllStepped
<1>a. PICK t, c, i, chunk : /\ t = worker.turn /\ c = ConversationOf[t]
                            /\ i = MessageAt(t, "assistant") /\ chunk = Fit(rest, MaxDelta)
  OBVIOUS
<1>1. worker.stage = "streaming" /\ rest # <<>> /\ Accepts(t, chunk)
  BY <1>a DEF AppendChunk, At
<1>2. t \in Turns /\ status[t] \in Active
  <2>1. t \in Turns /\ status[t] # Absent
    BY <1>1, <1>a DEF Inv, WorkerAdmitted
  <2>2. status[t] \in RunState \cup {Absent}
    BY <2>1 DEF Inv, StoreInv, Rows
  <2> QED  BY <1>1, <2>1, <2>2, StatesDisjoint DEF Accepts
<1>3. c \in Conversations /\ Room(c) /\ Count(t) + Bytes(chunk) <= MaxText
  BY <1>1, <1>2, <1>a, TurnsAssumption DEF Accepts, Count
<1>4. Shown(t) /\ Content(t)
  BY <1>2, <1>a, StatesDisjoint DEF Contents, Shown, Inv, StoreInv, MarkerFits
<1>5. /\ messages = [d \in Conversations |-> messages[d]]
      /\ events = [d \in Conversations |-> events[d]]
      /\ \A d \in Conversations : Table(d)
  BY DEF Tables
<1>6. chunk \in Seq(Chars) /\ chunk # <<>> /\ Bytes(chunk) \in Nat
  <2>1. rest \in Seq(Chars)
    BY DEF Volatile
  <2>2. chunk \in Seq(Chars) /\ chunk # <<>>
    BY <1>1, <1>a, <2>1, SizesAssumption, FitPrefix
  <2> QED  BY <2>2, BytesNat
<1>7. PICK text \in Seq(Chars) : text = TextOf(EventsOf(t))
  BY <1>2, <1>3, <1>5, <1>a, EventsOfType
<1>8. /\ Body(t) \in Seq(Chars) /\ Bytes(Body(t)) <= MaxPreview
      /\ IsPrefix(Body(t), text) /\ Count(t) = Bytes(text)
  <2>1. Table(ConversationOf[t])
    BY <1>3, <1>5, <1>a
  <2> QED  BY <1>2, <1>4, <1>7, <2>1, SoFar
<1>9. Bytes(text) \in Nat
  BY BytesNat
<1>10. PICK x, n : x = Extend(Body(t), Count(t), chunk) /\ n = Count(t) + Bytes(chunk)
  OBVIOUS
<1>11. x \in Seq(Chars) /\ Bytes(x) <= MaxPreview /\ n \in Nat /\ n <= MaxText
  <2>1. PICK body \in Seq(Chars) : body = Body(t)
    BY <1>8
  <2>2. Bytes(body) <= MaxPreview /\ IsPrefix(body, text)
    BY <1>8, <2>1, Zenon
  <2>3. /\ Extend(body, Bytes(text), chunk) \in Seq(Chars)
        /\ Bytes(Extend(body, Bytes(text), chunk)) <= MaxPreview
    BY <1>6, <2>2, ExtendPrefix
  <2>4. x = Extend(body, Bytes(text), chunk)
    BY <1>8, <1>10, <2>1, Zenon
  <2>5. n \in Nat /\ n <= MaxText
    BY <1>3, <1>6, <1>8, <1>9, <1>10
  <2> QED  BY <2>3, <2>4, <2>5, Zenon
<1>12. PICK m : m = [turn |-> t, role |-> "assistant", body |-> x, bytes |-> n,
                     complete |-> FALSE, state |-> "running"]
  OBVIOUS
<1>13. /\ m \in MessageRows(c)
       /\ m.turn = t /\ m.role = "assistant" /\ m.body = x /\ m.bytes = n
  <2>1. /\ m.turn = t /\ m.role = "assistant" /\ m.body = x /\ m.bytes = n
        /\ m \in MessageType
    BY <1>2, <1>11, <1>12 DEF MessageType, RunState, InFlight
  <2>2. Bytes(m.body) <= MaxPreview
    BY <1>11, <2>1, Zenon
  <2> QED  BY <1>11, <1>a, <2>1, <2>2 DEF MessageRows
<1>14. WithText(messages[c], t, chunk) =
         IF i = 0 THEN Append(messages[c], m) ELSE [messages[c] EXCEPT ![i] = m]
  <2>1. CASE i = 0
    <3>1. Body(t) = <<>> /\ Count(t) = 0
      BY <1>a, <2>1 DEF Body, Count
    <3> QED  BY <1>a, <1>10, <1>12, <2>1, <3>1, Zenon DEF WithText
  <2>2. CASE i # 0
    <3>1. Body(t) = messages[c][i].body /\ Count(t) = messages[c][i].bytes
      BY <1>a, <2>2 DEF Body, Count, Reply
    <3> QED  BY <1>a, <1>10, <1>12, <2>2, <3>1, Zenon DEF WithText
  <2> QED  BY <2>1, <2>2
<1>15. PICK e \in EventType : e = TextEvent(t, chunk) /\ e.turn = t
  <2>1. TextEvent(t, chunk) \in EventType /\ TextEvent(t, chunk).turn = t
    BY <1>2, <1>6 DEF TextEvent, EventType
  <2> QED  BY <2>1
<1>16. /\ UNCHANGED <<conversation, status>>
       /\ events' = [events EXCEPT ![c] = Append(events[c], e)]
       /\ messages' = [messages EXCEPT ![c] = WithText(messages[c], t, chunk)]
  BY <1>a, <1>15 DEF AppendChunk
<1>17. /\ messages' = [d \in Conversations |-> messages'[d]]
       /\ events' = [d \in Conversations |-> events'[d]]
  BY <1>5, <1>16
<1>18. ASSUME NEW d \in Conversations, d # c PROVE Stepped(d)
  <2>1. Rests(d)
    BY <1>5, <1>16, <1>18 DEF Rests
  <2> QED  BY <1>5, <1>16, <2>1, RestsStep
<1>19. /\ events'[c] = Append(events[c], e)
       /\ messages'[c] = IF i = 0 THEN Append(messages[c], m) ELSE [messages[c] EXCEPT ![i] = m]
  BY <1>3, <1>5, <1>14, <1>16
<1>20. /\ messages[c] \in Seq(MessageRows(c)) /\ events[c] \in Seq(EventType)
       /\ \A k \in DOMAIN messages[c] : status[messages[c][k].turn] # Absent
  BY <1>3, <1>5 DEF Table
<1>21. i # 0 => i \in DOMAIN messages[c] /\ messages[c][i].turn = t /\ messages[c][i].role = "assistant"
  BY <1>2, <1>a, MessageFound
<1>22. events'[c] \in Seq(EventType) /\ Len(events'[c]) <= MaxSequence
  <2>1. events'[c] \in Seq(EventType) /\ Len(events'[c]) = Len(events[c]) + 1 /\ Len(events[c]) \in Nat
    BY <1>19, <1>20
  <2> QED  BY <1>3, <2>1, SizesAssumption DEF Room
<1>23. PICK k : k = IF i = 0 THEN Len(messages[c]) + 1 ELSE i
  OBVIOUS
<1>b. PICK new : new = messages'[c]
  OBVIOUS
<1>24. /\ new = messages'[c] /\ new \in Seq(MessageRows(c))
       /\ k \in DOMAIN new /\ k # 0 /\ new[k] = m
       /\ \A j \in DOMAIN new : j # k => j \in DOMAIN messages[c] /\ new[j] = messages[c][j]
       /\ \A j \in DOMAIN messages[c] : j \in DOMAIN new
  <2>1. Len(messages[c]) \in Nat /\ DOMAIN messages[c] = 1 .. Len(messages[c])
    BY <1>20
  <2>2. CASE i = 0
    <3>1. new = Append(messages[c], m) /\ k = Len(messages[c]) + 1
      BY <1>b, <1>19, <1>23, <2>2
    <3> QED  BY <1>b, <1>13, <1>20, <2>1, <3>1
  <2>3. CASE i # 0
    <3>1. new = [messages[c] EXCEPT ![i] = m] /\ k = i /\ i \in DOMAIN messages[c]
      BY <1>b, <1>19, <1>21, <1>23, <2>3
    <3>2. DOMAIN new = DOMAIN messages[c] /\ new[k] = m /\ \A j \in DOMAIN new : j # k => new[j] = messages[c][j]
      BY <3>1
    <3>3. new \in Seq(MessageRows(c))
      BY <1>13, <1>20, <3>1
    <3> QED  BY <1>b, <2>3, <3>1, <3>2, <3>3
  <2> QED  BY <2>2, <2>3
<1>25. Table(c)' /\ Grows(c)
  <2>1. \A j \in DOMAIN new : status'[new[j].turn] # Absent
    BY <1>2, <1>13, <1>16, <1>20, <1>24, StatesDisjoint
  <2> QED  BY <1>15, <1>16, <1>19, <1>22, <1>24, <2>1 DEF Table, Grows
<1>26. ASSUME NEW u \in Turns, ConversationOf[u] = c, u # t PROVE Effect(u)
  <2>1. EventsOf(u)' = EventsOf(u)
    <3>1. EventsOf(u)' = IF e.turn = u THEN Append(EventsOf(u), e) ELSE EventsOf(u)
      BY <1>19, <1>20, <1>26, EventsOfMore
    <3> QED  BY <1>15, <1>26, <3>1, Zenon
  <2>2. SameReplies(messages[c], new, u)
    <3>1. \A j \in DOMAIN messages[c] : messages[c][j].turn = u => j # k
      <4>1. Len(messages[c]) \in Nat /\ DOMAIN messages[c] = 1 .. Len(messages[c])
        BY <1>20
      <4> QED  BY <1>21, <1>23, <1>26, <4>1
    <3> QED  BY <1>13, <1>24, <1>26, <3>1 DEF SameReplies
  <2>3. SameReply(u)
    BY <1>24, <1>26, <2>2, ReplyKept
  <2>4. status'[u] = status[u] /\ (Shown(u)' => Shown(u))
    BY <1>16 DEF Shown
  <2> QED  BY <2>1, <2>3, <2>4 DEF Effect, Untouched
<1>27. Effect(t)
  <2>1. EventsOf(t)' = Append(EventsOf(t), TextEvent(t, chunk))
    <3>1. EventsOf(t)' = IF e.turn = t THEN Append(EventsOf(t), e) ELSE EventsOf(t)
      BY <1>2, <1>a, <1>19, <1>20, EventsOfMore
    <3> QED  BY <1>15, <3>1, Zenon
  <2> DEFINE Found(ms) == {j \in DOMAIN ms : ms[j].turn = t /\ ms[j].role = "assistant"}
             First(S) == IF S = {} THEN 0 ELSE CHOOSE j \in S : TRUE
  <2>2. i = First(Found(messages[c])) /\ MessageAt(t, "assistant")' = First(Found(messages'[c]))
    <3>1. /\ MessageAt(t, "assistant") = First(Found(messages[ConversationOf[t]]))
          /\ MessageAt(t, "assistant")' = First(Found(messages'[ConversationOf[t]]))
      BY Zenon DEF MessageAt
    <3> HIDE DEF Found, First
    <3> QED  BY <1>a, <3>1, Zenon
  <2>3. MessageAt(t, "assistant")' = k
    <3>1. CASE i = 0
      <4>1. 0 \notin DOMAIN messages[c]
        BY <1>20
      <4>2. \A j \in DOMAIN messages[c] : messages[c][j].turn = t => messages[c][j].role # "assistant"
        BY <1>2, <1>a, <3>1, <4>1, NoMessage
      <4>3. Found(new) = {k}
        BY <1>13, <1>24, <4>2
      <4>4. First({k}) = k
        OBVIOUS
      <4> HIDE DEF Found, First
      <4> QED  BY <1>24, <2>2, <4>3, <4>4, Zenon
    <3>2. CASE i # 0
      <4>1. k = i
        BY <1>23, <3>2
      <4>2. Found(new) = Found(messages[c])
        BY <1>13, <1>21, <1>24, <3>2, <4>1
      <4> HIDE DEF Found, First
      <4> QED  BY <1>24, <2>2, <4>1, <4>2, Zenon
    <3> QED  BY <3>1, <3>2
  <2>4. Reply(t)' = m
    <3>1. Reply(t)' = messages'[c][MessageAt(t, "assistant")']
      BY <1>a, Zenon DEF Reply
    <3> QED  BY <1>24, <2>3, <3>1, Zenon
  <2>5. status'[t] = status[t]
    BY <1>16
  <2>6. Spoke(t, chunk)
    BY <1>1, <1>4, <1>6, <1>10, <1>13, <1>24, <1>a, <2>1, <2>3, <2>4, <2>5 DEF Spoke
  <2> QED  BY <1>a, <2>6 DEF Effect
<1>28. Stepped(c)
  BY <1>25, <1>26, <1>27 DEF Stepped
<1> QED  BY <1>17, <1>18, <1>28 DEF AllStepped

\* One step per action.
LEMMA NextStepped ==
    ASSUME Inv, Tables, Contents, Volatile, [Next]_vars
    PROVE  AllStepped
<1>1. ASSUME NEW t \in Turns, Drop(t) \/ Cancel(t) \/ WorkerStart(t) PROVE AllStepped
  <2>1. PICK next : Transition(t, next)
    BY <1>1 DEF Drop, Cancel, WorkerStart
  <2> QED  BY <2>1, TransitionStepped
<1>2. ASSUME WorkerRun \/ Settle \/ InterruptAdmitted PROVE AllStepped
  <2>0. PICK t : t = worker.turn
    OBVIOUS
  <2>1. t \in Turns
    BY <1>2, <2>0 DEF WorkerRun, Settle, InterruptAdmitted, At, Inv, WorkerAdmitted
  <2>2. PICK next : Transition(t, next)
    BY <1>2, <2>0 DEF WorkerRun, Settle, InterruptAdmitted
  <2> QED  BY <2>1, <2>2, TransitionStepped
<1>3. CASE EmitStarted \/ EmitText \/ AppendFails \/ EmitFinished \/ EmitStray \/ WorkerFails
  BY <1>3, UnchangedStepped DEF EmitStarted, EmitText, AppendFails, EmitFinished, EmitStray, WorkerFails
<1>4. CASE (\E t \in Reading : ReadPage(t)) \/ UNCHANGED vars
  <2>1. UNCHANGED durable
    BY <1>4 DEF ReadPage, vars
  <2> QED  BY <2>1, UnchangedStepped
<1> QED  BY <1>1, <1>2, <1>3, <1>4, CreateStepped, DeleteStepped, AdmitStepped, AppendChunkStepped,
            BuildPromptStepped, FinalizeStepped, RestartStepped DEF Next

-----------------------------------------------------------------------------
(* The rows of a turn after any of these effects.                          *)

\* An event more: of text, or the marker.
LEMMA ToldMore ==
    ASSUME NEW es \in Seq(EventType), NEW e \in EventType, NEW t, NEW state, NEW next,
           Told(es, t, state), state \notin Terminal,
           \/ e.kind = "text" /\ next \notin Terminal
           \/ e = TerminalEvent(t, next) /\ next \in Terminal
    PROVE  Told(Append(es, e), t, next)
<1>0. PICK n \in Nat : n = Len(es)
  OBVIOUS
<1>1. PICK new : new = Append(es, e)
  OBVIOUS
<1>2. /\ DOMAIN new = 1 .. n + 1 /\ Len(new) = n + 1 /\ new # <<>> /\ DOMAIN es = 1 .. n
      /\ new[n + 1] = e /\ \A k \in 1 .. n : new[k] = es[k]
  BY <1>0, <1>1
<1>3. e = TerminalEvent(t, next) => e.kind = "terminal"
  BY DEF TerminalEvent
<1>4. ASSUME NEW k \in DOMAIN new, new[k].kind = "notice"
      PROVE  k = 1 /\ new[k] = NoticeEvent(t)
  <2>1. k \in 1 .. n
    BY <1>2, <1>3, <1>4
  <2> QED  BY <1>2, <1>4, <2>1 DEF Told
<1>5. ASSUME NEW k \in DOMAIN new
      PROVE  new[k].kind = "terminal" <=> next \in Terminal /\ k = Len(new)
  <2>1. CASE k = n + 1
    BY <1>2, <1>3, <2>1
  <2>2. CASE k \in 1 .. n
    <3>1. new[k].kind # "terminal"
      BY <1>2, <2>2 DEF Told
    <3> QED  BY <1>2, <2>2, <3>1
  <2> QED  BY <1>2, <2>1, <2>2
<1>6. next \in Terminal => new # <<>> /\ new[Len(new)] = TerminalEvent(t, next)
  BY <1>2, <1>3
<1>7. Told(new, t, next)
  BY <1>4, <1>5, <1>6 DEF Told
<1> QED  BY <1>1, <1>7, Zenon

\* An event without text leaves the text as it is.
LEMMA SilentMore ==
    ASSUME NEW es \in Seq(EventType), NEW e \in EventType, e.text = <<>>, e.kind # "text"
    PROVE  /\ TextOf(Append(es, e)) = TextOf(es)
           /\ Silent(es) => Silent(Append(es, e))
<1>1. TextOf(es) \in Seq(Chars) /\ TextOf(Append(es, e)) = TextOf(es) \o e.text
  BY TextAppend
<1>2. PICK text \in Seq(Chars) : text = TextOf(es)
  BY <1>1
<1>3. text \o <<>> = text
  OBVIOUS
<1>4. TextOf(Append(es, e)) = TextOf(es)
  BY <1>1, <1>2, <1>3, Zenon
<1>5. ASSUME \A k \in DOMAIN es : es[k].kind # "text"
      PROVE  \A k \in DOMAIN Append(es, e) : Append(es, e)[k].kind # "text"
  BY <1>5
<1> QED  BY <1>4, <1>5 DEF Silent

\* A reply that is kept is faithful to events without text.
LEMMA PreviewKept ==
    ASSUME NEW u \in Turns, EventsOf(u) \in Seq(EventType), SameReply(u), Previewed(u),
           \/ EventsOf(u)' = EventsOf(u)
           \/ \E e \in EventType : e.text = <<>> /\ e.kind # "text" /\ EventsOf(u)' = Append(EventsOf(u), e)
    PROVE  Previewed(u)'
<1>1. PICK es, new : es = EventsOf(u) /\ new = EventsOf(u)'
  OBVIOUS
<1>2. TextOf(new) = TextOf(es) /\ (Silent(es) => Silent(new))
  <2>1. CASE new = es
    BY <2>1
  <2>2. ASSUME NEW e \in EventType, e.text = <<>>, e.kind # "text", new = Append(es, e)
        PROVE  TextOf(new) = TextOf(es) /\ (Silent(es) => Silent(new))
    BY <1>1, <2>2, SilentMore
  <2> QED  BY <1>1, <2>1, <2>2
<1>3. CASE MessageAt(u, "assistant") = 0
  <2>1. Silent(es) /\ MessageAt(u, "assistant")' = 0
    BY <1>1, <1>3 DEF Previewed, SameReply
  <2> QED  BY <1>1, <1>2, <2>1, Zenon DEF Previewed
<1>4. CASE MessageAt(u, "assistant") # 0
  <2>1. /\ Quotes(es, Reply(u).body, Reply(u).bytes) /\ MessageAt(u, "assistant")' # 0
        /\ Reply(u)'.body = Reply(u).body /\ Reply(u)'.bytes = Reply(u).bytes
    BY <1>1, <1>4 DEF Previewed, SameReply
  <2>2. Quotes(new, Reply(u).body, Reply(u).bytes)
    BY <1>2, <2>1, Zenon DEF Quotes
  <2>3. Quotes(new, Reply(u)'.body, Reply(u)'.bytes)
    BY <2>1, <2>2, Zenon
  <2> QED  BY <1>1, <2>1, <2>3, Zenon DEF Previewed
<1> QED  BY <1>3, <1>4

\* One step per effect.
LEMMA ContentStep ==
    ASSUME Inv, NEW u \in Turns, Table(ConversationOf[u]), Content(u), WorkerFresh, Streams, Effect(u)
    PROVE  Content(u)'
<1> SUFFICES ASSUME Shown(u)' PROVE Told(EventsOf(u), u, status[u])' /\ Previewed(u)'
  BY DEF Content
<1>0. EventsOf(u) \in Seq(EventType) /\ TextOf(EventsOf(u)) \in Seq(Chars)
  BY EventsOfType
<1>1. CASE Untouched(u)
  <2>1. Told(EventsOf(u), u, status[u]) /\ Previewed(u) /\ SameReply(u)
    BY <1>1 DEF Untouched, Content
  <2>2. EventsOf(u)' = EventsOf(u) /\ status'[u] = status[u]
    BY <1>1 DEF Untouched
  <2> QED  BY <1>0, <2>1, <2>2, PreviewKept
<1>2. CASE Moved(u)
  <2>1. Told(EventsOf(u), u, status[u]) /\ Previewed(u) /\ SameReply(u) /\ status[u] \notin Terminal
    BY <1>2, StatesDisjoint DEF Moved, Content
  <2>2. CASE status'[u] \in Terminal
    <3>1. PICK e \in EventType : e = TerminalEvent(u, status'[u]) /\ e.text = <<>> /\ e.kind # "text"
      <4>1. /\ TerminalEvent(u, status'[u]) \in EventType /\ TerminalEvent(u, status'[u]).text = <<>>
            /\ TerminalEvent(u, status'[u]).kind # "text"
        BY <2>2 DEF TerminalEvent, EventType
      <4> QED  BY <4>1
    <3>2. EventsOf(u)' = Append(EventsOf(u), e)
      BY <1>2, <2>2, <3>1 DEF Moved
    <3>3. Previewed(u)'
      BY <1>0, <2>1, <3>1, <3>2, PreviewKept
    <3>4. Told(Append(EventsOf(u), e), u, status'[u])
      BY <1>0, <2>1, <2>2, <3>1, ToldMore
    <3> QED  BY <3>2, <3>3, <3>4, Zenon
  <2>3. CASE status'[u] \notin Terminal
    <3>1. EventsOf(u)' = EventsOf(u)
      BY <1>2, <2>3 DEF Moved
    <3>2. Previewed(u)'
      BY <1>0, <2>1, <3>1, PreviewKept
    <3>3. Told(EventsOf(u), u, status'[u])
      BY <2>1, <2>3 DEF Told
    <3> QED  BY <3>1, <3>2, <3>3, Zenon
  <2> QED  BY <2>2, <2>3
<1>3. CASE Asked(u)
  <2>1. status'[u] \notin Terminal /\ EventsOf(u)' = <<>> /\ MessageAt(u, "assistant")' = 0
    BY <1>3, StatesDisjoint DEF Asked, Active
  <2>2. Told(<<>>, u, status'[u])
    BY <2>1 DEF Told
  <2>3. Silent(<<>>)
    BY TextEmpty DEF Silent
  <2> QED  BY <2>1, <2>2, <2>3, Zenon DEF Previewed
<1>4. CASE Noticed(u)
  <2>1. /\ EventsOf(u) = <<>> /\ status[u] \notin Terminal /\ Previewed(u) /\ SameReply(u)
        /\ status'[u] = status[u] /\ EventsOf(u)' = Append(EventsOf(u), NoticeEvent(u))
    BY <1>4, StatesDisjoint DEF Noticed, WorkerFresh, Streams, Content, Active
  <2>2. PICK e \in EventType : e = NoticeEvent(u) /\ e.text = <<>> /\ e.kind = "notice"
    <3>1. NoticeEvent(u) \in EventType /\ NoticeEvent(u).text = <<>> /\ NoticeEvent(u).kind = "notice"
      BY DEF NoticeEvent, EventType
    <3> QED  BY <3>1
  <2>3. Previewed(u)'
    BY <1>0, <2>1, <2>2, PreviewKept
  <2>4. PICK new : new = Append(<<>>, e)
    OBVIOUS
  <2>5. DOMAIN new = {1} /\ new[1] = e
    BY <2>4
  <2>6. Told(new, u, status'[u])
    BY <2>1, <2>2, <2>5 DEF Told
  <2> QED  BY <2>1, <2>2, <2>3, <2>4, <2>6, Zenon
<1>5. ASSUME NEW chunk, Spoke(u, chunk) PROVE Told(EventsOf(u), u, status[u])' /\ Previewed(u)'
  <2>1. /\ status[u] \notin Terminal /\ Told(EventsOf(u), u, status[u]) /\ Shown(u)
        /\ status'[u] = status[u] /\ EventsOf(u)' = Append(EventsOf(u), TextEvent(u, chunk))
        /\ chunk \in Seq(Chars) /\ chunk # <<>> /\ MessageAt(u, "assistant")' # 0
    BY <1>5, StatesDisjoint DEF Spoke, Streams, Content, Active
  <2>2. PICK e \in EventType : e = TextEvent(u, chunk) /\ e.text = chunk /\ e.kind = "text"
    <3>1. /\ TextEvent(u, chunk) \in EventType /\ TextEvent(u, chunk).text = chunk
          /\ TextEvent(u, chunk).kind = "text"
      BY <2>1 DEF TextEvent, EventType
    <3> QED  BY <3>1
  <2>3. Told(Append(EventsOf(u), e), u, status'[u])
    BY <1>0, <2>1, <2>2, ToldMore
  <2>4. PICK text \in Seq(Chars), body \in Seq(Chars) : text = TextOf(EventsOf(u)) /\ body = Body(u)
    BY <1>0, <2>1, SoFar
  <2>5. Bytes(body) <= MaxPreview /\ IsPrefix(body, text) /\ Count(u) = Bytes(text)
    BY <2>1, <2>4, SoFar, Zenon
  <2>6. IsPrefix(Extend(body, Bytes(text), chunk), text \o chunk)
    BY <2>1, <2>5, ExtendPrefix
  <2>7. Bytes(text \o chunk) = Bytes(text) + Bytes(chunk)
    BY <2>1, BytesConcat
  <2>8. text \o chunk # <<>>
    <3>1. Len(text \o chunk) = Len(text) + Len(chunk) /\ Len(text) \in Nat /\ Len(chunk) \in Nat /\ Len(chunk) # 0
      BY <2>1
    <3> QED  BY <3>1
  <2>9. TextOf(EventsOf(u)') = text \o chunk
    <3>1. TextOf(Append(EventsOf(u), e)) = TextOf(EventsOf(u)) \o e.text
      BY <1>0, TextAppend
    <3> QED  BY <2>1, <2>2, <2>4, <3>1, Zenon
  <2>10. Reply(u)'.body = Extend(body, Bytes(text), chunk) /\ Reply(u)'.bytes = Bytes(text) + Bytes(chunk)
    BY <1>5, <2>4, <2>5, Zenon DEF Spoke
  <2>11. Quotes(EventsOf(u)', Reply(u)'.body, Reply(u)'.bytes)
    BY <2>6, <2>7, <2>8, <2>9, <2>10, Zenon DEF Quotes
  <2>12. Previewed(u)'
    BY <2>1, <2>11, Zenon DEF Previewed
  <2> QED  BY <2>1, <2>2, <2>3, <2>12, Zenon
<1>6. CASE Erased(u)
  BY <1>6 DEF Erased
<1> QED  BY <1>1, <1>2, <1>3, <1>4, <1>5, <1>6 DEF Effect

-----------------------------------------------------------------------------
(* The stream of the worker.                                               *)

\* What the transition of a turn does to the events of any turn.
LEMMA TransitionTold ==
    ASSUME Inv, Tables, NEW t \in Turns, NEW next, Transition(t, next), NEW u \in Turns
    PROVE  /\ status'[u] = IF u = t THEN next ELSE status[u]
           /\ EventsOf(u)' = IF u = t /\ next \in Terminal
                             THEN Append(EventsOf(u), TerminalEvent(t, next)) ELSE EventsOf(u)
<1>1. PICK c, d : c = ConversationOf[t] /\ d = ConversationOf[u]
  OBVIOUS
<1>2. c \in Conversations /\ d \in Conversations
  BY <1>1, TurnsAssumption
<1>3. /\ status' = [status EXCEPT ![t] = next]
      /\ events' = IF next \in Terminal
                   THEN [events EXCEPT ![c] = Append(events[c], TerminalEvent(t, next))] ELSE events
  BY <1>1, TransitionEvents DEF Transition, Inv
<1>4. /\ events = [k \in Conversations |-> events[k]] /\ events[d] \in Seq(EventType)
      /\ status \in [Turns -> RunState \cup {Absent}]
  BY <1>2 DEF Tables, Table, Inv, StoreInv, Rows
<1>5. status'[u] = IF u = t THEN next ELSE status[u]
  BY <1>3, <1>4
<1>6. CASE next \in Terminal /\ c = d
  <2>1. PICK e \in EventType : e = TerminalEvent(t, next) /\ e.turn = t
    <3>1. TerminalEvent(t, next) \in EventType /\ TerminalEvent(t, next).turn = t
      BY <1>6 DEF TerminalEvent, EventType
    <3> QED  BY <3>1
  <2>2. events'[d] = Append(events[d], e)
    BY <1>2, <1>3, <1>4, <1>6, <2>1
  <2>3. EventsOf(u)' = IF e.turn = u THEN Append(EventsOf(u), e) ELSE EventsOf(u)
    BY <1>1, <1>4, <2>2, EventsOfMore
  <2> QED  BY <1>5, <1>6, <2>1, <2>3, Zenon
<1>7. CASE ~(next \in Terminal /\ c = d)
  <2>1. events'[d] = events[d] /\ ~(u = t /\ next \in Terminal)
    BY <1>1, <1>2, <1>3, <1>4, <1>7
  <2> QED  BY <1>1, <1>5, <2>1, EventsOfSame, Zenon
<1> QED  BY <1>6, <1>7

\* The turn the worker is busy with goes on as it was.
Busy == {"starting", "prompt", "opening", "streaming", "closed"}

Steady == worker.stage \in Busy =>
             \A w : w = worker.turn => status'[w] \in InFlight /\ EventsOf(w)' = EventsOf(w)

\* Then what is known of the stream stays true.
LEMMA WorkerKept ==
    ASSUME WorkerFresh, Streams, Steady, UNCHANGED <<worker, rest, spoken>>
    PROVE  WorkerFresh' /\ Streams'
<1>0. PICK w : w = worker.turn /\ w = worker'.turn
  OBVIOUS
<1>1. worker.stage \in Busy => status'[w] \in InFlight /\ EventsOf(w)' = EventsOf(w)
  BY <1>0 DEF Steady
<1>2. /\ worker.stage \in {"starting", "prompt"} => EventsOf(w)' = <<>>
      /\ worker.stage \in {"opening", "streaming", "closed"} /\ ~worker.invalid =>
           TextOf(EventsOf(w)') \o rest = FlattenSeq(spoken)
  BY <1>0, <1>1, Zenon DEF WorkerFresh, Streams, Busy
<1>3. WorkerFresh'
  BY <1>0, <1>2, Zenon DEF WorkerFresh
<1>4. /\ worker.stage \in Busy => status'[worker.turn] \in InFlight
      /\ rest # <<>> => worker.stage = "streaming"
      /\ worker.stage \in {"starting", "prompt", "opening"} => spoken = <<>>
  BY <1>0, <1>1 DEF Streams
<1>5. Streams'
  BY <1>0, <1>2, <1>4, Zenon DEF Streams, Busy
<1> QED  BY <1>3, <1>5

\* A step of a client or of a reader.
LEMMA ClientSteady ==
    ASSUME Inv, Tables, Streams,
           \/ \E c \in Conversations : CreateConversation(c) \/ DeleteConversation(c)
           \/ \E t \in Turns : AdmitTurn(t) \/ Drop(t) \/ Cancel(t)
           \/ \E t \in Reading : ReadPage(t)
           \/ UNCHANGED vars
    PROVE  Steady /\ UNCHANGED <<worker, rest, spoken>>
<1>1. UNCHANGED <<worker, rest, spoken>>
  BY DEF CreateConversation, DeleteConversation, AdmitTurn, Drop, Cancel, ReadPage, vars
<1>2. SUFFICES ASSUME worker.stage \in Busy, NEW w, w = worker.turn
               PROVE  status'[w] \in InFlight /\ EventsOf(w)' = EventsOf(w)
  BY <1>1 DEF Steady
<1>3. w \in Turns /\ status[w] \in InFlight /\ ConversationOf[w] \in Conversations
  BY <1>2, TurnsAssumption DEF Inv, WorkerAdmitted, Streams, Busy
<1>4. status \in [Turns -> RunState \cup {Absent}] /\ InFlight \subseteq Active
  BY DEF Inv, StoreInv, Rows, Active
<1>5. ASSUME UNCHANGED events, status'[w] = status[w]
      PROVE  status'[w] \in InFlight /\ EventsOf(w)' = EventsOf(w)
  BY <1>3, <1>5, EventsOfSame
<1>6. ASSUME NEW t \in Turns, AdmitTurn(t)
      PROVE  status'[w] \in InFlight /\ EventsOf(w)' = EventsOf(w)
  <2>1. UNCHANGED events /\ status'[w] = status[w]
    BY <1>3, <1>4, <1>6, StatesDisjoint DEF AdmitTurn, Absent
  <2> QED  BY <1>5, <2>1
<1>7. ASSUME NEW c \in Conversations, DeleteConversation(c)
      PROVE  status'[w] \in InFlight /\ EventsOf(w)' = EventsOf(w)
  <2>1. /\ c # ConversationOf[w] /\ status' = status
        /\ events' = [events EXCEPT ![c] = <<>>]
    BY <1>3, <1>4, <1>7, StatesDisjoint DEF DeleteConversation, ActiveTurns, TurnsOf
  <2>2. events'[ConversationOf[w]] = events[ConversationOf[w]]
    BY <1>3, <2>1 DEF Tables
  <2> QED  BY <1>3, <2>1, <2>2, EventsOfSame
<1>8. ASSUME NEW t \in Turns, Drop(t) \/ Cancel(t)
      PROVE  status'[w] \in InFlight /\ EventsOf(w)' = EventsOf(w)
  <2>1. PICK next : Transition(t, next) /\ (t = w => next = "cancel_requested")
    BY <1>3, <1>8 DEF Drop, Cancel, InFlight
  <2>2. /\ status'[w] = IF w = t THEN next ELSE status[w]
        /\ EventsOf(w)' = IF w = t /\ next \in Terminal
                          THEN Append(EventsOf(w), TerminalEvent(t, next)) ELSE EventsOf(w)
    BY <1>3, <2>1, TransitionTold
  <2>3. "cancel_requested" \in InFlight /\ "cancel_requested" \notin Terminal
    BY DEF InFlight, Terminal
  <2> QED  BY <1>3, <2>1, <2>2, <2>3, Zenon
<1>9. ASSUME \/ \E c \in Conversations : CreateConversation(c)
             \/ \E t \in Reading : ReadPage(t)
             \/ UNCHANGED vars
      PROVE  status'[w] \in InFlight /\ EventsOf(w)' = EventsOf(w)
  <2>1. UNCHANGED <<events, status>>
    BY <1>9 DEF CreateConversation, ReadPage, vars, durable
  <2> QED  BY <1>5, <2>1
<1> QED  BY <1>6, <1>7, <1>8, <1>9

\* Once a turn is settled, left or interrupted, nothing is left to stream.
LEMMA WorkerLeaves ==
    ASSUME rest' = <<>>, worker'.stage \in {"idle", "finalize", "gone"}
    PROVE  WorkerFresh' /\ Streams'
BY DEF WorkerFresh, Streams

\* A turn that is started was queued, and has no events.
LEMMA WorkerStartStreams ==
    ASSUME Inv, Tables, QueuedFresh, Streams, NEW t \in Turns, WorkerStart(t)
    PROVE  WorkerFresh' /\ Streams'
<1>1. /\ worker.stage = "idle" /\ Transition(t, "starting") /\ worker'.turn = t
      /\ worker'.stage = "starting" /\ spoken' = <<>> /\ rest' = rest
  BY DEF WorkerStart, At
<1>2. status[t] = "queued" /\ rest' = <<>>
  BY <1>1 DEF Transition, ValidTransition, Terminal, Streams
<1>3. status'[t] = "starting" /\ EventsOf(t)' = EventsOf(t)
  <2>1. "starting" \notin Terminal
    BY DEF Terminal
  <2> QED  BY <1>1, <2>1, TransitionTold
<1>4. EventsOf(t)' = <<>>
  BY <1>2, <1>3 DEF QueuedFresh
<1>5. WorkerFresh'
  BY <1>1, <1>4, Zenon DEF WorkerFresh
<1>6. status'[worker'.turn] \in InFlight
  BY <1>1, <1>3 DEF InFlight
<1> QED  BY <1>1, <1>2, <1>5, <1>6 DEF Streams

\* Nor has it any when it runs.
LEMMA WorkerRunStreams ==
    ASSUME Inv, Tables, WorkerFresh, Streams, WorkerRun
    PROVE  WorkerFresh' /\ Streams'
<1>0. PICK t : t = worker.turn
  OBVIOUS
<1>1. worker.stage = "starting" /\ rest' = <<>> /\ spoken' = <<>>
  BY DEF WorkerRun, At, Streams
<1>2. t \in Turns /\ worker \in [turn : Turns \cup {NoTurn}, stage : Stages, invalid : BOOLEAN]
  BY <1>0, <1>1 DEF Inv, WorkerAdmitted
<1>3. CASE status[t] = "starting"
  <2>1. Transition(t, "running") /\ worker'.turn = t /\ worker'.stage = "prompt"
    BY <1>0, <1>2, <1>3 DEF WorkerRun, Goto
  <2>2. status'[t] = "running" /\ EventsOf(t)' = EventsOf(t)
    <3>1. "running" \notin Terminal
      BY DEF Terminal
    <3> QED  BY <1>2, <2>1, <3>1, TransitionTold
  <2>3. EventsOf(t)' = <<>>
    BY <1>0, <1>1, <2>2 DEF WorkerFresh
  <2>4. WorkerFresh'
    BY <2>1, <2>3, Zenon DEF WorkerFresh
  <2>5. status'[worker'.turn] \in InFlight
    BY <2>1, <2>2 DEF InFlight
  <2> QED  BY <1>1, <2>1, <2>4, <2>5 DEF Streams
<1>4. CASE status[t] # "starting"
  <2>1. worker'.stage = "finalize"
    BY <1>0, <1>2, <1>4 DEF WorkerRun, Goto
  <2> QED  BY <1>1, <2>1, WorkerLeaves
<1> QED  BY <1>3, <1>4

\* The stream begins with nothing said and nothing stored.
LEMMA BuildPromptStreams ==
    ASSUME Inv, Tables, WorkerFresh, Streams, BuildPrompt
    PROVE  WorkerFresh' /\ Streams'
<1>0. PICK t, c : t = worker.turn /\ c = ConversationOf[t]
  OBVIOUS
<1>1. worker.stage = "prompt" /\ rest' = <<>> /\ spoken' = <<>> /\ status' = status
  BY DEF BuildPrompt, At, Streams
<1>2. t \in Turns /\ worker \in [turn : Turns \cup {NoTurn}, stage : Stages, invalid : BOOLEAN]
  BY <1>0, <1>1 DEF Inv, WorkerAdmitted
<1>3. worker'.turn = t /\ worker'.stage = "opening" /\ status'[t] \in InFlight
  BY <1>0, <1>1, <1>2 DEF BuildPrompt, Goto, Streams
<1>4. EventsOf(t) = <<>>
  BY <1>0, <1>1 DEF WorkerFresh
<1>5. \/ events' = events
      \/ events' = [events EXCEPT ![c] = Append(events[c], NoticeEvent(t))]
  BY <1>0 DEF BuildPrompt
<1>6. /\ events = [d \in Conversations |-> events[d]] /\ events[c] \in Seq(EventType)
      /\ c \in Conversations
  BY <1>0, <1>2, TurnsAssumption DEF Tables, Table
<1>7. TextOf(EventsOf(t)') = <<>>
  <2>1. CASE events' = events
    <3>1. EventsOf(t)' = EventsOf(t)
      BY <1>2, <2>1, EventsOfSame
    <3> QED  BY <1>4, <3>1, TextEmpty, Zenon
  <2>2. CASE events' = [events EXCEPT ![c] = Append(events[c], NoticeEvent(t))]
    <3>1. PICK e \in EventType : e = NoticeEvent(t) /\ e.turn = t /\ e.text = <<>> /\ e.kind # "text"
      <4>1. /\ NoticeEvent(t) \in EventType /\ NoticeEvent(t).turn = t
            /\ NoticeEvent(t).text = <<>> /\ NoticeEvent(t).kind # "text"
        BY <1>2 DEF NoticeEvent, EventType
      <4> QED  BY <4>1
    <3>2. events'[c] = Append(events[c], e)
      BY <1>6, <2>2, <3>1
    <3>3. EventsOf(t)' = IF e.turn = t THEN Append(EventsOf(t), e) ELSE EventsOf(t)
      BY <1>0, <1>2, <1>6, <3>2, EventsOfMore
    <3>4. <<>> \in Seq(EventType)
      OBVIOUS
    <3>5. TextOf(Append(<<>>, e)) = TextOf(<<>>)
      BY <3>1, <3>4, SilentMore
    <3> QED  BY <1>4, <3>1, <3>3, <3>5, TextEmpty, Zenon
  <2> QED  BY <1>5, <2>1, <2>2
<1>8. TextOf(EventsOf(t)') \o rest' = FlattenSeq(spoken')
  <2>1. <<>> \o <<>> = <<>>
    OBVIOUS
  <2> QED  BY <1>1, <1>7, <2>1, FlattenEmpty, Zenon
<1>9. TextOf(EventsOf(worker.turn))' \o rest' = FlattenSeq(spoken')
  BY <1>3, <1>8, Zenon
<1> QED  BY <1>1, <1>3, <1>9 DEF WorkerFresh, Streams

\* The events of the provider: none of them writes to the store.
LEMMA EmissionStreams ==
    ASSUME Inv, Tables, Streams, Volatile,
           EmitStarted \/ EmitText \/ AppendFails \/ EmitFinished \/ EmitStray
    PROVE  WorkerFresh' /\ Streams'
<1>0. PICK t, text, new : t = worker.turn /\ text = TextOf(EventsOf(t)) /\ new = TextOf(EventsOf(t)')
  OBVIOUS
<1>1. /\ worker.stage \in {"opening", "streaming", "closed"}
      /\ worker'.stage \in {"opening", "streaming", "closed"}
      /\ worker'.turn = t /\ UNCHANGED <<status, events>>
  <2>1. /\ worker.stage \in {"opening", "streaming", "closed"} /\ UNCHANGED <<status, events>>
        /\ \/ worker' = worker \/ worker' = [worker EXCEPT !.invalid = TRUE]
           \/ worker' = [worker EXCEPT !.stage = "streaming"] \/ worker' = [worker EXCEPT !.stage = "closed"]
    BY DEF EmitStarted, EmitText, AppendFails, EmitFinished, EmitStray, At, Goto, durable
  <2>2. worker \in [turn : Turns \cup {NoTurn}, stage : Stages, invalid : BOOLEAN]
    BY DEF Inv, WorkerAdmitted
  <2> QED  BY <1>0, <2>1, <2>2
<1>2. t \in Turns /\ status'[worker'.turn] \in InFlight
  BY <1>0, <1>1 DEF Inv, WorkerAdmitted, Streams
<1>3. new = text /\ text \in Seq(Chars)
  <2>1. EventsOf(t)' = EventsOf(t)
    BY <1>1, <1>2, EventsOfSame
  <2>2. Table(ConversationOf[t])
    BY <1>2, TurnsAssumption DEF Tables
  <2> QED  BY <1>0, <1>2, <2>1, <2>2, EventsOfType, Zenon
<1>4. ~worker.invalid => text \o rest = FlattenSeq(spoken)
  BY <1>0, <1>1 DEF Streams
<1>5. ~worker'.invalid => text \o rest' = FlattenSeq(spoken')
  <2>1. CASE EmitStarted \/ EmitFinished
    BY <1>4, <2>1 DEF EmitStarted, EmitFinished, Goto, Inv, WorkerAdmitted
  <2>2. CASE AppendFails \/ EmitStray
    BY <2>2 DEF AppendFails, EmitStray, Inv, WorkerAdmitted
  <2>3. CASE EmitText
    <3>1. PICK delta \in Deltas : rest' = delta /\ spoken' = Append(spoken, delta)
      BY <2>3 DEF EmitText
    <3>2. rest = <<>> /\ worker' = worker
      BY <2>3 DEF EmitText
    <3>3. delta \in Seq(Chars) /\ spoken \in Seq(Seq(Chars))
      <4>1. Deltas \subseteq Seq(Chars)
        BY TextAssumption
      <4> QED  BY <4>1 DEF Volatile
    <3>4. FlattenSeq(Append(spoken, delta)) = FlattenSeq(spoken) \o delta
      BY <3>3, FlattenAppend
    <3>5. text \o <<>> = text
      BY <1>3
    <3> QED  BY <1>4, <3>1, <3>2, <3>4, <3>5, Zenon
  <2> QED  BY <2>1, <2>2, <2>3
<1>6. ~worker'.invalid => TextOf(EventsOf(worker.turn))' \o rest' = FlattenSeq(spoken')
  BY <1>0, <1>1, <1>3, <1>5, Zenon
<1>7. rest' # <<>> => worker'.stage = "streaming"
  <2>1. worker \in [turn : Turns \cup {NoTurn}, stage : Stages, invalid : BOOLEAN]
    BY DEF Inv, WorkerAdmitted
  <2> QED  BY <2>1 DEF EmitStarted, EmitText, AppendFails, EmitFinished, EmitStray, At, Goto, Streams
<1>8. worker'.stage = "opening" => spoken' = <<>>
  <2>1. worker \in [turn : Turns \cup {NoTurn}, stage : Stages, invalid : BOOLEAN]
    BY DEF Inv, WorkerAdmitted
  <2> QED  BY <2>1 DEF EmitStarted, EmitText, AppendFails, EmitFinished, EmitStray, At, Goto, Streams
<1> QED  BY <1>1, <1>2, <1>6, <1>7, <1>8 DEF WorkerFresh, Streams

\* The chunk goes from the rest to the store.
LEMMA AppendChunkStreams ==
    ASSUME Inv, Tables, Streams, Volatile, AppendChunk
    PROVE  WorkerFresh' /\ Streams'
<1>0. PICK t, c, chunk, left : /\ t = worker.turn /\ c = ConversationOf[t] /\ chunk = Fit(rest, MaxDelta)
                               /\ left = SubSeq(rest, Len(chunk) + 1, Len(rest))
  OBVIOUS
<1>1. /\ worker.stage = "streaming" /\ UNCHANGED <<worker, spoken, status>> /\ rest' = left
      /\ events' = [events EXCEPT ![c] = Append(events[c], TextEvent(t, chunk))]
  BY <1>0 DEF AppendChunk, At
<1>2. t \in Turns /\ c \in Conversations /\ status[t] \in InFlight
  BY <1>0, <1>1, TurnsAssumption DEF Inv, WorkerAdmitted, Streams
<1>3. /\ events = [d \in Conversations |-> events[d]] /\ events[c] \in Seq(EventType)
      /\ Table(ConversationOf[t])
  BY <1>0, <1>2 DEF Tables, Table
<1>4. rest \in Seq(Chars) /\ chunk \in Seq(Chars) /\ left \in Seq(Chars) /\ chunk \o left = rest
  <2>1. rest \in Seq(Chars)
    BY DEF Volatile
  <2>2. chunk \in Seq(Chars)
    BY <1>0, <2>1, SizesAssumption, FitPrefix
  <2> QED  BY <1>0, <2>1, <2>2, SizesAssumption, FitSplits
<1>5. PICK es \in Seq(EventType) : es = EventsOf(t)
  BY <1>2, <1>3, EventsOfType
<1>6. PICK e \in EventType : e = TextEvent(t, chunk) /\ e.turn = t /\ e.text = chunk
  <2>1. TextEvent(t, chunk) \in EventType /\ TextEvent(t, chunk).turn = t /\ TextEvent(t, chunk).text = chunk
    BY <1>2, <1>4 DEF TextEvent, EventType
  <2> QED  BY <2>1
<1>7. EventsOf(t)' = Append(es, e)
  <2>1. events'[c] = Append(events[c], e)
    BY <1>1, <1>2, <1>3, <1>6
  <2>2. EventsOf(t)' = IF e.turn = t THEN Append(EventsOf(t), e) ELSE EventsOf(t)
    BY <1>0, <1>2, <1>3, <2>1, EventsOfMore
  <2> QED  BY <1>5, <1>6, <2>2, Zenon
<1>8. PICK text \in Seq(Chars) : text = TextOf(es) /\ TextOf(Append(es, e)) = text \o chunk
  BY <1>6, TextAppend
<1>9. (text \o chunk) \o left = text \o (chunk \o left)
  <2>1. text \in Seq(Chars) /\ chunk \in Seq(Chars) /\ left \in Seq(Chars)
    BY <1>4
  <2> QED  BY <2>1, ConcatAssociative
<1>10. ~worker.invalid => text \o rest = FlattenSeq(spoken)
  BY <1>0, <1>1, <1>5, <1>8, Zenon DEF Streams
<1>11. ~worker'.invalid => TextOf(EventsOf(t)') \o rest' = FlattenSeq(spoken')
  BY <1>1, <1>4, <1>7, <1>8, <1>9, <1>10, Zenon
<1>12. ~worker'.invalid => TextOf(EventsOf(worker.turn))' \o rest' = FlattenSeq(spoken')
  BY <1>0, <1>1, <1>11, Zenon
<1>13. status'[worker'.turn] \in InFlight /\ worker'.stage = "streaming"
  BY <1>0, <1>1, <1>2
<1> QED  BY <1>12, <1>13 DEF WorkerFresh, Streams

\* One step per action.
LEMMA StreamsStep ==
    ASSUME Inv, Tables, QueuedFresh, WorkerFresh, Streams, Volatile, [Next]_vars
    PROVE  WorkerFresh' /\ Streams'
<1>1. CASE \/ \E c \in Conversations : CreateConversation(c) \/ DeleteConversation(c)
           \/ \E t \in Turns : AdmitTurn(t) \/ Drop(t) \/ Cancel(t)
           \/ \E t \in Reading : ReadPage(t)
           \/ UNCHANGED vars
  BY <1>1, ClientSteady, WorkerKept
<1>2. CASE Settle \/ Finalize \/ WorkerFails \/ Restart
  <2>1. worker \in [turn : Turns \cup {NoTurn}, stage : Stages, invalid : BOOLEAN]
    BY DEF Inv, WorkerAdmitted
  <2>2. rest' = <<>> /\ worker'.stage \in {"idle", "finalize", "gone"}
    BY <1>2, <2>1 DEF Settle, Finalize, WorkerFails, Restart, At, Goto, Idle, Streams
  <2> QED  BY <2>2, WorkerLeaves
<1>3. CASE InterruptAdmitted
  <2>1. rest' = <<>> /\ worker'.stage = "gone"
    BY <1>3 DEF InterruptAdmitted, At, Streams
  <2> QED  BY <2>1, WorkerLeaves
<1> QED  BY <1>1, <1>2, <1>3, WorkerStartStreams, WorkerRunStreams, BuildPromptStreams,
            EmissionStreams, AppendChunkStreams DEF Next

-----------------------------------------------------------------------------
(* What readers have read.                                                 *)

\* The text of a turn in two adjacent runs of events.
LEMMA OwnText ==
    ASSUME NEW a \in Seq(EventType), NEW b \in Seq(EventType), NEW s, Joins(a, b, s), NEW t
    PROVE  /\ TextOf(Own(a, t)) \in Seq(Chars) /\ TextOf(Own(b, t)) \in Seq(Chars)
           /\ Joins(TextOf(Own(a, t)), TextOf(Own(b, t)), TextOf(Own(s, t)))
<1>1. Joins(Own(a, t), Own(b, t), Own(s, t))
  BY OwnConcat
<1>2. PICK x \in Seq(EventType), y \in Seq(EventType) : x = Own(a, t) /\ y = Own(b, t)
  BY OwnType
<1>3. TextOf(x \o y) = TextOf(x) \o TextOf(y) /\ TextOf(x) \in Seq(Chars) /\ TextOf(y) \in Seq(Chars)
  BY TextConcat, TextType
<1> QED  BY <1>1, <1>2, <1>3, Zenon DEF Joins

\* The text of a turn up to a position, in two parts.
LEMMA TextSplits ==
    ASSUME NEW es \in Seq(EventType), NEW t, NEW k \in Nat, NEW n \in Nat, k <= n, n <= Len(es)
    PROVE  /\ TextOf(Own(SubSeq(es, 1, k), t)) \in Seq(Chars)
           /\ TextOf(Own(SubSeq(es, k + 1, n), t)) \in Seq(Chars)
           /\ TextOf(Own(SubSeq(es, 1, n), t)) =
                 TextOf(Own(SubSeq(es, 1, k), t)) \o TextOf(Own(SubSeq(es, k + 1, n), t))
<1>0. SubSeq(es, 1, k) \in Seq(EventType) /\ SubSeq(es, k + 1, n) \in Seq(EventType)
  OBVIOUS
<1>1. PICK a \in Seq(EventType), b \in Seq(EventType) : a = SubSeq(es, 1, k) /\ b = SubSeq(es, k + 1, n)
  BY <1>0
<1>2. PICK s : s = SubSeq(es, 1, n)
  OBVIOUS
<1>3. Joins(a, b, s)
  <2>1. Len(es) \in Nat /\ 1 \in 1 .. Len(es) + 1 /\ k \in 1 - 1 .. Len(es) /\ n \in k .. Len(es)
    OBVIOUS
  <2>2. SubSeq(es, 1, k) \o SubSeq(es, k + 1, n) = SubSeq(es, 1, n)
    BY <2>1, ConcatAdjacentSubSeq
  <2> QED  BY <1>1, <1>2, <2>2, Zenon DEF Joins
<1>4. /\ TextOf(Own(a, t)) \in Seq(Chars) /\ TextOf(Own(b, t)) \in Seq(Chars)
      /\ Joins(TextOf(Own(a, t)), TextOf(Own(b, t)), TextOf(Own(s, t)))
  BY <1>3, OwnText
<1> QED  BY <1>1, <1>2, <1>4, Zenon DEF Joins

\* Nothing has been read of an empty prefix.
LEMMA NothingRead ==
    ASSUME NEW es \in Seq(EventType), NEW t
    PROVE  ReadSoFar([after |-> 0, text |-> <<>>, done |-> FALSE], es, t)
<1>1. PICK r : r = [after |-> 0, text |-> <<>>, done |-> FALSE]
  OBVIOUS
<1>2. r.after = 0 /\ r.text = <<>> /\ ~r.done
  BY <1>1
<1>3. SubSeq(es, 1, r.after) = <<>> /\ r.after <= Len(es)
  BY <1>2
<1>4. TextOf(Own(SubSeq(es, 1, r.after), t)) = <<>>
  BY <1>3, OwnEmpty, TextEmpty, Zenon
<1>5. ReadSoFar(r, es, t)
  BY <1>2, <1>3, <1>4 DEF ReadSoFar
<1> QED  BY <1>1, <1>5, Zenon

\* An event more is after everything that has been read.
LEMMA ReadStays ==
    ASSUME NEW es \in Seq(EventType), NEW e \in EventType, NEW r, NEW t, r.after \in Nat, ReadSoFar(r, es, t)
    PROVE  ReadSoFar(r, Append(es, e), t)
<1>1. PICK n \in Nat : n = r.after /\ n <= Len(es)
  BY DEF ReadSoFar
<1>2. PICK new : new = Append(es, e)
  OBVIOUS
<1>3. /\ Len(new) = Len(es) + 1 /\ Len(es) \in Nat /\ new \in Seq(EventType)
      /\ \A i \in 1 .. Len(es) : new[i] = es[i]
  BY <1>2
<1>4. SubSeq(new, 1, n) = SubSeq(es, 1, n)
  <2>1. \A i \in 1 .. n : new[i] \in EventType /\ es[i] \in EventType
    BY <1>1, <1>3
  <2>2. /\ SubSeq(new, 1, n) \in Seq(EventType) /\ SubSeq(es, 1, n) \in Seq(EventType)
        /\ Len(SubSeq(new, 1, n)) = n /\ Len(SubSeq(es, 1, n)) = n
        /\ \A i \in 1 .. n : SubSeq(new, 1, n)[i] = new[i] /\ SubSeq(es, 1, n)[i] = es[i]
    BY <1>1, <1>3
  <2>3. \A i \in 1 .. n : SubSeq(new, 1, n)[i] = SubSeq(es, 1, n)[i]
    BY <1>1, <1>3, <2>2
  <2> QED  BY <2>2, <2>3, SeqEqual
<1>5. r.text = TextOf(Own(SubSeq(new, 1, n), t))
  BY <1>1, <1>4, Zenon DEF ReadSoFar
<1>6. r.done => r.after > 0 /\ new[r.after].turn = t /\ new[r.after].kind = "terminal"
  BY <1>1, <1>3 DEF ReadSoFar
<1>7. ReadSoFar(r, new, t)
  BY <1>1, <1>3, <1>5, <1>6 DEF ReadSoFar
<1> QED  BY <1>2, <1>7, Zenon

\* Whatever happens to the conversation, what has been read stays read.
LEMMA ReaderKept ==
    ASSUME NEW t \in Reading, NEW c \in Conversations, c = ConversationOf[t], Table(c), Table(c)', Grows(c),
           Readers, Volatile, reader'[t] = reader[t]
    PROVE  /\ conversation'[c] = "absent" => reader'[t] = [after |-> 0, text |-> <<>>, done |-> FALSE]
           /\ conversation'[c] = "open" => ReadSoFar(reader'[t], events'[c], t)
<1>1. PICK r, es, new : r = reader[t] /\ es = events[c] /\ new = events'[c]
  OBVIOUS
<1>2. /\ conversation[c] = "absent" => r = [after |-> 0, text |-> <<>>, done |-> FALSE]
      /\ conversation[c] = "open" => ReadSoFar(r, es, t)
  BY <1>1 DEF Readers
<1>3. es \in Seq(EventType) /\ new \in Seq(EventType) /\ r.after \in Nat
  BY <1>1, SizesAssumption DEF Table, Volatile
<1>4. CASE conversation'[c] = conversation[c] /\ new = es
  BY <1>1, <1>2, <1>4
<1>5. ASSUME conversation'[c] = conversation[c], NEW e \in EventType, new = Append(es, e)
      PROVE  /\ conversation'[c] = "absent" => reader'[t] = [after |-> 0, text |-> <<>>, done |-> FALSE]
             /\ conversation'[c] = "open" => ReadSoFar(reader'[t], events'[c], t)
  <2>1. conversation[c] = "open" => ReadSoFar(r, Append(es, e), t)
    BY <1>2, <1>3, ReadStays
  <2> QED  BY <1>1, <1>2, <1>5, <2>1
<1>6. CASE conversation[c] = "absent" /\ conversation'[c] = "open"
  <2>1. ReadSoFar([after |-> 0, text |-> <<>>, done |-> FALSE], new, t)
    BY <1>3, NothingRead
  <2> QED  BY <1>1, <1>2, <1>6, <2>1
<1>7. CASE conversation'[c] = "deleted"
  BY <1>7
<1> QED  BY <1>1, <1>4, <1>5, <1>6, <1>7 DEF Grows

\* A page continues where the one before ended.
LEMMA PageRead ==
    ASSUME Tables, Readers, Volatile, NEW t \in Reading, ReadPage(t)
    PROVE  /\ ReadSoFar(reader'[t], events'[ConversationOf[t]], t)
           /\ conversation'[ConversationOf[t]] = "open"
           /\ reader'[t] \in [after : 0 .. MaxSequence, text : Seq(Chars), done : BOOLEAN]
           /\ \A u \in Reading : u # t => reader'[u] = reader[u]
           /\ DOMAIN reader' = Reading
<1>1. PICK c, es, r : c = ConversationOf[t] /\ es = events[c] /\ r = reader[t]
  OBVIOUS
<1>2. c \in Conversations
  BY <1>1, TurnsAssumption
<1>3. es \in Seq(EventType) /\ Len(es) <= MaxSequence /\ Len(es) \in Nat
  BY <1>1, <1>2 DEF Tables, Table
<1>4. reader \in [Reading -> [after : 0 .. MaxSequence, text : Seq(Chars), done : BOOLEAN]]
  BY DEF Volatile
<1>5. r.after \in Nat /\ r.text \in Seq(Chars)
  BY <1>1, <1>4, SizesAssumption
<1>6. ReadSoFar(r, es, t) /\ conversation'[c] = "open" /\ events' = events
  BY <1>1 DEF ReadPage, durable, Readers
<1>7. PICK to \in r.after + 1 .. Len(es) :
         /\ es[to].turn = t
         /\ reader' = [reader EXCEPT ![t] = [after |-> to, text |-> r.text \o TextOf(Page(t, r.after, to)),
                                             done |-> es[to].kind = "terminal"]]
  BY <1>1 DEF ReadPage
<1>8. PICK more, done : more = TextOf(Page(t, r.after, to)) /\ done = (es[to].kind = "terminal")
  OBVIOUS
<1>9. to \in Nat /\ to > r.after /\ to > 0 /\ to <= Len(es)
  BY <1>3, <1>5, <1>7
<1>10. more = TextOf(Own(SubSeq(es, r.after + 1, to), t))
  BY <1>1, <1>8, Zenon DEF Page
<1>11. /\ more \in Seq(Chars)
       /\ TextOf(Own(SubSeq(es, 1, to), t)) = TextOf(Own(SubSeq(es, 1, r.after), t)) \o more
  <2>1. PICK k \in Nat : k = r.after /\ k <= to
    BY <1>5, <1>9
  <2>2. /\ TextOf(Own(SubSeq(es, k + 1, to), t)) \in Seq(Chars)
        /\ TextOf(Own(SubSeq(es, 1, to), t)) =
              TextOf(Own(SubSeq(es, 1, k), t)) \o TextOf(Own(SubSeq(es, k + 1, to), t))
    BY <1>3, <1>9, <2>1, TextSplits
  <2> QED  BY <1>10, <2>1, <2>2, Zenon
<1>12. PICK text \in Seq(Chars) : text = r.text \o more
  <2>1. PICK a \in Seq(Chars) : a = r.text
    BY <1>5
  <2>2. more \in Seq(Chars)
    BY <1>11
  <2>3. a \o more \in Seq(Chars)
    BY <2>2, ConcatProperties
  <2> QED  BY <2>1, <2>3
<1>13. text = TextOf(Own(SubSeq(es, 1, to), t))
  BY <1>6, <1>11, <1>12, Zenon DEF ReadSoFar
<1>14. reader' = [reader EXCEPT ![t] = [after |-> to, text |-> text, done |-> done]] /\ done \in BOOLEAN
  BY <1>7, <1>8, <1>12
<1>15. /\ reader'[t] = [after |-> to, text |-> text, done |-> done]
       /\ \A u \in Reading : u # t => reader'[u] = reader[u]
       /\ DOMAIN reader' = Reading
  BY <1>4, <1>14
<1>16. PICK new : new = reader'[t]
  OBVIOUS
<1>17. new.after = to /\ new.text = text /\ new.done = done
  BY <1>15, <1>16
<1>18. new.text = TextOf(Own(SubSeq(es, 1, new.after), t))
  BY <1>13, <1>17, Zenon
<1>19. ReadSoFar(new, es, t)
  BY <1>7, <1>8, <1>9, <1>17, <1>18 DEF ReadSoFar
<1>20. new \in [after : 0 .. MaxSequence, text : Seq(Chars), done : BOOLEAN]
  BY <1>3, <1>9, <1>14, <1>15, <1>16, SizesAssumption
<1> QED  BY <1>1, <1>6, <1>15, <1>16, <1>19, <1>20, Zenon

\* Only reading moves a reader.
LEMMA ReadersStand ==
    ASSUME [Next]_vars, \A t \in Reading : ~ReadPage(t)
    PROVE  reader' = reader
BY DEF Next, vars, CreateConversation, DeleteConversation, AdmitTurn, Drop, Cancel, WorkerStart, WorkerRun,
       BuildPrompt, Settle, Finalize, WorkerFails, InterruptAdmitted, EmitStarted, EmitText, AppendChunk,
       AppendFails, EmitFinished, EmitStray, Restart

\* What readers have read, after any step.
LEMMA ReadersStep ==
    ASSUME Tables, Readers, Volatile, AllStepped, [Next]_vars
    PROVE  /\ Readers'
           /\ reader' \in [Reading -> [after : 0 .. MaxSequence, text : Seq(Chars), done : BOOLEAN]]
<1>1. reader \in [Reading -> [after : 0 .. MaxSequence, text : Seq(Chars), done : BOOLEAN]]
  BY DEF Volatile
<1>2. ASSUME NEW t \in Reading, reader'[t] = reader[t]
      PROVE  /\ conversation'[ConversationOf[t]] = "absent" =>
                    reader'[t] = [after |-> 0, text |-> <<>>, done |-> FALSE]
             /\ conversation'[ConversationOf[t]] = "open" =>
                    ReadSoFar(reader'[t], events'[ConversationOf[t]], t)
  <2>1. PICK c : c = ConversationOf[t]
    OBVIOUS
  <2>2. c \in Conversations
    BY <2>1, TurnsAssumption
  <2>3. Table(c) /\ Table(c)' /\ Grows(c)
    BY <2>2 DEF Tables, AllStepped, Stepped
  <2>4. /\ conversation'[c] = "absent" => reader'[t] = [after |-> 0, text |-> <<>>, done |-> FALSE]
        /\ conversation'[c] = "open" => ReadSoFar(reader'[t], events'[c], t)
    BY <1>2, <2>1, <2>2, <2>3, ReaderKept
  <2> QED  BY <2>1, <2>4, Zenon
<1>3. CASE \A t \in Reading : ~ReadPage(t)
  <2>1. reader' = reader
    BY <1>3, ReadersStand
  <2> QED  BY <1>1, <1>2, <2>1 DEF Readers
<1>4. ASSUME NEW t \in Reading, ReadPage(t)
      PROVE  /\ Readers'
             /\ reader' \in [Reading -> [after : 0 .. MaxSequence, text : Seq(Chars), done : BOOLEAN]]
  <2>1. /\ ReadSoFar(reader'[t], events'[ConversationOf[t]], t)
        /\ conversation'[ConversationOf[t]] = "open"
        /\ reader'[t] \in [after : 0 .. MaxSequence, text : Seq(Chars), done : BOOLEAN]
        /\ \A u \in Reading : u # t => reader'[u] = reader[u]
        /\ DOMAIN reader' = Reading
    BY <1>4, PageRead
  <2>2. Readers'
    BY <1>2, <2>1 DEF Readers
  <2>3. reader' = [u \in Reading |-> reader'[u]]
    BY <1>1, <1>4 DEF ReadPage
  <2> QED  BY <1>1, <2>1, <2>2, <2>3
<1> QED  BY <1>3, <1>4

-----------------------------------------------------------------------------
(* The invariant and what follows from it.                                 *)

\* The types of what is not stored, after any step.
LEMMA VolatileStep ==
    ASSUME Volatile, reader' \in [Reading -> [after : 0 .. MaxSequence, text : Seq(Chars), done : BOOLEAN]],
           [Next]_vars
    PROVE  Volatile'
<1>1. items \subseteq Turns /\ rest \in Seq(Chars) /\ spoken \in Seq(Deltas) /\ restarts \in 0 .. MaxRestarts
  BY DEF Volatile
<1>2. items' \subseteq Turns
  BY <1>1 DEF Next, vars, durable, CreateConversation, DeleteConversation, AdmitTurn, Drop, Cancel, WorkerStart,
     ReadPage, WorkerRun, BuildPrompt, Settle, Finalize, WorkerFails, InterruptAdmitted, EmitStarted,
     EmitText, AppendChunk, AppendFails, EmitFinished, EmitStray, Restart
<1>3. restarts' \in 0 .. MaxRestarts
  <2>1. CASE Restart
    BY <1>1, <2>1, SizesAssumption DEF Restart
  <2>2. CASE ~Restart
    BY <1>1, <2>2 DEF Next, vars, durable, CreateConversation, DeleteConversation, AdmitTurn, Drop, Cancel,
       WorkerStart, ReadPage, WorkerRun, BuildPrompt, Settle, Finalize, WorkerFails, InterruptAdmitted,
       EmitStarted, EmitText, AppendChunk, AppendFails, EmitFinished, EmitStray
  <2> QED  BY <2>1, <2>2
<1>4. CASE AppendChunk
  <2>1. PICK chunk : chunk = Fit(rest, MaxDelta)
    OBVIOUS
  <2>2. rest' = SubSeq(rest, Len(chunk) + 1, Len(rest)) /\ spoken' = spoken
    BY <1>4, <2>1 DEF AppendChunk
  <2>3. rest' \in Seq(Chars)
    BY <1>1, <2>1, <2>2, SizesAssumption, FitSplits
  <2> QED  BY <1>1, <1>2, <1>3, <2>2, <2>3 DEF Volatile
<1>5. CASE EmitText
  <2>1. PICK delta \in Deltas : rest' = delta /\ spoken' = Append(spoken, delta)
    BY <1>5 DEF EmitText
  <2>2. rest' \in Seq(Chars) /\ spoken' \in Seq(Deltas)
    BY <1>1, <2>1, TextAssumption
  <2> QED  BY <1>2, <1>3, <2>2 DEF Volatile
<1>6. CASE ~AppendChunk /\ ~EmitText
  <2>1. rest' \in {rest, <<>>} /\ spoken' \in {spoken, <<>>}
    BY <1>6 DEF Next, vars, durable, CreateConversation, DeleteConversation, AdmitTurn, Drop, Cancel, WorkerStart,
       ReadPage, WorkerRun, BuildPrompt, Settle, Finalize, WorkerFails, InterruptAdmitted, EmitStarted,
       AppendFails, EmitFinished, EmitStray, Restart
  <2>2. rest' \in Seq(Chars) /\ spoken' \in Seq(Deltas)
    <3>1. <<>> \in Seq(Chars) /\ <<>> \in Seq(Deltas)
      OBVIOUS
    <3> QED  BY <1>1, <2>1, <3>1, Zenon
  <2> QED  BY <1>2, <1>3, <2>2 DEF Volatile
<1> QED  BY <1>4, <1>5, <1>6

\* A queued turn has no events after any step.
LEMMA QueuedStep ==
    ASSUME Inv, NEW u \in Turns, QueuedFresh, Streams, Effect(u), status'[u] = "queued"
    PROVE  EventsOf(u)' = <<>>
<1>1. CASE Untouched(u)
  BY <1>1 DEF Untouched, QueuedFresh
<1>2. CASE Moved(u)
  BY <1>2 DEF Moved
<1>3. CASE Asked(u)
  BY <1>3 DEF Asked
<1>4. CASE Noticed(u) \/ Spoke(u, Fit(rest, MaxDelta))
  <2>1. status[u] = "queued" /\ status[u] \in InFlight
    BY <1>4 DEF Noticed, Spoke, Streams
  <2> QED  BY <2>1 DEF InFlight
<1>5. CASE Erased(u)
  BY <1>5 DEF Erased, Active
<1> QED  BY <1>1, <1>2, <1>3, <1>4, <1>5 DEF Effect

\* Every step keeps the invariant of the texts.
LEMMA TextStep == Inv /\ TextInv /\ [Next]_vars => TextInv'
<1> SUFFICES ASSUME Inv, TextInv, [Next]_vars PROVE TextInv'
  OBVIOUS
<1>1. /\ Tables /\ Contents /\ QueuedFresh /\ WorkerFresh /\ Streams /\ Readers /\ Volatile
  BY DEF TextInv
<1>2. AllStepped
  BY <1>1, NextStepped
<1>3. Tables'
  <2>1. \A c \in Conversations : Table(c)'
    BY <1>2 DEF AllStepped, Stepped
  <2> QED  BY <1>2, <2>1 DEF AllStepped, Tables
<1>4. \A u \in Turns : Table(ConversationOf[u]) /\ Effect(u)
  <2>1. \A u \in Turns : ConversationOf[u] \in Conversations
    BY TurnsAssumption
  <2> QED  BY <1>1, <1>2, <2>1 DEF Tables, AllStepped, Stepped
<1>5. Contents'
  <2>1. ASSUME NEW u \in Turns PROVE Content(u)'
    <3>1. Content(u)
      BY <1>1 DEF Contents
    <3> QED  BY <1>1, <1>4, <3>1, ContentStep
  <2> QED  BY <2>1 DEF Contents
<1>6. QueuedFresh'
  BY <1>1, <1>4, QueuedStep DEF QueuedFresh
<1>7. WorkerFresh' /\ Streams'
  BY <1>1, StreamsStep
<1>8. Readers' /\ Volatile'
  BY <1>1, <1>2, ReadersStep, VolatileStep
<1> QED  BY <1>3, <1>5, <1>6, <1>7, <1>8 DEF TextInv

\* It holds initially.
LEMMA TextInit == Init => TextInv
<1> SUFFICES ASSUME Init PROVE TextInv
  OBVIOUS
<1>1. /\ conversation = [c \in Conversations |-> "absent"] /\ status = [t \in Turns |-> Absent]
      /\ messages = [c \in Conversations |-> <<>>] /\ events = [c \in Conversations |-> <<>>]
      /\ items = {} /\ worker = Idle /\ rest = <<>> /\ spoken = <<>> /\ restarts = 0
      /\ reader = [t \in Reading |-> [after |-> 0, text |-> <<>>, done |-> FALSE]]
  BY DEF Init
<1>2. Tables
  <2>1. \A c \in Conversations : Table(c)
    BY <1>1, SizesAssumption DEF Table
  <2> QED  BY <1>1, <2>1 DEF Tables
<1>3. Contents /\ QueuedFresh
  BY <1>1, StatesDisjoint DEF Contents, Content, Shown, QueuedFresh, Active
<1>4. worker.stage = "idle" /\ rest = <<>>
  BY <1>1 DEF Idle
<1>5. WorkerFresh /\ Streams
  BY <1>4 DEF WorkerFresh, Streams
<1>6. Readers
  <2>1. \A t \in Reading : ConversationOf[t] \in Conversations
    BY TurnsAssumption
  <2>2. \A c \in Conversations : conversation[c] = "absent" /\ conversation[c] # "open"
    BY <1>1
  <2>3. \A t \in Reading : reader[t] = [after |-> 0, text |-> <<>>, done |-> FALSE]
    BY <1>1
  <2> QED  BY <2>1, <2>2, <2>3 DEF Readers
<1>7. Volatile
  BY <1>1, SizesAssumption DEF Volatile
<1> QED  BY <1>2, <1>3, <1>5, <1>6, <1>7 DEF TextInv

\* PreviewFaithful holds in every state: however a text is cut into chunks and a preview cut
\* short, the reply of a turn quotes the beginning of its text and counts all of its bytes.
THEOREM PreviewsFaithful == Spec => []PreviewFaithful
<1>1. TextInv => PreviewFaithful
  <2> SUFFICES ASSUME Contents, NEW t \in Turns, Shown(t)
               PROVE  LET text == TextOf(EventsOf(t))
                      IN  IF MessageAt(t, "assistant") = 0 THEN text = <<>>
                          ELSE /\ text # <<>>
                               /\ IsPrefix(Reply(t).body, text)
                               /\ Reply(t).bytes = Bytes(text)
    BY DEF TextInv, PreviewFaithful
  <2>1. Previewed(t)
    BY DEF Contents, Content
  <2> QED  BY <2>1, Zenon DEF Previewed, Silent, Quotes
<1>2. Inv /\ TextInv /\ [Next]_vars => Inv' /\ TextInv'
  BY InvStep, TextStep
<1> QED  BY InvInit, TextInit, <1>1, <1>2, PTL DEF Spec

\* A turn that said nothing left a notice at most before its marker.
LEMMA SilentSuccess ==
    ASSUME NEW t, NEW es \in Seq(EventType), Told(es, t, "succeeded"), Silent(es)
    PROVE  es \in {<<TerminalEvent(t, "succeeded")>>, <<NoticeEvent(t), TerminalEvent(t, "succeeded")>>}
<1>1. PICK n \in Nat : n = Len(es) /\ DOMAIN es = 1 .. n
  OBVIOUS
<1>2. \A k \in 1 .. n : es[k].kind \in {"notice", "terminal"}
  <2>1. \A k \in 1 .. n : es[k] \in EventType
    BY <1>1
  <2>2. \A e \in EventType : e.kind \in {"text", "notice", "terminal"}
    BY DEF EventType
  <2> QED  BY <1>1, <2>1, <2>2 DEF Silent
<1>3. /\ \A k \in 1 .. n : es[k].kind = "notice" => k = 1 /\ es[k] = NoticeEvent(t)
      /\ \A k \in 1 .. n : es[k].kind = "terminal" <=> k = n
      /\ es # <<>> /\ es[n] = TerminalEvent(t, "succeeded")
  BY <1>1 DEF Told, Terminal
<1>4. n # 0
  BY <1>1, <1>3
<1>5. n <= 2
  <2>1. ASSUME n > 2 PROVE FALSE
    <3>1. 2 \in 1 .. n /\ 2 # n /\ 2 # 1
      BY <2>1
    <3> QED  BY <1>2, <1>3, <3>1
  <2> QED  BY <2>1
<1>6. CASE n = 1
  BY <1>1, <1>3, <1>6
<1>7. CASE n = 2
  <2>1. es[1] = NoticeEvent(t)
    BY <1>2, <1>3, <1>7
  <2> QED  BY <1>1, <1>3, <1>7, <2>1
<1> QED  BY <1>4, <1>5, <1>6, <1>7

\* What an earlier turn left is readable.
LEMMA SuccessReads ==
    ASSUME Inv, Tables, Contents, NEW c \in Conversations, conversation[c] = "open",
           NEW m \in MessageRows(c), status[m.turn] = "succeeded"
    PROVE  Reads(m)
<1>1. PICK u : u = m.turn
  OBVIOUS
<1>2. u \in Turns /\ ConversationOf[u] = c /\ m.bytes \in Int
  BY <1>1 DEF MessageRows, MessageType
<1>3. "succeeded" \in Terminal /\ "succeeded" # Absent
  BY DEF Terminal, Absent
<1>4. Shown(u) /\ status[u] = "succeeded"
  BY <1>1, <1>2, <1>3 DEF Shown
<1>5. Told(EventsOf(u), u, "succeeded") /\ Previewed(u)
  <2>1. Content(u)
    BY <1>2 DEF Contents
  <2>2. Told(EventsOf(u), u, status[u]) /\ Previewed(u)
    BY <1>4, <2>1 DEF Content
  <2> QED  BY <1>4, <2>2, Zenon
<1>6. Table(c) /\ Table(ConversationOf[u])
  BY <1>2 DEF Tables
<1>7. PICK es \in Seq(EventType) : es = EventsOf(u)
  BY <1>2, <1>6, EventsOfType
<1>8. CASE MessageAt(u, "assistant") = 0
  <2>1. Silent(es) /\ Told(es, u, "succeeded")
    BY <1>5, <1>7, <1>8, Zenon DEF Previewed
  <2>2. EmptySuccess(u)
    BY <1>7, <2>1, SilentSuccess DEF EmptySuccess
  <2> QED  BY <1>1, <1>2, <1>8, <2>2 DEF Reads
<1>9. CASE MessageAt(u, "assistant") # 0
  <2>1. PICK i, r : i = MessageAt(u, "assistant") /\ r = Reply(u)
    OBVIOUS
  <2>2. i \in DOMAIN messages[c] /\ messages[c][i].turn = u /\ messages[c][i].role = "assistant"
    BY <1>2, <1>9, <2>1, MessageFound
  <2>3. r = messages[c][i]
    BY <1>2, <2>1 DEF Reply
  <2>4. r \in MessageRows(c)
    BY <1>6, <2>2, <2>3 DEF Table
  <2>5. r.bytes \in Int /\ r.bytes <= MaxText /\ Bytes(r.body) <= MaxPreview
    BY <2>2, <2>3, <2>4 DEF MessageRows, MessageType
  <2>6. r.state = "succeeded"
    <3>1. SettledMessages(u)
      BY <1>2, <1>4 DEF Inv, StoreInv, SettledTurns
    <3>2. Says(messages[c][i], status[u])
      BY <1>2, <1>3, <1>4, <2>2, <3>1 DEF SettledMessages
    <3> QED  BY <1>4, <2>3, <3>2 DEF Says
  <2>7. Quotes(es, r.body, r.bytes)
    BY <1>5, <1>7, <1>9, <2>1, Zenon DEF Previewed
  <2>8. /\ \A k \in DOMAIN es : es[k].kind = "terminal" <=> k = Len(es)
        /\ es # <<>> /\ es[Len(es)] = TerminalEvent(u, "succeeded")
    BY <1>3, <1>5, <1>7 DEF Told
  <2>9. Last(es).state = "succeeded"
    BY <2>8 DEF Last, TerminalEvent
  <2>10. PairFound(u)
    BY <2>1, <2>5, <2>6 DEF PairFound
  <2>11. PairReadable(u)
    BY <1>7, <2>1, <2>5, <2>7, <2>8, <2>9, <2>10, Zenon DEF PairReadable, Quotes
  <2> QED  BY <1>1, <1>2, <1>9, <2>1, <2>5, <2>11 DEF Reads
<1> QED  BY <1>8, <1>9

\* ContextReadable holds in every state: whatever earlier turns left, v4_turn_context accepts it.
THEOREM ContextsReadable == Spec => []ContextReadable
<1>1. Inv /\ TextInv => ContextReadable
  <2> SUFFICES ASSUME Inv, Tables, Contents, Streams, worker.stage = "prompt"
               PROVE  Context(worker.turn).readable
    BY DEF TextInv, ContextReadable, At
  <2>1. PICK t, c : t = worker.turn /\ c = ConversationOf[t]
    OBVIOUS
  <2>2. t \in Turns /\ c \in Conversations /\ status[t] \in Active
    BY <2>1, TurnsAssumption DEF Inv, WorkerAdmitted, Streams, Active
  <2>3. conversation[c] = "open"
    BY <2>1, <2>2 DEF Inv, StoreInv, MarkerFits
  <2>4. messages[c] \in Seq(MessageRows(c))
    BY <2>2 DEF Tables, Table
  <2>5. PICK Q : Q = Answered(MessageRows(c))
    OBVIOUS
  <2>6. Questions(ConversationOf[t]) \in Seq(Q)
    BY <2>1, <2>4, <2>5, QuestionsAnswered
  <2>7. \A m \in Q : Reads(m)
    BY <2>2, <2>3, <2>5, SuccessReads DEF Answered
  <2>8. Context(t).readable
    BY <2>6, <2>7, ContextReads
  <2> QED  BY <2>1, <2>8, Zenon
<1>2. Inv /\ TextInv /\ [Next]_vars => Inv' /\ TextInv'
  BY InvStep, TextStep
<1> QED  BY InvInit, TextInit, <1>1, <1>2, PTL DEF Spec

\* A reader that is done has nothing left to read.
LEMMA NothingLeft ==
    ASSUME Inv, NEW t \in Turns, NEW es \in Seq(EventType), es = events[ConversationOf[t]],
           conversation[ConversationOf[t]] = "open", NEW n \in 1 .. Len(es),
           es[n].turn = t, es[n].kind = "terminal"
    PROVE  /\ status[t] \in Terminal
           /\ Own(SubSeq(es, n + 1, Len(es)), t) = <<>>
<1>1. n \in DOMAIN es /\ ConversationOf[t] \in Conversations /\ DOMAIN es = 1 .. Len(es) /\ Len(es) \in Nat
  BY TurnsAssumption
<1>2. status[t] # Absent
  BY <1>1 DEF Inv, StoreInv, EventsAdmitted
<1>3. SettledEvents(t)
  BY <1>2 DEF Inv, StoreInv, SettledTurns, Shown
<1>4. status[t] \in Terminal
  BY <1>1, <1>3 DEF SettledEvents
<1>5. PICK i \in DOMAIN es : \A j \in DOMAIN es : es[j].turn = t /\ j # i => j < i /\ es[j].kind # "terminal"
  BY <1>3, <1>4 DEF SettledEvents
<1>6. i = n
  BY <1>1, <1>5
<1>7. PICK left : left = SubSeq(es, n + 1, Len(es))
  OBVIOUS
<1>8. /\ left \in Seq(EventType) /\ Len(left) = Len(es) - n
      /\ \A k \in 1 .. Len(left) : left[k] = es[n + k]
  <2>1. PICK m \in Int, len \in Int : m = n + 1 /\ len = Len(es)
    BY <1>1
  <2>2. \A k \in m .. len : es[k] \in EventType
    BY <1>1, <2>1
  <2>3. /\ SubSeq(es, m, len) \in Seq(EventType)
        /\ Len(SubSeq(es, m, len)) = IF m <= len THEN len - m + 1 ELSE 0
        /\ \A k \in 1 .. len - m + 1 : SubSeq(es, m, len)[k] = es[m + k - 1]
    BY <2>2, SubSeqProperties
  <2>4. left = SubSeq(es, m, len)
    BY <1>7, <2>1
  <2>5. left \in Seq(EventType) /\ Len(left) = Len(es) - n
    BY <1>1, <2>1, <2>3, <2>4
  <2>6. ASSUME NEW k \in 1 .. Len(left) PROVE left[k] = es[n + k]
    <3>0. Len(left) = len - m + 1 /\ k \in Int /\ n \in Int
      <4>1. PICK e \in Int, size \in Int : e = Len(es) /\ size = Len(left)
        BY <1>1, <2>5
      <4>2. n \in 1 .. e /\ k \in 1 .. size
        BY <4>1, Zenon
      <4>3. len = e /\ size = e - n
        BY <2>1, <2>5, <4>1, Zenon
      <4>4. n \in Int /\ k \in Int
        BY <4>1, <4>2
      <4>5. size = len - m + 1
        BY <2>1, <4>1, <4>3, <4>4
      <4> QED  BY <4>1, <4>4, <4>5, Zenon
    <3>1. k \in 1 .. len - m + 1 /\ m + k - 1 = n + k
      <4>1. m + k - 1 = n + k
        BY <2>1, <3>0
      <4>2. k \in 1 .. len - m + 1
        BY <3>0, Zenon
      <4> QED  BY <4>1, <4>2
    <3> QED  BY <2>3, <2>4, <3>1
  <2> QED  BY <2>5, <2>6
<1>9. ASSUME NEW k \in 1 .. Len(left) PROVE left[k].turn # t
  <2>1. n + k \in DOMAIN es /\ n + k # n /\ ~(n + k < n)
    BY <1>1, <1>8
  <2> QED  BY <1>5, <1>6, <1>8, <2>1
<1>10. Own(left, t) = <<>>
  BY <1>8, <1>9, OwnNone
<1> QED  BY <1>4, <1>7, <1>10, Zenon

\* ReaderSeesAll holds in every state: the pages a client puts together are a beginning of the
\* turn's text at any time, and all of it once a terminal event ended the reading.
THEOREM ReadersSeeAll == Spec => []ReaderSeesAll
<1>1. Inv /\ TextInv => ReaderSeesAll
  <2> SUFFICES ASSUME Inv, Tables, Readers, Volatile, NEW t \in Reading, conversation[ConversationOf[t]] = "open"
               PROVE  /\ IsPrefix(reader[t].text, TextOf(EventsOf(t)))
                      /\ reader[t].done =>
                            reader[t].text = TextOf(EventsOf(t)) /\ status[t] \in Terminal
    BY DEF TextInv, ReaderSeesAll
  <2>1. PICK c, es, r : c = ConversationOf[t] /\ es = events[c] /\ r = reader[t]
    OBVIOUS
  <2>2. t \in Turns /\ c \in Conversations
    BY <2>1, TurnsAssumption
  <2>3. es \in Seq(EventType) /\ ReadSoFar(r, es, t)
    BY <2>1, <2>2 DEF Tables, Table, Readers
  <2>4. PICK k \in Nat, n \in Nat : k = r.after /\ n = Len(es) /\ k <= n
    <3>1. r.after \in Nat
      BY <2>1, SizesAssumption DEF Volatile
    <3>2. Len(es) \in Nat
      BY <2>3
    <3> QED  BY <2>3, <3>1, <3>2 DEF ReadSoFar
  <2>5. PICK a, b : a = TextOf(Own(SubSeq(es, 1, k), t)) /\ b = TextOf(Own(SubSeq(es, k + 1, n), t))
    OBVIOUS
  <2>6. a \in Seq(Chars) /\ b \in Seq(Chars) /\ TextOf(Own(SubSeq(es, 1, n), t)) = a \o b
    <3>1. /\ TextOf(Own(SubSeq(es, 1, k), t)) \in Seq(Chars)
          /\ TextOf(Own(SubSeq(es, k + 1, n), t)) \in Seq(Chars)
          /\ TextOf(Own(SubSeq(es, 1, n), t)) =
                TextOf(Own(SubSeq(es, 1, k), t)) \o TextOf(Own(SubSeq(es, k + 1, n), t))
      <4>1. n <= Len(es)
        BY <2>3, <2>4
      <4> QED  BY <2>3, <2>4, <4>1, TextSplits
    <3> QED  BY <2>5, <3>1, Zenon
  <2>7. TextOf(EventsOf(t)) = a \o b
    <3>1. SubSeq(es, 1, n) = es
      BY <2>3, <2>4, SubSeqFull
    <3> QED  BY <2>1, <2>6, <3>1, Zenon DEF EventsOf
  <2>8. r.text = a
    BY <2>3, <2>4, <2>5, Zenon DEF ReadSoFar
  <2>9. IsPrefix(a, a \o b)
    BY <2>6, RestPrefix
  <2>10. ASSUME r.done PROVE a \o b = a /\ status[t] \in Terminal
    <3>1. k > 0 /\ es[k].turn = t /\ es[k].kind = "terminal"
      BY <2>3, <2>4, <2>10 DEF ReadSoFar
    <3>2. status[t] \in Terminal /\ Own(SubSeq(es, k + 1, Len(es)), t) = <<>>
      <4>1. k \in 1 .. Len(es) /\ es = events[ConversationOf[t]]
        BY <2>1, <2>4, <3>1
      <4> QED  BY <2>2, <2>3, <3>1, <4>1, NothingLeft
    <3>3. b = <<>>
      BY <2>4, <2>5, <3>2, TextEmpty, Zenon
    <3>4. a \o <<>> = a
      BY <2>6
    <3> QED  BY <3>2, <3>3, <3>4, Zenon
  <2> QED  BY <2>1, <2>7, <2>8, <2>9, <2>10, Zenon
<1>2. Inv /\ TextInv /\ [Next]_vars => Inv' /\ TextInv'
  BY InvStep, TextStep
<1> QED  BY InvInit, TextInit, <1>1, <1>2, PTL DEF Spec

\* Only the worker's settlement of a closed and valid stream lets a turn succeed.
LEMMA OnlySettle ==
    ASSUME Inv, Tables, [Next]_vars, NEW t \in Turns, status[t] # "succeeded", status'[t] = "succeeded"
    PROVE  t = worker.turn /\ worker.stage = "closed" /\ ~worker.invalid /\ rest = <<>>
<1>1. ASSUME NEW u \in Turns, NEW next, Transition(u, next) PROVE u = t /\ next = "succeeded"
  <2>1. status'[t] = IF t = u THEN next ELSE status[t]
    BY <1>1, TransitionTold
  <2> QED  BY <2>1
<1>2. ASSUME NEW u \in Turns, Drop(u) \/ Cancel(u) \/ WorkerStart(u) PROVE FALSE
  <2>1. \E next \in {"cancelled", "failed", "cancel_requested", "starting"} : Transition(u, next)
    BY <1>2 DEF Drop, Cancel, WorkerStart
  <2> QED  BY <1>1, <2>1
<1>3. ASSUME WorkerRun \/ InterruptAdmitted PROVE FALSE
  <2>0. PICK w : w = worker.turn
    OBVIOUS
  <2>1. w \in Turns
    BY <1>3, <2>0 DEF WorkerRun, InterruptAdmitted, At, Inv, WorkerAdmitted
  <2>2. \E next \in {"running", "cancelled", "interrupted"} : Transition(w, next)
    BY <1>3, <2>0 DEF WorkerRun, InterruptAdmitted
  <2> QED  BY <1>1, <2>1, <2>2
<1>4. CASE Settle
  <2>0. PICK w : w = worker.turn
    OBVIOUS
  <2>1. w \in Turns
    BY <1>4, <2>0 DEF Settle, Inv, WorkerAdmitted
  <2>2. \/ worker.stage = "closed" /\ ~worker.invalid /\ Transition(w, "succeeded")
        \/ \E next \in {"failed", "cancelled"} : Transition(w, next)
    BY <1>4, <2>0 DEF Settle, At
  <2>3. rest = <<>>
    BY <1>4 DEF Settle
  <2> QED  BY <1>1, <2>0, <2>1, <2>2, <2>3
<1>5. ASSUME NEW u \in Turns, AdmitTurn(u) PROVE FALSE
  BY <1>5 DEF AdmitTurn, Inv, StoreInv, Rows
<1>6. CASE Restart
  BY <1>6 DEF Restart
<1>7. CASE \/ \E c \in Conversations : CreateConversation(c) \/ DeleteConversation(c)
           \/ \E u \in Reading : ReadPage(u)
           \/ BuildPrompt \/ Finalize \/ WorkerFails \/ EmitStarted \/ EmitText \/ AppendChunk
           \/ AppendFails \/ EmitFinished \/ EmitStray \/ UNCHANGED vars
  <2>1. status' = status
    BY <1>7 DEF CreateConversation, DeleteConversation, ReadPage, BuildPrompt, Finalize, WorkerFails, EmitStarted,
       EmitText, AppendChunk, AppendFails, EmitFinished, EmitStray, vars, durable
  <2> QED  BY <2>1
<1> QED  BY <1>2, <1>3, <1>4, <1>5, <1>6, <1>7 DEF Next

\* SucceededWhole: every step that lets a turn succeed finds all the text of its provider stored.
THEOREM SuccessWhole == Spec => SucceededWhole
<1> DEFINE Whole == \A t \in Turns : status[t] # "succeeded" /\ status'[t] = "succeeded" =>
                       TextOf(EventsOf(t)) = FlattenSeq(spoken)
<1>1. Inv /\ TextInv /\ [Next]_vars => [Whole]_vars
  <2> SUFFICES ASSUME Inv, TextInv, [Next]_vars, NEW t \in Turns,
                      status[t] # "succeeded", status'[t] = "succeeded"
               PROVE  TextOf(EventsOf(t)) = FlattenSeq(spoken)
    OBVIOUS
  <2>1. Tables /\ Streams
    BY DEF TextInv
  <2>2. t = worker.turn /\ worker.stage = "closed" /\ ~worker.invalid /\ rest = <<>>
    BY <2>1, OnlySettle
  <2>3. TextOf(EventsOf(worker.turn)) \o rest = FlattenSeq(spoken)
    BY <2>1, <2>2 DEF Streams
  <2>4. Table(ConversationOf[t])
    BY <2>1, TurnsAssumption DEF Tables
  <2>5. PICK text \in Seq(Chars) : text = TextOf(EventsOf(t))
    BY <2>4, EventsOfType
  <2>6. text \o <<>> = text
    OBVIOUS
  <2> QED  BY <2>2, <2>3, <2>5, <2>6, Zenon
<1>2. Inv /\ TextInv /\ [Next]_vars => Inv' /\ TextInv'
  BY InvStep, TextStep
<1> QED  BY InvInit, TextInit, <1>1, <1>2, PTL DEF Spec, SucceededWhole

\* Every variable keeps its type, and every row the limits of its table.
THEOREM RowsTyped == Spec => []TypeOK
<1>1. Inv /\ TextInv => TypeOK
  <2> SUFFICES ASSUME Inv, Tables, Volatile PROVE TypeOK
    BY DEF TextInv
  <2>1. /\ conversation \in [Conversations -> {"absent", "open", "deleted"}]
        /\ status \in [Turns -> RunState \cup {Absent}]
        /\ worker \in [turn : Turns \cup {NoTurn}, stage : Stages, invalid : BOOLEAN]
    BY DEF Inv, StoreInv, Rows, WorkerAdmitted
  <2>2. ASSUME NEW c \in Conversations
        PROVE  /\ messages[c] \in Seq(MessageType) /\ events[c] \in Seq(EventType)
               /\ Len(events[c]) <= MaxSequence
               /\ \A i \in DOMAIN messages[c] :
                     messages[c][i].role = "assistant" => /\ messages[c][i].bytes <= MaxText
                                                          /\ Bytes(messages[c][i].body) <= MaxPreview
    <3>1. Table(c)
      BY DEF Tables
    <3>2. \A i \in DOMAIN messages[c] : messages[c][i] \in MessageRows(c)
      BY <3>1 DEF Table
    <3>3. MessageRows(c) \subseteq MessageType
      BY DEF MessageRows
    <3>4. messages[c] \in Seq(MessageType)
      BY <3>1, <3>3 DEF Table
    <3> QED  BY <3>1, <3>2, <3>4 DEF Table, MessageRows
  <2>3. messages \in [Conversations -> Seq(MessageType)] /\ events \in [Conversations -> Seq(EventType)]
    BY <2>2 DEF Tables
  <2> QED  BY <2>1, <2>2, <2>3 DEF TypeOK, Volatile
<1>2. Inv /\ TextInv /\ [Next]_vars => Inv' /\ TextInv'
  BY InvStep, TextStep
<1> QED  BY InvInit, TextInit, <1>1, <1>2, PTL DEF Spec
=============================================================================
