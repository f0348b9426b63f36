----------------------------- MODULE TurnLifecycle -----------------------------
(***************************************************************************)
(* The turns of one chat: what the composer sends, the timeline state the  *)
(* reducer keeps of them (codex-core), the backend that starts, steers,    *)
(* stops and retries them, and the app-server that runs them.              *)
(*                                                                         *)
(*   user -> reducer --commands (try_send)--> backend --requests--> server *)
(*           reducer <--events (100 ms)------ backend <--notes------ server*)
(*                                                                         *)
(* The chat is "here"; "fork" is a chat that a retry of a safety-buffered  *)
(* turn made of it, "other" any other chat; their own turns are left out.  *)
(* A message is the set of the pieces of text that the user typed into it, *)
(* numbered in that order.  The supervision of the connection is that of   *)
(* ConnectionRecovery, cut down to its loss and its return.                *)
(*                                                                         *)
(* The items of the timeline are left out.  They come from notices, but    *)
(* also from pages (LoadTimeline of Connected, SelectTask and              *)
(* LoadMoreTimeline, answered by TimelineLoaded), which replace them, and  *)
(* they are trimmed; none of this changes a variable below.  Their one     *)
(* reader is SafetyBufferingUpdated, which looks for output of the         *)
(* assistant among them: what it finds is left open.                       *)
(***************************************************************************)
EXTENDS Naturals, Sequences, FiniteSets

CONSTANTS
    MaxMessages,      \* MAX_RETRYABLE_TURN_MESSAGES
    CommandCapacity,  \* BACKEND_COMMAND_CAPACITY
    EventCapacity,    \* BACKEND_EVENT_CAPACITY
    MaxPieces,        \* bound: pieces of text typed
    MaxTurns,         \* bound: turns of the chat
    MaxBuffered,      \* bound: safety-buffering notifications
    MaxExtras         \* bound: stops, dismissals, selections of a chat, other requests
                      \* that fail and deaths of an app-server, together

ASSUME LimitsAssumption ==
    {MaxMessages, CommandCapacity, EventCapacity, MaxPieces, MaxTurns} \subseteq Nat \ {0}

ASSUME BoundsAssumption == {MaxBuffered, MaxExtras} \subseteq Nat

Pieces   == 1..MaxPieces
Messages == SUBSET Pieces
Turns    == 1..MaxTurns

VARIABLES
    composer,  \* the pieces in the composer
    draft,     \* composer_draft_generation
    selected,  \* selected_task_id
    tl,        \* the TimelineState of the chat, and the turns of which the reducer
               \* has been told that the assistant spoke (tl.heard, a history)
    online,    \* the reducer's ConnectionStatus is Online
    commands,  \* the command channel
    events,    \* the event channel
    backend,   \* the backend's program counter, command in hand, messages, actions to emit
    connected, \* the backend has a connection
    cache,     \* the entry of the chat in retryable_turns
    server,    \* the app-server: alive, turn running, turns so far, being stopped, has spoken
    notes,     \* its notifications that are not read yet
    acked,     \* acked[t]: the messages whose acceptance into t was answered
    sent,      \* pieces submitted so far
    owed,      \* pieces last submitted that have not reached the app-server, as long
               \* as the user has neither typed nor left the chat; not those that the
               \* code drops: a full command queue, no connection, a missed event
    tried,     \* the turns whose entry the backend has taken for a retry
    forks,     \* the retries that reached the app-server
    holes,     \* what has gone without a trace: "refused", "offline", "missed"
    typed,     \* pieces typed so far
    buffered,  \* buffering notifications so far
    extras     \* extras so far

uiVars     == <<composer, draft, selected, tl, online>>
serverVars == <<server, notes>>
counters   == <<typed, buffered, extras>>
history    == <<acked, sent, owed, tried, forks>>
vars == <<uiVars, commands, events, backend, connected, cache, serverVars, history, holes, counters>>

NoBanner == [turn |-> 0, model |-> FALSE, available |-> FALSE, dismissed |-> FALSE,
             pending |-> FALSE]
NoEntry  == [turn |-> 0, messages |-> <<>>]
NoCommand == [kind |-> "none", turn |-> 0, message |-> {}, messages |-> <<>>, draft |-> 0]
Idle == [at |-> "idle", cmd |-> NoCommand, cached |-> FALSE, out |-> <<>>, then |-> "idle"]

(* What an event or a notification says; the fields it does not use are 0.   *)
Note(kind, t) == [kind |-> kind, turn |-> t]
Buffering(t, show, model) == [kind |-> "buffering", turn |-> t, show |-> show, model |-> model]
Recorded(t, messages) == [kind |-> "recorded", turn |-> t, messages |-> messages]
Steered(t, message) == [kind |-> "steered", turn |-> t, message |-> message]
Runtime(t, generation) == [kind |-> "runtime", turn |-> t, generation |-> generation]
SubmissionFailed(cmd) == [kind |-> "submissionFailed", draft |-> cmd.draft, message |-> cmd.message]
RetryFailed(t, chat, message) ==
    [kind |-> "retryFailed", turn |-> t, restore |-> chat, message |-> message]

EventRoom == Len(events) < EventCapacity
Hole(what) == holes' = holes \cup {what}
Extra == extras < MaxExtras /\ extras' = extras + 1

Init ==
    /\ composer = {} /\ draft = 0 /\ selected = "here" /\ online = TRUE
    /\ tl = [active |-> 0, stopping |-> FALSE, retry |-> <<>>, banner |-> NoBanner,
             ready |-> TRUE, generation |-> 0, heard |-> {}]
    /\ commands = <<>> /\ events = <<>> /\ backend = Idle
    /\ connected = TRUE /\ cache = NoEntry
    /\ server = [alive |-> TRUE, running |-> 0, turns |-> 0, halting |-> FALSE, spoke |-> FALSE]
    /\ notes = <<>>
    /\ acked = [t \in Turns |-> <<>>] /\ sent = {} /\ owed = {}
    /\ tried = {} /\ forks = <<>>
    /\ holes = {}
    /\ typed = 0 /\ buffered = 0 /\ extras = 0

-----------------------------------------------------------------------------
(* The user, and the reducer's answer.  An effect that does not fit into the *)
(* command queue is replaced by a status message.                            *)

notUser == <<events, backend, connected, cache, serverVars, online>>

Dispatch(command) ==
    IF Len(commands) < CommandCapacity
    THEN commands' = Append(commands, command) /\ UNCHANGED holes
    ELSE Hole("refused") /\ UNCHANGED commands

(* clear_active_composer_draft: the generation moves if there was a draft.   *)
ClearDraft ==
    /\ composer' = {}
    /\ draft' = IF composer = {} THEN draft ELSE draft + 1

Type ==
    /\ typed < MaxPieces /\ typed' = typed + 1
    /\ composer' = composer \cup {typed + 1}
    /\ draft' = draft + 1 /\ owed' = {}
    /\ UNCHANGED <<notUser, selected, tl, commands, acked, sent, tried, forks, holes, buffered, extras>>

Submit ==
    /\ selected = "here" /\ composer # {} /\ tl.ready
    /\ composer' = {}
    /\ owed' = IF Len(commands) < CommandCapacity THEN composer ELSE {}
    /\ sent' = sent \cup composer
    /\ Dispatch([NoCommand EXCEPT !.kind = IF tl.active = 0 THEN "start" ELSE "steer",
                                  !.turn = tl.active, !.message = composer, !.draft = draft])
    /\ UNCHANGED <<notUser, draft, selected, tl, acked, tried, forks, counters>>

Stop ==
    /\ selected = "here" /\ tl.active # 0 /\ ~tl.stopping
    /\ Extra
    /\ tl' = [tl EXCEPT !.stopping = TRUE]
    /\ Dispatch([NoCommand EXCEPT !.kind = "stop", !.turn = tl.active])
    /\ UNCHANGED <<notUser, composer, draft, selected, history, typed, buffered>>

Retry ==
    /\ selected = "here" /\ tl.active # 0
    /\ tl.banner.turn = tl.active /\ tl.banner.available
    /\ ~tl.banner.dismissed /\ ~tl.banner.pending
    /\ tl.banner.model /\ tl.retry # <<>>
    /\ tl' = [tl EXCEPT !.banner.pending = TRUE, !.banner.dismissed = TRUE]
    /\ Dispatch([NoCommand EXCEPT !.kind = "retry", !.turn = tl.active, !.messages = tl.retry])
    /\ UNCHANGED <<notUser, composer, draft, selected, history, counters>>

DismissBanner ==
    /\ selected = "here" /\ tl.banner.turn # 0 /\ ~tl.banner.dismissed
    /\ Extra
    /\ tl' = [tl EXCEPT !.banner.dismissed = TRUE]
    /\ UNCHANGED <<notUser, composer, draft, selected, commands, history, holes, typed, buffered>>

Resume == [NoCommand EXCEPT !.kind = "resume", !.draft = tl.generation + 1]
AskRuntime ==
    /\ tl' = [tl EXCEPT !.generation = @ + 1, !.ready = FALSE]
    /\ Dispatch(Resume)

Select(chat) ==
    /\ Extra
    /\ IF chat = selected THEN UNCHANGED <<composer, draft>> ELSE ClearDraft
    /\ selected' = chat
    /\ owed' = IF chat = "here" THEN owed ELSE {}
    /\ IF chat = "here" THEN AskRuntime ELSE UNCHANGED <<tl, commands, holes>>
    /\ UNCHANGED <<notUser, acked, sent, tried, forks, typed, buffered>>

User ==
    \/ Type \/ Submit \/ Stop \/ Retry \/ DismissBanner
    \/ Select("here") \/ Select("other")

-----------------------------------------------------------------------------
(* The reducer.                                                              *)

NextIs(kind) ==
    /\ events # <<>> /\ Head(events).kind = kind
    /\ events' = Tail(events)
    /\ owed' = IF kind = "created" THEN {} ELSE owed
    /\ UNCHANGED <<backend, connected, cache, serverVars, acked, sent, tried, forks, counters>>
Said == Head(events)
IsActive == Said.turn = tl.active /\ tl.active # 0
Draft == <<composer, draft, selected>>
Timeline(new) == tl' = new /\ UNCHANGED <<Draft, online, commands, holes>>
Same == UNCHANGED tl /\ UNCHANGED <<Draft, online, commands, holes>>
Quiet(t) == [t EXCEPT !.retry = <<>>, !.banner = NoBanner]

ReduceStarted ==
    /\ NextIs("started")
    /\ Timeline([IF IsActive THEN tl ELSE Quiet(tl)
                 EXCEPT !.active = Said.turn, !.stopping = FALSE])

(* The availability of the retry changed: the banner is shown anew.          *)
Available(banner, now) ==
    IF banner.available = now THEN banner
    ELSE [banner EXCEPT !.available = now, !.dismissed = FALSE, !.pending = FALSE]

ReduceRecorded ==
    /\ NextIs("recorded")
    /\ IF IsActive
       THEN Timeline([tl EXCEPT !.retry = Said.messages,
                                !.banner = IF @.turn = Said.turn THEN Available(@, @.model) ELSE @])
       ELSE Same

ReduceSteered ==
    /\ NextIs("steered")
    /\ IF ~IsActive THEN Same
       ELSE IF Len(tl.retry) \in 1..(MaxMessages - 1)
       THEN Timeline([tl EXCEPT !.retry = Append(@, Said.message)])
       ELSE Timeline([tl EXCEPT !.retry = <<>>,
                                !.banner = IF @.turn = Said.turn THEN Available(@, FALSE) ELSE @])

ReduceEnded ==
    /\ NextIs("ended")
    /\ IF tl.active \notin {0, Said.turn} THEN Same
       ELSE Timeline([tl EXCEPT !.active = 0, !.stopping = FALSE,
                                !.retry = IF IsActive THEN <<>> ELSE @,
                                !.banner = IF @.turn = Said.turn THEN NoBanner ELSE @])

ReduceStopFailed ==
    /\ NextIs("stopFailed")
    /\ Timeline([tl EXCEPT !.stopping = FALSE])

(* Items of the assistant among those of the turn close the banner.          *)
ReduceBuffering ==
    /\ NextIs("buffering")
    /\ LET t == Said.turn
           can == Said.model /\ tl.retry # <<>>
           old == IF tl.banner.turn = t THEN tl.banner
                  ELSE [NoBanner EXCEPT !.turn = t, !.available = can]
       IN  IF ~IsActive THEN Same
           ELSE IF ~Said.show
           THEN Timeline([tl EXCEPT !.banner = IF @.turn = t THEN NoBanner ELSE @])
           ELSE \/ Timeline([tl EXCEPT !.banner = NoBanner])
                \/ Timeline([tl EXCEPT !.banner = [Available(old, can) EXCEPT !.model = Said.model]])

(* Mutant: the banner goes, and comes back with the snapshot that is kept.   *)
ReduceSpokeKeepsRetry ==
    /\ NextIs("spoke")
    /\ Timeline([tl EXCEPT !.banner = IF IsActive THEN NoBanner ELSE @,
                           !.heard = @ \cup {Said.turn}])

(* TimelineDelta or UpsertTimelineItem: the assistant speaks.                *)
ReduceSpoke ==
    /\ NextIs("spoke")
    /\ Timeline([IF IsActive THEN Quiet(tl) ELSE tl EXCEPT !.heard = @ \cup {Said.turn}])

ReduceRuntime ==
    /\ NextIs("runtime")
    /\ IF Said.generation # tl.generation THEN Same
       ELSE LET loaded == [tl EXCEPT !.ready = TRUE, !.active = Said.turn,
                                    !.banner = IF @.turn = Said.turn THEN @ ELSE NoBanner]
            IN  Timeline(IF IsActive THEN loaded
                         ELSE [Quiet(loaded) EXCEPT !.stopping = FALSE])

Restore(message) == composer' = composer \cup message

(* Mutant: the draft's generation is not looked at.                          *)
ReduceSubmissionFailed ==
    /\ NextIs("submissionFailed")
    /\ IF selected = "here" /\ Said.draft = draft THEN Restore(Said.message) ELSE UNCHANGED composer
    /\ UNCHANGED <<draft, selected, tl, online, commands, holes>>

ReduceRetryFailed ==
    /\ NextIs("retryFailed")
    /\ tl' = IF tl.banner.turn # Said.turn THEN tl
             ELSE [tl EXCEPT !.banner.pending = FALSE, !.banner.dismissed = Said.restore # "none"]
    /\ IF Said.restore = selected THEN Restore(Said.message) ELSE UNCHANGED composer
    /\ UNCHANGED <<draft, selected, online, commands, holes>>

(* TaskCreated opens the fork, whatever the user has come to do meanwhile.   *)
ReduceCreated ==
    /\ NextIs("created")
    /\ ClearDraft /\ selected' = "fork"
    /\ UNCHANGED <<tl, online, commands, holes>>

ReduceLost ==
    /\ NextIs("lost")
    /\ IF ~online THEN Same
       ELSE /\ online' = FALSE
            /\ tl' = [tl EXCEPT !.ready = FALSE, !.stopping = FALSE,
                                !.banner = IF @.pending
                                           THEN [@ EXCEPT !.pending = FALSE, !.dismissed = FALSE]
                                           ELSE @]
            /\ UNCHANGED <<Draft, commands, holes>>

ReduceConnected ==
    /\ NextIs("connected")
    /\ online' = TRUE
    /\ IF selected = "here" THEN AskRuntime ELSE UNCHANGED <<tl, commands, holes>>
    /\ UNCHANGED Draft

Reduce ==
    \/ ReduceStarted \/ ReduceRecorded \/ ReduceSteered \/ ReduceEnded \/ ReduceStopFailed
    \/ ReduceBuffering \/ ReduceSpoke \/ ReduceRuntime \/ ReduceSubmissionFailed
    \/ ReduceRetryFailed \/ ReduceCreated \/ ReduceLost \/ ReduceConnected

-----------------------------------------------------------------------------
(* The backend.  An answer that comes too late, or a connection that dies    *)
(* before it, is an error of a request that the app-server has accepted.     *)

notBackend == <<uiVars, typed, buffered>>

Goto(at) == backend' = [backend EXCEPT !.at = at]
Reply(out) == backend' = [Idle EXCEPT !.at = "emit", !.out = out]
Done == backend' = Idle
Fail(action) == Reply(<<action>>) /\ UNCHANGED <<cache, acked>>

Cmd == backend.cmd
Asks(kind) ==
    backend.at = kind /\ UNCHANGED <<notBackend, commands, events, connected, sent, tried, holes>>
MayFail(accepted) == IF server.alive /\ accepted THEN Extra ELSE UNCHANGED extras

Ask(accepted, effect, ok, error) ==
    \/ server.alive /\ accepted /\ effect /\ ok /\ UNCHANGED extras
    \/ server.alive /\ accepted /\ effect /\ error /\ Extra
    \/ UNCHANGED <<serverVars, owed, forks>> /\ error /\ MayFail(accepted)

(* What has reached the app-server, or what the code drops, is not owed.     *)
Settle(message) == owed' = owed \ message

Take ==
    /\ backend.at = "idle" /\ connected /\ commands # <<>>
    /\ commands' = Tail(commands)
    /\ LET cmd == Head(commands)
           hit == cmd.kind = "retry" /\ cache.turn = cmd.turn
       IN  IF hit
           THEN /\ backend' = [Idle EXCEPT !.at = "retry", !.cached = TRUE,
                                           !.cmd = [cmd EXCEPT !.messages = cache.messages]]
                /\ cache' = NoEntry /\ tried' = tried \cup {cmd.turn}
           ELSE /\ backend' = [Idle EXCEPT !.at = cmd.kind, !.cmd = cmd]
                /\ UNCHANGED <<cache, tried>>
    /\ UNCHANGED <<notBackend, extras, events, connected, serverVars, acked, sent, owed, forks, holes>>

TakeOffline ==
    /\ backend.at = "idle" /\ ~connected /\ commands # <<>>
    /\ commands' = Tail(commands)
    /\ Reply(<<Note("lost", 0)>>) /\ Hole("offline")
    /\ Settle(Head(commands).message)
    /\ UNCHANGED <<notBackend, extras, events, connected, cache, serverVars, acked, sent, tried, forks>>

RunStart ==
    /\ Asks("start")
    /\ LET t == server.turns + 1
       IN  Ask(server.running = 0 /\ t \in Turns,
               /\ server' = [server EXCEPT !.running = t, !.turns = t, !.halting = FALSE, !.spoke = FALSE]
               /\ notes' = Append(notes, Note("started", t))
               /\ Settle(Cmd.message) /\ UNCHANGED forks,
               /\ cache' = [turn |-> t, messages |-> <<Cmd.message>>]
               /\ acked' = [acked EXCEPT ![t] = <<Cmd.message>>]
               /\ Reply(<<Note("started", t), Recorded(t, <<Cmd.message>>)>>),
               Fail(SubmissionFailed(Cmd)))

(* Mutant: the messages that steer are not kept.                             *)
RecordSteerForgets == UNCHANGED cache

(* record_retryable_steer: an entry that is full is given up.                *)
RecordSteer ==
    cache' = IF cache.turn # Cmd.turn THEN cache
             ELSE IF Len(cache.messages) = MaxMessages THEN NoEntry
             ELSE [cache EXCEPT !.messages = Append(@, Cmd.message)]

RunSteer ==
    /\ Asks("steer")
    /\ Ask(server.running = Cmd.turn,
           Settle(Cmd.message) /\ UNCHANGED <<serverVars, forks>>,
           /\ RecordSteer
           /\ acked' = [acked EXCEPT ![Cmd.turn] = Append(@, Cmd.message)]
           /\ Reply(<<Steered(Cmd.turn, Cmd.message)>>),
           Fail(SubmissionFailed(Cmd)))

Halt == server' = [server EXCEPT !.halting = TRUE] /\ UNCHANGED <<notes, owed, forks>>

(* Mutant: a failure is not reported.                                        *)
RunStopSilent ==
    /\ Asks("stop") /\ UNCHANGED extras
    /\ LET accepted == server.alive /\ server.running = Cmd.turn
       IN  \/ accepted /\ Halt /\ Done
           \/ UNCHANGED <<serverVars, owed, forks>> /\ Done
    /\ UNCHANGED <<cache, acked>>

RunStop ==
    /\ Asks("stop") /\ UNCHANGED extras
    /\ LET accepted == server.alive /\ server.running = Cmd.turn
       IN  \/ accepted /\ Halt /\ (Done \/ Reply(<<Note("stopFailed", 0)>>))
           \/ UNCHANGED <<serverVars, owed, forks>> /\ Reply(<<Note("stopFailed", 0)>>)
    /\ UNCHANGED <<cache, acked>>

(* retry_safety_buffered_turn: interrupt, check, fork, start.                *)
GiveUp(chat) == Fail(RetryFailed(Cmd.turn, chat, Head(Cmd.messages)))

RetryInterrupt ==
    /\ Asks("retry")
    /\ Ask(server.running = Cmd.turn, Halt,
           Goto("check") /\ UNCHANGED <<cache, acked>>,
           Fail(RetryFailed(Cmd.turn, "none", {})))

ForkPoint == server.turns = Cmd.turn /\ server.running = 0

RetryCheck ==
    /\ Asks("check")
    /\ \/ server.alive /\ ForkPoint /\ Goto("fork") /\ UNCHANGED <<cache, acked, extras>>
       \/ GiveUp("here") /\ MayFail(ForkPoint)
    /\ UNCHANGED <<serverVars, owed, forks>>

RetryFork ==
    /\ Asks("fork")
    /\ \/ /\ server.alive
          /\ backend' = [backend EXCEPT !.at = "emit", !.out = <<Note("created", 0)>>,
                                        !.then = "restart"]
          /\ UNCHANGED <<cache, acked, extras>>
       \/ GiveUp("here") /\ MayFail(TRUE)
    /\ UNCHANGED <<serverVars, owed, forks>>

RetryRestart ==
    /\ Asks("restart")
    /\ Ask(TRUE,
           /\ forks' = Append(forks, [turn |-> Cmd.turn, messages |-> Cmd.messages,
                                      cached |-> backend.cached])
           /\ UNCHANGED <<serverVars, owed>>,
           Done /\ UNCHANGED <<cache, acked>>,
           GiveUp("fork"))

RunResume ==
    /\ Asks("resume")
    /\ \/ server.alive /\ Reply(<<Runtime(server.running, Cmd.draft)>>) /\ UNCHANGED extras
       \/ Done /\ MayFail(TRUE)
    /\ UNCHANGED <<cache, serverVars, acked, owed, forks>>

(* Mutant: the event queue has no bound.                                     *)
EmitUnbounded ==
    /\ backend.at = "emit"
    /\ events' = Append(events, Head(backend.out)) /\ UNCHANGED holes
    /\ backend' = IF Len(backend.out) > 1 THEN [backend EXCEPT !.out = Tail(@)]
                  ELSE [backend EXCEPT !.at = backend.then, !.out = <<>>, !.then = "idle"]
    /\ UNCHANGED <<notBackend, extras, commands, connected, cache, serverVars, history>>

Failure(action) == IF action.kind = "submissionFailed" THEN action.message ELSE {}

Emit ==
    /\ backend.at = "emit"
    /\ LET action == Head(backend.out)
       IN  IF EventRoom THEN events' = Append(events, action) /\ UNCHANGED <<owed, holes>>
           ELSE Hole("missed") /\ Settle(Failure(action)) /\ UNCHANGED events
    /\ backend' = IF Len(backend.out) > 1 THEN [backend EXCEPT !.out = Tail(@)]
                  ELSE [backend EXCEPT !.at = backend.then, !.out = <<>>, !.then = "idle"]
    /\ UNCHANGED <<notBackend, extras, commands, connected, cache, serverVars, acked, sent, tried, forks>>

(* A notification of the app-server, between two commands: the end of a turn *)
(* ends its entry; one that must be delivered and is not within 100 ms costs *)
(* the connection, a buffering notice is dropped.                            *)
Lose ==
    /\ connected' = FALSE /\ cache' = NoEntry /\ notes' = <<>>
    /\ server' = [server EXCEPT !.alive = FALSE, !.running = 0, !.halting = FALSE, !.spoke = FALSE]
    /\ Goto("signal") /\ UNCHANGED events

(* Mutant: the end of a turn is dropped like a buffering notice.             *)
DrainDropsEnds ==
    /\ backend.at = "idle" /\ connected /\ notes # <<>>
    /\ IF Head(notes).kind = "lost" THEN Lose
       ELSE /\ events' = IF EventRoom THEN Append(events, Head(notes)) ELSE events
            /\ notes' = Tail(notes)
            /\ UNCHANGED <<cache, server, connected, backend>>
    /\ UNCHANGED <<notBackend, extras, commands, history, holes>>

Drain ==
    /\ backend.at = "idle" /\ connected /\ notes # <<>>
    /\ LET note == Head(notes)
       IN  IF note.kind = "lost" THEN Lose
           ELSE IF ~EventRoom /\ note.kind # "buffering" THEN Lose
           ELSE /\ events' = IF EventRoom THEN Append(events, note) ELSE events
                /\ notes' = Tail(notes)
                /\ cache' = IF note.kind = "ended" /\ note.turn = cache.turn THEN NoEntry ELSE cache
                /\ UNCHANGED <<server, connected, backend>>
    /\ UNCHANGED <<notBackend, extras, commands, history, holes>>

Signal ==
    /\ backend.at = "signal" /\ EventRoom
    /\ events' = Append(events, Note("lost", 0)) /\ Done
    /\ UNCHANGED <<notBackend, extras, commands, connected, cache, serverVars, history, holes>>

Reconnect ==
    /\ backend.at = "idle" /\ ~connected /\ ~online
    /\ connected' = TRUE /\ server' = [server EXCEPT !.alive = TRUE]
    /\ Reply(<<Note("connected", 0)>>)
    /\ UNCHANGED <<notBackend, extras, commands, events, cache, notes, history, holes>>

Backend ==
    \/ Take \/ TakeOffline \/ RunStart \/ RunSteer \/ RunStop \/ RetryInterrupt \/ RetryCheck
    \/ RetryFork \/ RetryRestart \/ RunResume \/ Emit \/ Signal \/ Reconnect

-----------------------------------------------------------------------------
(* The app-server.                                                           *)

notServer == <<uiVars, commands, events, backend, connected, cache, history, holes>>
Says(note) == notes' = Append(notes, note)

Speak ==
    /\ server.running # 0 /\ ~server.spoke
    /\ server' = [server EXCEPT !.spoke = TRUE]
    /\ Says(Note("spoke", server.running))
    /\ UNCHANGED <<notServer, counters>>

Buffer ==
    /\ server.running # 0
    /\ buffered < MaxBuffered /\ buffered' = buffered + 1
    /\ \E show, model \in BOOLEAN :
         (model => show) /\ Says(Buffering(server.running, show, model))
    /\ UNCHANGED <<notServer, server, typed, extras>>

Finish ==
    /\ server.running # 0
    /\ server' = [server EXCEPT !.running = 0, !.halting = FALSE, !.spoke = FALSE]
    /\ Says(Note("ended", server.running))
    /\ UNCHANGED <<notServer, counters>>

Die ==
    /\ server.alive
    /\ Extra
    /\ server' = [server EXCEPT !.alive = FALSE, !.running = 0, !.halting = FALSE, !.spoke = FALSE]
    /\ Says(Note("lost", 0))
    /\ UNCHANGED <<notServer, typed, buffered>>

Server == Speak \/ Buffer \/ Finish \/ Die

-----------------------------------------------------------------------------
AllQuiet ==
    commands = <<>> /\ events = <<>> /\ notes = <<>> /\ backend.at = "idle" /\ connected

Rest == AllQuiet /\ server.running = 0 /\ UNCHANGED vars

Next == User \/ Reduce \/ Backend \/ Drain \/ Server \/ Rest

Spec == Init /\ [][Next]_vars

(* The two threads go on; the backend reads the notifications before every   *)
(* command, whatever the user sends; a turn that is told to stop ends.       *)
FairSpec ==
    /\ Spec
    /\ WF_vars(Reduce) /\ WF_vars(Backend) /\ SF_vars(Drain)
    /\ WF_vars(server.halting /\ Finish)

-----------------------------------------------------------------------------
(* Properties.                                                               *)

Kinds == {"none", "start", "steer", "stop", "retry", "resume"}
EventKinds == {"started", "recorded", "steered", "ended", "stopFailed", "buffering", "spoke",
               "runtime", "submissionFailed", "retryFailed", "created", "lost", "connected"}

(* The values of the variables; the channels keep to their capacities, and   *)
(* neither the reducer's retry snapshot nor the backend's entry outgrows     *)
(* MAX_RETRYABLE_TURN_MESSAGES.                                              *)
TypeOK ==
    /\ composer \subseteq Pieces /\ draft \in Nat /\ selected \in {"here", "fork", "other"}
    /\ tl.active \in {0} \cup Turns /\ {tl.stopping, tl.ready, online, connected} \subseteq BOOLEAN
    /\ tl.generation \in Nat /\ tl.heard \subseteq Turns
    /\ tl.banner \in [turn : {0} \cup Turns, model : BOOLEAN, available : BOOLEAN,
                      dismissed : BOOLEAN, pending : BOOLEAN]
    /\ \A messages \in {tl.retry, cache.messages} :
         /\ Len(messages) <= MaxMessages
         /\ \A i \in DOMAIN messages : messages[i] \in Messages \ {{}}
    /\ Len(commands) <= CommandCapacity
    /\ \A i \in DOMAIN commands : commands[i].kind \in Kinds
    /\ Len(events) <= EventCapacity
    /\ \A i \in DOMAIN events : events[i].kind \in EventKinds
    /\ backend.at \in {"idle", "check", "fork", "restart", "emit", "signal"} \cup Kinds
    /\ cache.turn \in {0} \cup Turns
    /\ server.running \in {0} \cup Turns /\ server.turns \in {0} \cup Turns
    /\ holes \subseteq {"refused", "offline", "missed"}

(* When all that was said has been read, the turn that the chat shows as     *)
(* active is the one that runs, whatever the order in which answers, notices *)
(* and reconnections came.                                                   *)
UiAgrees ==
    AllQuiet /\ online /\ tl.ready /\ "missed" \notin holes => tl.active = server.running

(* The banner is that of the active turn; it offers a retry only with a      *)
(* model and something to send again, and not once the reducer was told that *)
(* the assistant spoke ("disables retry once assistant output starts",       *)
(* docs/parity-matrix.md:75), whatever notices and answers come later.       *)
BannerIsLive ==
    tl.banner.turn # 0 =>
        /\ tl.banner.turn = tl.active
        /\ tl.banner.available =>
             tl.banner.model /\ tl.retry # <<>> /\ tl.active \notin tl.heard

(* messages is what is left of all when some of them are skipped.            *)
Among(messages, all) ==
    \E at \in [DOMAIN messages -> DOMAIN all] :
        \A i, j \in DOMAIN messages :
            messages[i] = all[at[i]] /\ (i < j => at[i] < at[j])

(* A retry sends again what its turn had accepted: all of it when the        *)
(* backend had the entry of the turn, which an earlier retry of the turn or  *)
(* an overflow of the entry may have cost it; else some of it, the first     *)
(* message and those after it before some point unless an event was missed.  *)
(* No turn is sent again twice.                                              *)
RetryKeepsSteers ==
    \A i \in DOMAIN forks :
        LET fork == forks[i]
            all  == acked[fork.turn]
        IN  /\ fork.messages # <<>> /\ Among(fork.messages, all)
            /\ "missed" \notin holes => fork.messages = SubSeq(all, 1, Len(fork.messages))
            /\ IF fork.cached THEN fork.messages = all
               ELSE fork.turn \in tried \/ Len(all) > MaxMessages
            /\ \A j \in DOMAIN forks : forks[j].turn = fork.turn => i = j

(* A submission that the app-server has not got is under way, or back in the *)
(* composer if that has not been touched since.                              *)
OnItsWay ==
    LET failures(actions) == UNION {actions[i].message : i \in
                                {j \in DOMAIN actions : actions[j].kind = "submissionFailed"}}
    IN  (UNION {commands[i].message : i \in DOMAIN commands})
            \cup (IF backend.at \in {"start", "steer"} THEN backend.cmd.message ELSE {})
            \cup failures(backend.out) \cup failures(events)

PromptComesBack == owed \subseteq composer \cup OnItsWay

(* A failed submission comes back only to a composer that holds no draft:    *)
(* nothing the user has not sent before (CHANGELOG.md:54).                   *)
Reduced(kind) == events # <<>> /\ Head(events).kind = kind /\ events' = Tail(events)
DraftIsKept == Reduced("submissionFailed") /\ composer' # composer => composer \subseteq sent

(* What the user has written is not lost: after every step a submission that *)
(* failed is back, or on its way to a composer that holds nothing newer, and *)
(* what a turn accepted is in its retry.                                     *)
MessagesAreKept == [][RetryKeepsSteers' /\ PromptComesBack' /\ DraftIsKept]_vars

(* "Stopping" and a retry in progress end: neither goes on for ever.         *)
WaitsEnd ==
    /\ []<>(~tl.stopping \/ holes # {})
    /\ []<>(~tl.banner.pending \/ holes # {})
=============================================================================
