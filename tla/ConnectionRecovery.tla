-------------------------- MODULE ConnectionRecovery --------------------------
(***************************************************************************)
(* How the client keeps a connection to the app-server: the backend thread *)
(* (run_backend, AppServerReconnectScheduler and UiEventSender of          *)
(* crates/codex-app/src/backend.rs), the UI thread that drains its events  *)
(* and sends its effects (crates/codex-app/src/ui.rs), and the connection  *)
(* status kept by the reducer (crates/codex-core/src/lib.rs).              *)
(*                                                                         *)
(*   UI --commands (try_send)--> backend --request--> app-server           *)
(*   UI <--events (100 ms)------ backend <--inbox---- app-server           *)
(*   UI <--connection_lost_pending flag-- backend                          *)
(*                                                                         *)
(* The connection itself is what AppServerRouter promises: it is up or it  *)
(* is not, it delivers events in order, and its end is announced once, by  *)
(* a last Disconnected event or by a closed channel.                       *)
(*                                                                         *)
(* Data abstraction: an effect is "load" when it needs the app-server and  *)
(* "local" when it does not; an action that does not touch the connection  *)
(* is a "note", or an "item" when it holds a lease on the UI byte budget.  *)
(***************************************************************************)
EXTENDS Naturals, Sequences, FiniteSets

CONSTANTS
    CommandCapacity,  \* BACKEND_COMMAND_CAPACITY
    EventCapacity,    \* BACKEND_EVENT_CAPACITY
    UiByteLimit,      \* UI_EVENT_BYTE_BUDGET, in events
    BatchLimit,       \* MAX_EVENTS_PER_TICK
    ConnectEffects,   \* how many effects the reducer returns for Connected
    MaxDelay,         \* APP_SERVER_RECONNECT_MAX_DELAY, in seconds
    MaxFailures,      \* bound: failed starts of the app-server
    MaxDeaths,        \* bound: exits of a running app-server
    MaxNoise,         \* bound: events the app-server sends
    MaxUser,          \* bound: effects the user causes
    MaxLogins,        \* bound: Bedrock sign-ins the user submits
    MaxExtras         \* bound: events, effects and sign-ins together

ASSUME CapacityAssumption ==
    {CommandCapacity, EventCapacity, UiByteLimit, BatchLimit, ConnectEffects, MaxDelay}
        \subseteq Nat \ {0}

ASSUME BoundsAssumption ==
    {MaxFailures, MaxDeaths, MaxNoise, MaxUser, MaxLogins, MaxExtras} \subseteq Nat

VARIABLES
    status,        \* AppState::connection
    shown,         \* attempt and delay of ConnectionStatus::Recovering
    auth,          \* AccountState::auth_operation
    profile,       \* whether the reducer knows a signed-in profile
    ui,            \* where the UI thread stands in drain_backend
    batch,         \* the actions it has collected
    commands,      \* the command channel
    events,        \* the event channel
    lossPending,   \* UiBackpressureSignals::connection_lost_pending
    dropRequested, \* UiBackpressureSignals::disconnect_requested
    backend,       \* the backend thread's program counter
    out,           \* the actions it still has to emit
    after,         \* where it goes when they are emitted
    why,           \* on whose behalf it connects
    connection,    \* run_backend's connection
    link,          \* the app-server behind it: alive, or how its end shows
    inbox,         \* the events it sent that are not yet handled
    pending,       \* the reconnect timer's attempt, 0 when it is not set
    nextAttempt, nextDelay,  \* the rest of AppServerReconnectScheduler
    quitting,      \* shutdown_requested
    missed,        \* a full queue has swallowed an action or an effect
    count          \* what the environment has done so far

uiVars        == <<status, shown, auth, profile, ui, batch>>
schedulerVars == <<pending, nextAttempt, nextDelay>>
linkVars      == <<connection, link, inbox>>
signalVars    == <<lossPending, dropRequested>>
vars == <<uiVars, commands, events, signalVars, backend, out, after, why, linkVars,
          schedulerVars, quitting, missed, count>>

(* Actions, as they travel from the backend to the reducer. *)
Act(k, n, d) == [kind |-> k, attempt |-> n, delay |-> d]
Plain(k) == Act(k, 0, 0)
EffectKinds == {"load", "local"}

Carries(s, kinds) == \E i \in DOMAIN s : s[i].kind \in kinds
Queued(command) == \E i \in DOMAIN commands : commands[i] = command
Leases(s) == Cardinality({i \in DOMAIN s : s[i].kind = "item"})

CommandRoom == Len(commands) < CommandCapacity
EventRoomOffByOne == Len(events) <= EventCapacity
EventRoom   == Len(events) < EventCapacity
LeaseRoom   == Leases(events) + Leases(batch) < UiByteLimit

(* AppServerReconnectScheduler: delays in seconds, 1 doubled up to MaxDelay. *)
InitialDelay == 1
Doubled(d)   == IF 2 * d < MaxDelay THEN 2 * d ELSE MaxDelay

Schedule ==
    /\ pending' = nextAttempt
    /\ nextAttempt' = nextAttempt + 1
    /\ nextDelay' = Doubled(nextDelay)

ResetScheduler == pending' = 0 /\ nextAttempt' = 1 /\ nextDelay' = InitialDelay

RetryAnnouncement == Act("retryScheduled", nextAttempt, nextDelay)

(* The application has just started: the UI has sent its first effect.       *)
Init ==
    /\ status = "connecting" /\ shown = [attempt |-> 0, delay |-> 0]
    /\ auth = "idle" /\ profile = FALSE /\ ui = "idle" /\ batch = <<>>
    /\ commands = <<"connect">> /\ events = <<>>
    /\ lossPending = FALSE /\ dropRequested = FALSE
    /\ backend = "top" /\ out = <<>> /\ after = "top" /\ why = "command"
    /\ connection = "none" /\ link = "alive" /\ inbox = <<>>
    /\ pending = 0 /\ nextAttempt = 1 /\ nextDelay = InitialDelay
    /\ quitting = FALSE /\ missed = FALSE
    /\ count = [failures |-> 0, deaths |-> 0, noise |-> 0, user |-> 0, logins |-> 0]

Counted(what, bound) ==
    /\ count[what] < bound
    /\ count' = [count EXCEPT ![what] = @ + 1]

Extra(what, bound) ==
    /\ Counted(what, bound)
    /\ count.noise + count.user + count.logins < MaxExtras

-----------------------------------------------------------------------------
(* The backend thread: one iteration of run_backend polls the connection,   *)
(* runs one command and looks at the reconnect timer.                       *)

notBackend == <<uiVars, quitting>>

Goto(pc) == backend' = pc /\ UNCHANGED <<out, after>>
EmitThen(actions, pc) == backend' = "emit" /\ out' = actions /\ after' = pc

(* UiEventSender::emit: queued, or dropped in silence after 100 ms. *)
EmitQueued ==
    /\ backend = "emit" /\ EventRoom
    /\ events' = Append(events, Head(out))
    /\ UNCHANGED missed

EmitTimedOut ==
    /\ backend = "emit" /\ ~EventRoom
    /\ missed' = TRUE
    /\ UNCHANGED events

Emit ==
    /\ EmitQueued \/ EmitTimedOut
    /\ out' = Tail(out)
    /\ backend' = IF Tail(out) = <<>> THEN after ELSE "emit"
    /\ UNCHANGED <<notBackend, commands, signalVars, after, why, linkVars,
                   schedulerVars, count>>

(* connection.take(): the app-server is killed and its events are gone. *)
DropConnection ==
    /\ connection' = "none" /\ link' = "alive" /\ inbox' = <<>>

(* Nothing to disconnect, or a disconnect requested by an earlier iteration. *)
TopStep ==
    /\ backend = "top"
    /\ dropRequested' = FALSE
    /\ IF dropRequested
       THEN DropConnection /\ Goto("command")
       ELSE UNCHANGED linkVars /\ Goto("poll")
    /\ UNCHANGED <<notBackend, commands, events, lossPending, why, schedulerVars,
                   missed, count>>

(* A best-effort event: queued if there is room and budget, else dropped. *)
PollLossy ==
    /\ backend = "poll" /\ inbox # <<>> /\ Head(inbox) = "lossy"
    /\ inbox' = Tail(inbox)
    /\ events' = IF EventRoom /\ LeaseRoom THEN Append(events, Plain("item")) ELSE events
    /\ UNCHANGED <<notBackend, commands, signalVars, backend, out, after, why,
                   connection, link, schedulerVars, missed, count>>

(* An event that must be delivered, waiting for budget and room. *)
PollSemantic ==
    /\ backend = "poll" /\ inbox # <<>> /\ Head(inbox) = "semantic"
    /\ EventRoom /\ LeaseRoom
    /\ inbox' = Tail(inbox)
    /\ events' = Append(events, Plain("item"))
    /\ UNCHANGED <<notBackend, commands, signalVars, backend, out, after, why,
                   connection, link, schedulerVars, missed, count>>

(* It could not be delivered: the connection is given up, and the UI is told *)
(* by the flag that overtakes the queue (semantic_overload).                 *)
PollOverload ==
    /\ backend = "poll" /\ inbox # <<>> /\ Head(inbox) = "semantic"
    /\ ~(EventRoom /\ LeaseRoom)
    /\ lossPending' = TRUE /\ dropRequested' = FALSE
    /\ DropConnection /\ Goto("command")
    /\ UNCHANGED <<notBackend, commands, events, why, schedulerVars, missed, count>>

(* AppServerEvent::Disconnected.  Announced in the queue, or by the flags,   *)
(* and then the next iteration finds disconnect_requested still set.         *)
PollDisconnected ==
    /\ backend = "poll" /\ connection = "up" /\ inbox = <<>> /\ link = "disconnected"
    /\ \/ EventRoom /\ events' = Append(events, Plain("lost")) /\ UNCHANGED signalVars
       \/ ~EventRoom /\ lossPending' = TRUE /\ dropRequested' = TRUE /\ UNCHANGED events
    /\ DropConnection /\ Goto("command")
    /\ UNCHANGED <<notBackend, commands, why, schedulerVars, missed, count>>

(* The event channel is closed: a status line, then the flags. *)
PollClosed ==
    /\ backend = "poll" /\ connection = "up" /\ inbox = <<>> /\ link = "closed"
    /\ EmitThen(<<Plain("note")>>, "closed")
    /\ UNCHANGED <<notBackend, commands, events, signalVars, why, linkVars,
                   schedulerVars, missed, count>>

SignalClosed ==
    /\ backend = "closed"
    /\ lossPending' = TRUE /\ dropRequested' = FALSE
    /\ DropConnection /\ Goto("command")
    /\ UNCHANGED <<notBackend, commands, events, why, schedulerVars, missed, count>>

PollEmpty ==
    /\ backend = "poll" /\ inbox = <<>> /\ link = "alive"
    /\ Goto("command")
    /\ UNCHANGED <<notBackend, commands, events, signalVars, why, linkVars,
                   schedulerVars, missed, count>>

-----------------------------------------------------------------------------
(* Commands.  next_backend_command looks at shutdown_requested first.        *)

notCommand == <<notBackend, events, signalVars, missed, count>>

Take(command) ==
    /\ backend = "command" /\ ~quitting
    /\ commands # <<>> /\ Head(commands) = command
    /\ commands' = Tail(commands)

NoCommand ==
    /\ backend = "command" /\ ~quitting /\ commands = <<>>
    /\ Goto("timer")
    /\ UNCHANGED <<notCommand, commands, why, linkVars, schedulerVars>>

StopBackend ==
    /\ backend = "command" /\ quitting
    /\ DropConnection /\ Goto("stopped")
    /\ UNCHANGED <<notCommand, commands, why, schedulerVars>>

RunConnect ==
    /\ Take("connect")
    /\ ResetScheduler /\ why' = "command" /\ Goto("connect")
    /\ UNCHANGED <<notCommand, linkVars>>

RunScheduleAnyway ==
    /\ Take("schedule")
    /\ IF pending = 0
       THEN Schedule /\ EmitThen(<<RetryAnnouncement>>, "timer")
       ELSE UNCHANGED schedulerVars /\ Goto("timer")
    /\ UNCHANGED <<notCommand, why, linkVars>>

RunSchedule ==
    /\ Take("schedule")
    /\ IF connection = "none" /\ pending = 0
       THEN Schedule /\ EmitThen(<<RetryAnnouncement>>, "timer")
       ELSE UNCHANGED schedulerVars /\ Goto("timer")
    /\ UNCHANGED <<notCommand, why, linkVars>>

(* An effect that needs the app-server.  Without a connection it reports the *)
(* loss again; with one it reports a result, perhaps the signed-in account.  *)
Replies ==
    IF connection = "none" THEN {"lost"}
    ELSE IF link = "alive" /\ MaxLogins > 0 THEN {"note", "account"} ELSE {"note"}

RunLoad ==
    /\ Take("load")
    /\ \E reply \in Replies : EmitThen(<<Plain(reply)>>, "timer")
    /\ UNCHANGED <<notCommand, why, linkVars, schedulerVars>>

RunLocal ==
    /\ Take("local")
    /\ EmitThen(<<Plain("note")>>, "timer")
    /\ UNCHANGED <<notCommand, why, linkVars, schedulerVars>>

(* StartBedrockLogin: credentials accepted by the app-server take effect    *)
(* when it is started again.                                                *)
RunLogin ==
    /\ Take("login")
    /\ \/ EmitThen(<<Plain("loginFailed")>>, "timer")
       \/ /\ connection = "up" /\ link = "alive"
          /\ EmitThen(<<Plain("loginAccepted")>>, "restart")
    /\ UNCHANGED <<notCommand, why, linkVars, schedulerVars>>

RestartSilently ==
    /\ backend = "restart"
    /\ DropConnection /\ ResetScheduler /\ why' = "login"
    /\ \/ Goto("connect") /\ UNCHANGED count
       \/ Counted("failures", MaxFailures) /\ Goto("timer")
    /\ UNCHANGED <<notBackend, commands, events, signalVars, missed>>

Restart ==
    /\ backend = "restart"
    /\ DropConnection /\ ResetScheduler /\ why' = "login"
    /\ \/ Goto("connect") /\ UNCHANGED count
       \/ Counted("failures", MaxFailures) /\ EmitThen(<<Plain("restartFailed")>>, "timer")
    /\ UNCHANGED <<notBackend, commands, events, signalVars, missed>>

-----------------------------------------------------------------------------
(* connect: start and initialize an app-server, unless there is one. *)

AfterConnect == IF why = "timer" THEN "top" ELSE "timer"

ConnectSucceeds ==
    /\ backend = "connect"
    /\ connection' = "up"
    /\ IF connection = "up"
       THEN EmitThen(<<Plain("connected")>>, AfterConnect)
       ELSE EmitThen(<<Plain("note"), Plain("connected")>>, AfterConnect)
    /\ IF why = "timer" THEN ResetScheduler ELSE UNCHANGED schedulerVars
    /\ UNCHANGED <<notCommand, commands, why, link, inbox>>

ConnectFailsSilently ==
    /\ backend = "connect" /\ connection = "none"
    /\ Counted("failures", MaxFailures)
    /\ Goto(AfterConnect)
    /\ UNCHANGED <<notBackend, commands, events, signalVars, why, linkVars,
                   schedulerVars, missed>>

ConnectFailsResetting ==
    /\ backend = "connect" /\ connection = "none"
    /\ Counted("failures", MaxFailures)
    /\ EmitThen(<<Plain("failed")>>, AfterConnect)
    /\ ResetScheduler
    /\ UNCHANGED <<notBackend, commands, events, signalVars, why, linkVars, missed>>

ConnectFails ==
    /\ backend = "connect" /\ connection = "none"
    /\ Counted("failures", MaxFailures)
    /\ CASE why = "command" -> EmitThen(<<Plain("failed")>>, "timer")
         [] why = "login"   -> EmitThen(<<Plain("restartFailed")>>, "timer")
         [] why = "timer"   -> EmitThen(<<RetryAnnouncement>>, "top")
    /\ IF why = "timer" THEN Schedule ELSE UNCHANGED schedulerVars
    /\ UNCHANGED <<notBackend, commands, events, signalVars, why, linkVars, missed>>

TimerDue ==
    /\ backend = "timer" /\ pending # 0
    /\ pending' = 0 /\ why' = "timer"
    /\ EmitThen(<<Act("retryStarted", pending, 0)>>, "connect")
    /\ UNCHANGED <<notCommand, commands, linkVars, nextAttempt, nextDelay>>

TimerNotDue ==
    /\ backend = "timer"
    /\ Goto("top")
    /\ UNCHANGED <<notCommand, commands, why, linkVars, schedulerVars>>

Backend ==
    \/ Emit \/ TopStep
    \/ PollLossy \/ PollSemantic \/ PollOverload
    \/ PollDisconnected \/ PollClosed \/ SignalClosed \/ PollEmpty
    \/ NoCommand \/ StopBackend \/ RunConnect \/ RunSchedule
    \/ RunLoad \/ RunLocal \/ RunLogin \/ Restart
    \/ ConnectSucceeds \/ ConnectFails \/ TimerDue \/ TimerNotDue

-----------------------------------------------------------------------------
(* The UI thread.  drain_backend first collects a batch, then dispatches it; *)
(* try_recv returns the pending loss before anything in the queue.           *)

notUi == <<backend, out, after, why, linkVars, schedulerVars, dropRequested>>
notReducer == <<notUi, events, lossPending, quitting, count>>

Tick ==
    /\ ui = "idle" /\ ~quitting
    /\ lossPending \/ events # <<>>
    /\ ui' = "collecting"
    /\ UNCHANGED <<notReducer, status, shown, auth, profile, batch, commands, missed>>

CollectLoss ==
    /\ ui = "collecting" /\ Len(batch) < BatchLimit /\ lossPending
    /\ lossPending' = FALSE
    /\ batch' = Append(batch, Plain("lost"))
    /\ UNCHANGED <<notUi, status, shown, auth, profile, ui, commands, events,
                   quitting, missed, count>>

CollectEvent ==
    /\ ui = "collecting" /\ Len(batch) < BatchLimit /\ ~lossPending /\ events # <<>>
    /\ batch' = Append(batch, Head(events)) /\ events' = Tail(events)
    /\ UNCHANGED <<notUi, status, shown, auth, profile, ui, commands, lossPending,
                   quitting, missed, count>>

CollectDone ==
    /\ ui = "collecting"
    /\ Len(batch) = BatchLimit \/ (~lossPending /\ events = <<>>)
    /\ ui' = "dispatching"
    /\ UNCHANGED <<notReducer, status, shown, auth, profile, batch, commands, missed>>

(* dispatch: reduce the next action; its guard is dropped afterwards. *)
Dispatch(kind) ==
    /\ ui = "dispatching" /\ Head(batch).kind = kind
    /\ batch' = Tail(batch)
    /\ ui' = IF Tail(batch) = <<>> THEN "idle" ELSE "dispatching"

(* The effects are sent with try_send; what does not fit is lost. *)
Fitting(n) == IF n > CommandCapacity - Len(commands) THEN CommandCapacity - Len(commands) ELSE n
SendEffects(effects) ==
    LET sent == Fitting(Len(effects))
    IN  /\ commands' = commands \o SubSeq(effects, 1, sent)
        /\ missed' = (missed \/ sent < Len(effects))

NoEffects == UNCHANGED <<commands, missed>>

Recovering(attempt, delay) ==
    /\ status' = "recovering"
    /\ shown' = [attempt |-> attempt, delay |-> delay]

Settled(to) == status' = to /\ shown' = [attempt |-> 0, delay |-> 0]

ReduceConnected ==
    /\ Dispatch("connected")
    /\ Settled("online")
    /\ auth' = IF auth = "restarting" THEN "idle" ELSE auth
    /\ SendEffects([i \in 1..ConnectEffects |-> "load"])
    /\ UNCHANGED <<notReducer, profile>>

(* A loss is acted upon once: not while a connection is being made. *)
ReduceConnectionLost ==
    /\ Dispatch("lost")
    /\ auth' = "idle"
    /\ IF status \in {"connecting", "recovering"}
       THEN UNCHANGED <<status, shown>> /\ NoEffects
       ELSE Recovering(0, 0) /\ SendEffects(<<"schedule">>)
    /\ UNCHANGED <<notReducer, profile>>

ReduceRetryScheduled ==
    /\ Dispatch("retryScheduled")
    /\ IF status = "recovering"
       THEN Recovering(Head(batch).attempt, Head(batch).delay)
       ELSE UNCHANGED <<status, shown>>
    /\ NoEffects
    /\ UNCHANGED <<notReducer, auth, profile>>

ReduceRetryStarted ==
    /\ Dispatch("retryStarted")
    /\ IF status = "recovering"
       THEN Recovering(Head(batch).attempt, 0)
       ELSE UNCHANGED <<status, shown>>
    /\ NoEffects
    /\ UNCHANGED <<notReducer, auth, profile>>

ReduceConnectionFailed ==
    /\ Dispatch("failed")
    /\ Settled("failed") /\ NoEffects
    /\ UNCHANGED <<notReducer, auth, profile>>

ReduceLoginAccepted ==
    /\ Dispatch("loginAccepted")
    /\ IF auth = "submitting"
       THEN Settled("connecting") /\ auth' = "restarting"
       ELSE UNCHANGED <<status, shown, auth>>
    /\ NoEffects
    /\ UNCHANGED <<notReducer, profile>>

ReduceLoginFailed ==
    /\ Dispatch("loginFailed")
    /\ auth' = IF auth = "submitting" THEN "idle" ELSE auth
    /\ NoEffects
    /\ UNCHANGED <<notReducer, status, shown, profile>>

ReduceRestartFailed ==
    /\ Dispatch("restartFailed")
    /\ IF auth = "restarting"
       THEN Settled("failed") /\ auth' = "idle"
       ELSE UNCHANGED <<status, shown, auth>>
    /\ NoEffects
    /\ UNCHANGED <<notReducer, profile>>

(* AccountLoaded with a profile ends whatever sign-in was under way. *)
ReduceAccountLoaded ==
    /\ Dispatch("account")
    /\ profile' = TRUE /\ auth' = "idle"
    /\ NoEffects
    /\ UNCHANGED <<notReducer, status, shown>>

ReduceOther ==
    /\ Dispatch("note") \/ Dispatch("item")
    /\ NoEffects
    /\ UNCHANGED <<notReducer, status, shown, auth, profile>>

Reduce ==
    \/ ReduceConnected \/ ReduceConnectionLost
    \/ ReduceRetryScheduled \/ ReduceRetryStarted \/ ReduceConnectionFailed
    \/ ReduceLoginAccepted \/ ReduceLoginFailed \/ ReduceRestartFailed
    \/ ReduceAccountLoaded \/ ReduceOther

UI == Tick \/ CollectLoss \/ CollectEvent \/ CollectDone \/ Reduce

-----------------------------------------------------------------------------
(* The user.  Retry is offered only when the connection has failed; when the *)
(* command queue is full it fails again at once, which changes nothing.      *)

UserMayAct == ui = "idle" /\ ~quitting
notUser == <<notUi, events, lossPending, ui, batch, profile, missed>>

RetryConnection ==
    /\ UserMayAct /\ status = "failed" /\ CommandRoom
    /\ Settled("connecting")
    /\ commands' = Append(commands, "connect")
    /\ UNCHANGED <<notUser, auth, quitting, count>>

UserEffect ==
    /\ UserMayAct /\ CommandRoom
    /\ Extra("user", MaxUser)
    /\ \E effect \in EffectKinds : commands' = Append(commands, effect)
    /\ UNCHANGED <<notUser, status, shown, auth, quitting>>

SubmitLogin ==
    /\ UserMayAct /\ auth = "idle" /\ ~profile /\ CommandRoom
    /\ Extra("logins", MaxLogins)
    /\ auth' = "submitting"
    /\ commands' = Append(commands, "login")
    /\ UNCHANGED <<notUser, status, shown, quitting>>

(* Backend::drop: the flag outranks the queue; then the UI thread joins. *)
Quit ==
    /\ UserMayAct
    /\ quitting' = TRUE
    /\ commands' = IF CommandRoom THEN Append(commands, "shutdown") ELSE commands
    /\ UNCHANGED <<notUser, status, shown, auth, count>>

User == RetryConnection \/ UserEffect \/ SubmitLogin \/ Quit

-----------------------------------------------------------------------------
(* The app-server process. *)

notServer == <<uiVars, commands, events, signalVars, backend, out, after, why,
               schedulerVars, quitting, missed, connection>>

ServerDies ==
    /\ connection = "up" /\ link = "alive"
    /\ Counted("deaths", MaxDeaths)
    /\ link' \in {"disconnected", "closed"}
    /\ UNCHANGED <<notServer, inbox>>

ServerSends ==
    /\ connection = "up" /\ link = "alive"
    /\ Extra("noise", MaxNoise)
    /\ \E kind \in {"semantic", "lossy"} : inbox' = Append(inbox, kind)
    /\ UNCHANGED <<notServer, link>>

(* The application has exited. *)
Exited == backend = "stopped" /\ UNCHANGED vars

Next == Backend \/ UI \/ User \/ ServerDies \/ ServerSends \/ Exited

(* Threads keep running, waits time out, and a deadline passes in the end.   *)
(* Nothing is assumed of the user or of the app-server.                      *)
Fairness == WF_vars(Backend) /\ WF_vars(UI) /\ SF_vars(TimerDue)

SafetySpec == Init /\ [][Next]_vars
Spec == SafetySpec /\ Fairness

-----------------------------------------------------------------------------
(* Properties *)

TypeOK ==
    /\ status \in {"connecting", "online", "recovering", "failed"}
    /\ shown \in [attempt : Nat, delay : 0..MaxDelay]
    /\ auth \in {"idle", "submitting", "restarting"}
    /\ ui \in {"idle", "collecting", "dispatching"}
    /\ backend \in {"top", "poll", "closed", "command", "restart", "connect", "emit",
                    "timer", "stopped"}
    /\ after \in {"top", "closed", "timer", "restart", "connect"}
    /\ why \in {"command", "login", "timer"}
    /\ connection \in {"none", "up"} /\ link \in {"alive", "disconnected", "closed"}
    /\ pending \in Nat /\ nextAttempt \in Nat \ {0} /\ nextDelay \in 1..MaxDelay
    /\ {profile, lossPending, dropRequested, quitting, missed} \subseteq BOOLEAN
    /\ Len(commands) <= CommandCapacity /\ Len(events) <= EventCapacity
    /\ Len(batch) <= BatchLimit /\ Leases(events) + Leases(batch) <= UiByteLimit
    /\ ui = "dispatching" => batch # <<>>
    /\ backend = "emit" => out # <<>>

(* An action of these kinds is on its way to the reducer. *)
Coming(kinds) ==
    \/ Carries(events, kinds) \/ Carries(batch, kinds)
    \/ backend = "emit" /\ Carries(out, kinds)

Connecting == backend = "connect" \/ (backend = "emit" /\ after = "connect")
Restarting == backend = "restart" \/ (backend = "emit" /\ after = "restart")
Excused == missed \/ quitting

(* The reconnect timer is only set while there is no connection to lose.     *)
TimerOnlyWhileDown == pending # 0 => connection = "none"

(* When the UI shows a connection being made, one is being made, or the      *)
(* action that says how it went is on its way and will be accepted.          *)
ConnectUnderWay ==
    status = "connecting" /\ ~Excused =>
        \/ Queued("connect") \/ Connecting \/ Restarting
        \/ Coming({"connected", "failed"})
        \/ auth = "restarting" /\ Coming({"restartFailed"})

(* When the UI shows a recovery, in which it offers no retry and ignores     *)
(* every further loss, a retry is scheduled or under way, or the connection  *)
(* is back and the action that says so is on its way.                        *)
RetryUnderWay ==
    status = "recovering" /\ ~Excused =>
        \/ connection = "none" /\ (Queued("schedule") \/ pending # 0)
        \/ Connecting \/ Coming({"connected"})

(* The UI may stop waiting for a sign-in whose restart then fails unshown:   *)
(* an AccountLoaded ends it, or the answer to an earlier sign-in, which      *)
(* nothing tells from its own, after a late loss allowed another one.        *)
SignInMayBeForgotten == profile \/ count.logins > 1

(* When the UI shows a connection that is gone, something will tell it.      *)
LossIsComing ==
    status = "online" /\ connection = "none" /\ ~SignInMayBeForgotten /\ ~Excused =>
        \/ lossPending \/ Coming({"lost", "loginAccepted"}) \/ Queued("load")
        \/ Queued("connect") \/ Connecting \/ Restarting

(* When the UI offers a retry, nothing connects and nothing will: the retry  *)
(* races no other.  Of several sign-ins, the answer to an earlier one may    *)
(* show a connection as failed that is being made again.                     *)
RetryIsAlone ==
    status = "failed" /\ count.logins <= 1 =>
        /\ connection = "none" /\ pending = 0 /\ ~Connecting /\ ~Restarting
        /\ ~Queued("connect") /\ ~Queued("schedule")
        /\ ~Coming({"connected", "failed"})

(* What the UI shows of the connection is what the backend is doing or will  *)
(* soon report: its losses of a message are the only excuse.                 *)
StatusIsReal == ConnectUnderWay /\ RetryUnderWay /\ LossIsComing /\ RetryIsAlone

(* The delays are 1, 2, 4 and so on up to the maximum, attempt by attempt,   *)
(* and the UI shows the delay of the attempt it names.                       *)
BackoffOf(n) == IF 2 ^ (n - 1) < MaxDelay THEN 2 ^ (n - 1) ELSE MaxDelay
BackoffSchedule ==
    /\ nextDelay = BackoffOf(nextAttempt)
    /\ shown.delay # 0 => shown.delay = BackoffOf(shown.attempt)

(* The progression starts over only once an app-server is initialized; or by *)
(* a retry of the user, which is offered during a progression only where     *)
(* several sign-ins were mistaken for each other.                            *)
ResetOnlyWhenConnected ==
    [][nextAttempt' < nextAttempt =>
           connection' = "up" \/ (Take("connect") /\ count.logins > 1)]_vars

(* The delays grow with the failures and with nothing else.                  *)
BackoffFollowsFailures == []BackoffSchedule /\ ResetOnlyWhenConnected

(* A lost connection that the UI knows about comes back.                     *)
RecoveryEnds == status = "recovering" ~> (status = "online" \/ Excused)

(* A connection being made is settled.                                       *)
ConnectingEnds == status = "connecting" ~> (status # "connecting" \/ Excused)

(* The UI does not show a dead connection as online for ever.                *)
LossIsNoticed ==
    (status = "online" /\ connection = "none")
        ~> (status # "online" \/ connection = "up" \/ SignInMayBeForgotten \/ Excused)

(* Closing the application ends the backend, whatever is queued.             *)
QuitEnds == quitting ~> backend = "stopped"

(* Whatever the UI waits for, or does not yet know, it does not for ever.    *)
RecoverySettles == RecoveryEnds /\ ConnectingEnds /\ LossIsNoticed /\ QuitEnds
=============================================================================
