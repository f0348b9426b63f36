------------------------------ MODULE Terminals ------------------------------
(***************************************************************************)
(* The terminal tabs of one chat: the reducer's tabs (codex-core), the     *)
(* backend that owns the sessions (backend.rs), and the two threads of a   *)
(* session, its supervisor and its reader, around a shell on a             *)
(* pseudo-terminal (codex-platform/src/terminal.rs).                       *)
(*                                                                         *)
(*   user -> reducer --commands (try_send)--> backend --queue--> supervisor*)
(*           reducer <--events (100 ms)------ backend <--out---- both      *)
(*                                            reader --queue--> supervisor *)
(*                                                                         *)
(* Data abstraction: a session is the shell started with it, in the order  *)
(* of their starts; an input is its number; of the output only its volume  *)
(* matters, and whether it holds a device status query.  The screen, the   *)
(* title and a message about a failure are one kind of event, "note".      *)
(***************************************************************************)
EXTENDS Naturals, Sequences, FiniteSets, SequencesExt

CONSTANTS
    MaxTerminalTabs,  \* MAX_TERMINAL_TABS
    CommandCapacity,  \* BACKEND_COMMAND_CAPACITY
    EventCapacity,    \* BACKEND_EVENT_CAPACITY
    QueueCapacity,    \* TERMINAL_COMMAND_CAPACITY
    OutCapacity,      \* TERMINAL_EVENT_CAPACITY
    DrainLimit,       \* events of a session read in one round of the backend
    MaxOpens,         \* bound: tabs opened
    MaxStarts,        \* bound: shells started
    MaxExtras         \* bound: inputs, reads of output, failing waits and writes, and
                      \* hindrances, together

ASSUME LimitsAssumption ==
    {MaxTerminalTabs, CommandCapacity, EventCapacity, QueueCapacity, OutCapacity, DrainLimit,
     MaxOpens, MaxStarts} \subseteq Nat \ {0}

ASSUME BoundsAssumption == MaxExtras \in Nat

Tabs     == 1..MaxOpens
Sessions == 1..MaxStarts
Inputs   == 1..MaxExtras

VARIABLES
    windows,   \* the platform: ConPTY and a Job Object, or a pty and a process group
    tab,       \* tab[t]: the TerminalTabState
    opened,    \* next_tab_id - 1
    commands,  \* the command channel
    events,    \* the event channel
    backend,   \* the backend's program counter, tab and session in hand, actions to emit,
               \* and the sessions left to drain in this round
    terminals, \* terminals[t]: the session of the tab, or 0
    session,   \* session[i]: its two threads, channels, flags and shell
    holes,     \* what has gone wrong: "refused", "missed", "late"
    quitting,  \* shutdown_requested of the backend
    inputs,    \* inputs so far
    extras     \* inputs, reads, failures and hindrances so far

uiVars   == <<tab, opened>>
counters == <<inputs, extras>>
vars == <<windows, uiVars, commands, events, backend, terminals, session, holes, quitting, counters>>

NoTab == [phase |-> "none", code |-> "none", truncated |-> FALSE, stopped |-> FALSE]

NoSession ==
    [tab |-> 0, at |-> "none", flag |-> FALSE, queue |-> <<>>, ready |-> FALSE, held |-> <<>>,
     shell |-> "none", hindrance |-> "none", out |-> <<>>,
     truncated |-> FALSE, reported |-> FALSE, unknown |-> FALSE, accepted |-> <<>>, got |-> <<>>]

Query == 0   \* the command DeviceStatusQuery; the others are Writes of inputs

Command(kind, t, input) == [kind |-> kind, tab |-> t, input |-> input]
Event(kind, t, code) == [kind |-> kind, tab |-> t, code |-> code]
Note == Event("note", 0, "none")

Loop(todo) == [at |-> "loop", tab |-> 0, session |-> 0, then |-> "loop", out |-> <<>>, todo |-> todo]

Live == {t \in Tabs : terminals[t] # 0}
Hole(what) == holes' = holes \cup {what}
Extra == extras < MaxExtras /\ extras' = extras + 1

Init ==
    /\ windows \in BOOLEAN
    /\ tab = [t \in Tabs |-> NoTab] /\ opened = 0
    /\ commands = <<>> /\ events = <<>>
    /\ backend = Loop({}) /\ terminals = [t \in Tabs |-> 0]
    /\ session = [i \in Sessions |-> NoSession]
    /\ holes = {} /\ quitting = FALSE
    /\ inputs = 0 /\ extras = 0

-----------------------------------------------------------------------------
(* The supervisor of a session (run_terminal) and its shell.  A hindrance is *)
(* a program that has stopped reading its input, so that a write to the      *)
(* terminal blocks, or, without a Job Object, a job of the shell: it has a   *)
(* process group of its own and keeps the pseudo-terminal open.              *)

notSession == <<windows, uiVars, commands, events, backend, terminals, holes, quitting>>

At(i, at) == session[i].at = at
Writable(i) == session[i].hindrance # "deaf" \/ session[i].shell = "dead"
Becomes(i, s) == session' = [session EXCEPT ![i] = s]

(* Mutant: the event channel has no bound.                                   *)
OfferUnbounded(s, event) == [s EXCEPT !.out = Append(@, event)]

Offer(s, event) == IF Len(s.out) < OutCapacity THEN [s EXCEPT !.out = Append(@, event)] ELSE s

(* The loop is left: the job is dropped, which kills the shell and, where    *)
(* they are in it, its jobs; then the reader is joined.                      *)
Leaves(s) == [s EXCEPT !.at = "joining", !.shell = "dead",
                       !.hindrance = IF windows \/ @ = "deaf" THEN "none" ELSE @]
Breaks(s) == [Leaves(Offer(s, "failed")) EXCEPT !.unknown = TRUE]

(* The loop looks at the shell before every command, and the shell may end   *)
(* between the two: SeeExit and Obey can both be next.                       *)
SeeExit(i) ==
    /\ At(i, "loop") /\ session[i].shell = "dead"
    /\ Becomes(i, Leaves(session[i]))
    /\ UNCHANGED <<notSession, counters>>

(* Mutant: what was held back is not written.                                *)
ObeyedForgets(s) ==
    LET done == [s EXCEPT !.queue = Tail(@)]
    IN  IF Head(s.queue) = Query THEN [done EXCEPT !.ready = TRUE]
        ELSE IF s.ready THEN [done EXCEPT !.got = Append(@, Head(s.queue))]
        ELSE [done EXCEPT !.held = Append(@, Head(s.queue))]

(* Input is held back until the first query has been answered.               *)
Obeyed(s) ==
    LET done == [s EXCEPT !.queue = Tail(@)]
    IN  IF Head(s.queue) = Query THEN [done EXCEPT !.ready = TRUE, !.held = <<>>, !.got = @ \o s.held]
        ELSE IF s.ready THEN [done EXCEPT !.got = Append(@, Head(s.queue))]
        ELSE [done EXCEPT !.held = Append(@, Head(s.queue))]

Obey(i) ==
    LET s == session[i]
    IN  /\ At(i, "loop") /\ ~s.flag /\ s.queue # <<>>
        /\ s.ready \/ Head(s.queue) = Query => Writable(i)
        /\ Becomes(i, Obeyed(s))
        /\ UNCHANGED <<notSession, counters>>

(* A wait or a write that fails; of the input held back some was written.    *)
Fails(i) ==
    LET s == session[i]
        most == IF s.queue # <<>> /\ Head(s.queue) = Query THEN Len(s.held) ELSE 0
    IN  /\ At(i, "loop") /\ Extra
        /\ \E k \in 0..most : Becomes(i, Breaks([s EXCEPT !.got = @ \o SubSeq(s.held, 1, k)]))
        /\ UNCHANGED <<notSession, inputs>>

(* graceful_terminal_exit: "exit", time to follow it, then kill and wait.    *)
GracefulExit(i) ==
    /\ At(i, "loop") /\ session[i].flag /\ Writable(i)
    /\ Becomes(i, Leaves(session[i]))
    /\ UNCHANGED <<notSession, counters>>

(* The reader ends when the terminal is closed: a ConPTY by the supervisor,  *)
(* a pty when nobody has it open.  It is joined without a time limit.        *)
JoinReader(i) ==
    /\ At(i, "joining") /\ session[i].hindrance # "job"
    /\ LET s == session[i]
       IN  Becomes(i, [NoSession EXCEPT !.tab = s.tab, !.at = "gone", !.shell = "dead",
                           !.out = Offer(s, "exited").out, !.truncated = s.truncated,
                           !.reported = s.reported, !.unknown = s.unknown \/ Len(s.out) = OutCapacity])
    /\ UNCHANGED <<notSession, counters>>

Supervisor(i) == SeeExit(i) \/ Obey(i) \/ GracefulExit(i) \/ JoinReader(i)

(* The reader.                                                               *)
Read(i) ==
    /\ session[i].at \in {"loop", "joining"} /\ Extra
    /\ \E query \in BOOLEAN :
         LET s == session[i]
             asked == IF query /\ Len(s.queue) < QueueCapacity
                      THEN [s EXCEPT !.queue = Append(@, Query)] ELSE s
         IN  Becomes(i, [Offer(asked, "output") EXCEPT !.truncated = @ \/ Len(s.out) = OutCapacity])
    /\ UNCHANGED <<notSession, inputs>>

ShellExits(i) ==
    /\ session[i].shell = "alive"
    /\ Becomes(i, [session[i] EXCEPT !.shell = "dead"])
    /\ UNCHANGED <<notSession, counters>>

Hinder(i) ==
    /\ session[i].shell = "alive" /\ session[i].hindrance = "none"
    /\ Extra
    /\ \E what \in (IF windows THEN {"deaf"} ELSE {"deaf", "job"}) :
         Becomes(i, [session[i] EXCEPT !.hindrance = what])
    /\ UNCHANGED <<notSession, inputs>>

HindranceEnds(i) ==
    /\ session[i].hindrance # "none"
    /\ Becomes(i, [session[i] EXCEPT !.hindrance = "none"])
    /\ UNCHANGED <<notSession, counters>>

Shell(i) == ShellExits(i) \/ Hinder(i) \/ HindranceEnds(i)

-----------------------------------------------------------------------------
(* The backend: every round of its loop drains the sessions, then takes a    *)
(* command.                                                                  *)

notBackend == <<windows, uiVars, holes, quitting, counters>>

Reply(out, todo) ==
    backend' = IF out = <<>> THEN Loop(todo) ELSE [Loop(todo) EXCEPT !.at = "emit", !.out = out]

(* Reading on after the last event finds the channel disconnected once the   *)
(* supervisor is gone, which is an exit of code 127.                         *)
ExitCode(s, taken) ==
    IF "exited" \in Range(taken) THEN IF s.unknown THEN "unknown" ELSE "own"
    ELSE IF Len(taken) < DrainLimit /\ s.at = "gone" THEN "unknown"
    ELSE "none"

Drained(t, s, taken, code) ==
    (IF \E i \in DOMAIN taken : taken[i] # "exited" THEN <<Note>> ELSE <<>>)
    \o (IF s.truncated /\ ~s.reported THEN <<Event("truncated", t, "none")>> ELSE <<>>)
    \o (IF code = "none" THEN <<>> ELSE <<Event("exited", t, code)>>)

(* The runtime is dropped; what a reader was told to expect of it is history.*)
Forgotten(i, told) ==
    [NoSession EXCEPT !.tab = session[i].tab, !.at = "gone", !.shell = "dead",
                      !.truncated = told /\ session[i].truncated, !.unknown = told /\ session[i].unknown]

(* drain_terminals, for one of the sessions.                                 *)
Drain(t) ==
    /\ backend.at = "loop" /\ t \in backend.todo
    /\ LET s == session[terminals[t]]
           n == IF Len(s.out) < DrainLimit THEN Len(s.out) ELSE DrainLimit
           taken == SubSeq(s.out, 1, n)
           code == ExitCode(s, taken)
       IN  /\ Becomes(terminals[t], IF code # "none" THEN Forgotten(terminals[t], TRUE)
                                    ELSE [s EXCEPT !.out = SubSeq(@, n + 1, Len(@)), !.reported = s.truncated])
           /\ terminals' = IF code = "none" THEN terminals ELSE [terminals EXCEPT ![t] = 0]
           /\ Reply(Drained(t, s, taken, code), backend.todo \ {t})
    /\ UNCHANGED <<notBackend, commands, events>>

NoCommand ==
    /\ backend = Loop({}) /\ commands = <<>> /\ ~quitting
    /\ backend' = Loop(Live)
    /\ UNCHANGED <<notBackend, commands, events, terminals, session>>

Take(kind) ==
    /\ backend = Loop({}) /\ ~quitting
    /\ commands # <<>> /\ Head(commands).kind = kind
    /\ commands' = Tail(commands)
    /\ UNCHANGED <<notBackend, events>>
Taken == Head(commands).tab

(* Mutant: the flag is a message in the queue only.                          *)
ShutByMessage(t) == session' = [session EXCEPT ![terminals[t]].flag =
                                    Len(session[terminals[t]].queue) < QueueCapacity]

(* TerminalSession::shutdown up to its join.  The command it sends as well   *)
(* says nothing that the flag does not.                                      *)
Shut(t) == session' = [session EXCEPT ![terminals[t]].flag = TRUE]

ShutThen(t, next) ==
    /\ Shut(t)
    /\ terminals' = [terminals EXCEPT ![t] = 0]
    /\ backend' = [Loop({}) EXCEPT !.at = "join", !.tab = t, !.session = terminals[t], !.then = next]

Spawned(t) == [NoSession EXCEPT !.tab = t, !.at = "loop", !.ready = ~windows, !.shell = "alive"]

(* start_terminal, for a tab without a session.                              *)
StartTerminal(t, sessions) ==
    LET unused == {i \in Sessions : sessions[i].at = "none"}
    IN  \/ /\ Cardinality(Live) < MaxTerminalTabs
           /\ \E i \in unused :
                /\ \A j \in unused : i <= j
                /\ session' = [sessions EXCEPT ![i] = Spawned(t)]
                /\ terminals' = [terminals EXCEPT ![t] = i]
           /\ Reply(<<Event("started", t, "none")>>, Live \cup {t})
        \/ /\ Reply(<<Event("startFailed", t, "none")>>, Live)
           /\ session' = sessions /\ UNCHANGED terminals

RunSpawn == Take("spawn") /\ StartTerminal(Taken, session)

RunRestart ==
    /\ Take("restart")
    /\ IF Taken \in Live THEN ShutThen(Taken, "start") ELSE StartTerminal(Taken, session)

(* A full queue is told by a status message.                                 *)
RunWrite ==
    /\ Take("write")
    /\ UNCHANGED terminals
    /\ LET i == terminals[Taken]
           input == Head(commands).input
       IN  IF Taken \notin Live THEN UNCHANGED session /\ Reply(<<>>, Live)
           ELSE IF session[i].at # "gone" /\ Len(session[i].queue) < QueueCapacity
           THEN /\ session' = [session EXCEPT ![i].queue = Append(@, input), ![i].accepted = Append(@, input)]
                /\ Reply(<<>>, Live)
           ELSE UNCHANGED session /\ Reply(<<Note>>, Live)

RunStop ==
    /\ Take("stop")
    /\ IF Taken \in Live THEN ShutThen(Taken, "exited")
       ELSE Reply(<<Event("exited", Taken, "zero")>>, Live) /\ UNCHANGED <<terminals, session>>

(* The thread is joined, which has no time limit, and its channels go.       *)
Joined ==
    /\ backend.at = "join" /\ At(backend.session, "gone")
    /\ LET joined == [session EXCEPT ![backend.session] = Forgotten(backend.session, FALSE)]
       IN  \/ backend.then = "start" /\ StartTerminal(backend.tab, joined)
           \/ /\ backend.then = "exited"
              /\ Reply(<<Event("exited", backend.tab, "zero")>>, Live)
              /\ session' = joined /\ UNCHANGED terminals
           \/ /\ backend.then = "quit"
              /\ backend' = Loop({})
              /\ session' = joined /\ UNCHANGED terminals
    /\ UNCHANGED <<notBackend, commands, events>>

Emit ==
    /\ backend.at = "emit"
    /\ IF Len(events) < EventCapacity THEN events' = Append(events, Head(backend.out)) /\ UNCHANGED holes
       ELSE Hole("missed") /\ UNCHANGED events
    /\ Reply(Tail(backend.out), backend.todo)
    /\ UNCHANGED <<windows, uiVars, quitting, counters, commands, terminals, session>>

(* The end of run_backend shuts the sessions down one by one.                *)
StopBackend ==
    /\ backend = Loop({}) /\ quitting
    /\ IF Live = {} THEN backend' = [Loop({}) EXCEPT !.at = "stopped"] /\ UNCHANGED <<terminals, session>>
       ELSE \E t \in Live : ShutThen(t, "quit")
    /\ UNCHANGED <<notBackend, commands, events>>

Backend ==
    \/ (\E t \in Tabs : Drain(t)) \/ NoCommand \/ RunSpawn \/ RunRestart \/ RunWrite \/ RunStop
    \/ Joined \/ Emit \/ StopBackend

-----------------------------------------------------------------------------
(* The reducer.  The flags starting, running and stopping of a tab make its  *)
(* phase; stopping is running as well.                                       *)

notUi == <<windows, backend, terminals, session, quitting>>

NextIs(kind) ==
    /\ ~quitting /\ events # <<>> /\ Head(events).kind = kind
    /\ events' = Tail(events)
    /\ UNCHANGED <<notUi, commands, opened, counters>>
About == Head(events).tab
Known(t) == t # 0 /\ tab[t].phase # "none"

ReduceStarted ==
    /\ NextIs("started") /\ UNCHANGED holes
    /\ tab' = IF Known(About) THEN [tab EXCEPT ![About] = [NoTab EXCEPT !.phase = "running"]] ELSE tab

ReduceStartFailed ==
    /\ NextIs("startFailed") /\ UNCHANGED holes
    /\ tab' = IF Known(About) THEN [tab EXCEPT ![About].phase = "ended"] ELSE tab

ReduceTruncated ==
    /\ NextIs("truncated") /\ UNCHANGED holes
    /\ tab' = IF Known(About) THEN [tab EXCEPT ![About].truncated = TRUE] ELSE tab

(* The exit does not say of which session it is: the answer to a Stop that   *)
(* came too late can reach a tab that is being started again.                *)
ReduceExited ==
    /\ NextIs("exited")
    /\ tab' = IF Known(About)
              THEN [tab EXCEPT ![About].phase = "ended", ![About].code = Head(events).code] ELSE tab
    /\ IF Known(About) /\ tab[About].phase = "starting" THEN Hole("late") ELSE UNCHANGED holes

ReduceNote == NextIs("note") /\ UNCHANGED <<tab, holes>>

Reduce == ReduceStarted \/ ReduceStartFailed \/ ReduceTruncated \/ ReduceExited \/ ReduceNote

(* The user, as long as nothing has gone wrong.  An effect that does not fit *)
(* is replaced by a status message.                                          *)
UserMay == ~quitting /\ holes = {} /\ UNCHANGED <<notUi, events>>

Dispatch(kind, t, input) ==
    IF Len(commands) < CommandCapacity
    THEN commands' = Append(commands, Command(kind, t, input)) /\ UNCHANGED holes
    ELSE Hole("refused") /\ UNCHANGED commands

OpenTab ==
    /\ UserMay /\ opened < MaxOpens
    /\ Cardinality({t \in Tabs : tab[t].phase # "none"}) < MaxTerminalTabs
    /\ opened' = opened + 1
    /\ tab' = [tab EXCEPT ![opened + 1].phase = "starting"]
    /\ Dispatch("spawn", opened + 1, 0)
    /\ UNCHANGED counters

(* Mutant: a tab that is still starting is closed without a word.            *)
CloseTabStarted(t) ==
    /\ UserMay /\ tab[t].phase # "none"
    /\ tab' = [tab EXCEPT ![t] = NoTab]
    /\ IF tab[t].phase \in {"running", "stopping"} THEN Dispatch("stop", t, 0)
       ELSE UNCHANGED <<commands, holes>>
    /\ UNCHANGED <<opened, counters>>

CloseTab(t) ==
    /\ UserMay /\ tab[t].phase # "none"
    /\ tab' = [tab EXCEPT ![t] = NoTab]
    /\ IF tab[t].phase # "ended" THEN Dispatch("stop", t, 0) ELSE UNCHANGED <<commands, holes>>
    /\ UNCHANGED <<opened, counters>>

(* The reducer admits a running tab as well; there the button says Stop      *)
(* (ui.rs:24913-24921, the one place that dispatches RestartTerminal).       *)
Restart(t) ==
    /\ UserMay /\ tab[t].phase = "ended"
    /\ tab' = [tab EXCEPT ![t] = [NoTab EXCEPT !.phase = "starting"]]
    /\ Dispatch("restart", t, 0)
    /\ UNCHANGED <<opened, counters>>

Stop(t) ==
    /\ UserMay /\ tab[t].phase = "running"
    /\ tab' = [tab EXCEPT ![t].phase = "stopping", ![t].stopped = TRUE]
    /\ Dispatch("stop", t, 0)
    /\ UNCHANGED <<opened, counters>>

Input(t) ==
    /\ UserMay /\ tab[t].phase = "running"
    /\ Extra /\ inputs' = inputs + 1
    /\ Dispatch("write", t, inputs + 1)
    /\ UNCHANGED uiVars

(* The UI thread waits for the backend; its tabs and what it has sent and    *)
(* not yet read go with the window.                                          *)
Quit ==
    /\ ~quitting /\ quitting' = TRUE
    /\ tab' = [t \in Tabs |-> NoTab] /\ opened' = MaxOpens
    /\ commands' = <<>> /\ events' = <<>> /\ holes' = {}
    /\ UNCHANGED <<windows, backend, terminals, session, counters>>

User == OpenTab \/ (\E t \in Tabs : CloseTab(t) \/ Restart(t) \/ Stop(t) \/ Input(t)) \/ Quit

-----------------------------------------------------------------------------
Exited == backend.at = "stopped" /\ UNCHANGED vars

Next ==
    \/ \E i \in Sessions : Supervisor(i) \/ Fails(i) \/ Read(i) \/ Shell(i)
    \/ Backend \/ Reduce \/ User \/ Exited

Spec == Init /\ [][Next]_vars

(* The threads go on; nothing is assumed of the user, of the shell and of    *)
(* what runs in it.                                                          *)
FairSpec ==
    /\ Spec
    /\ \A i \in Sessions : WF_vars(Supervisor(i))
    /\ WF_vars(Backend) /\ WF_vars(Reduce)

-----------------------------------------------------------------------------
(* Properties.                                                               *)

(* The values of the variables; every channel keeps to its capacity.         *)
TypeOK ==
    /\ {windows, quitting} \subseteq BOOLEAN /\ opened \in 0..MaxOpens
    /\ tab \in [Tabs -> [phase : {"none", "starting", "running", "stopping", "ended"},
                         code : {"none", "zero", "own", "unknown"},
                         truncated : BOOLEAN, stopped : BOOLEAN]]
    /\ Len(commands) <= CommandCapacity
    /\ \A i \in DOMAIN commands : commands[i].kind \in {"spawn", "restart", "write", "stop"}
    /\ Len(events) <= EventCapacity
    /\ \A i \in DOMAIN events :
         events[i].kind \in {"started", "startFailed", "truncated", "exited", "note"}
    /\ backend.at \in {"loop", "join", "emit", "stopped"} /\ backend.todo \subseteq Live
    /\ terminals \in [Tabs -> {0} \cup Sessions]
    /\ \A i \in Sessions :
         LET s == session[i]
         IN  /\ s.at \in {"none", "loop", "joining", "gone"}
             /\ Range(s.queue) \subseteq Inputs \cup {Query} /\ Len(s.queue) <= QueueCapacity
             /\ Range(s.out) \subseteq {"output", "failed", "exited"} /\ Len(s.out) <= OutCapacity
             /\ s.hindrance \in {"none", "deaf", "job"}
    /\ holes \subseteq {"refused", "missed", "late"}

(* The inputs among what is queued.                                          *)
Writes(queue) ==
    LET upTo[n \in 0..Len(queue)] ==
            IF n = 0 THEN <<>>
            ELSE IF queue[n] = Query THEN upTo[n - 1] ELSE Append(upTo[n - 1], queue[n])
    IN  upTo[Len(queue)]

(* Whatever is typed while the shell starts, and however queries fall in     *)
(* between, a shell gets the accepted input in its order, each once, and     *)
(* none is left behind while the session lasts.                              *)
InputInOrder ==
    \A i \in Sessions :
        LET s == session[i]
        IN  /\ IsPrefix(s.got, s.accepted)
            /\ s.at = "loop" => s.got \o (s.held \o Writes(s.queue)) = s.accepted

Ordered(kinds, t) == \E i \in DOMAIN commands : commands[i].kind \in kinds /\ commands[i].tab = t
Told(kinds, t) ==
    \E e \in Range(events) \cup Range(backend.out) : e.kind \in kinds /\ e.tab = t
Doing(at, then, t) == backend.at = at /\ backend.then = then /\ backend.tab = t

TabIsReal(t) ==
    CASE tab[t].phase = "starting" -> \/ Ordered({"spawn", "restart"}, t) \/ Doing("join", "start", t)
                                      \/ Told({"started", "startFailed"}, t)
      [] tab[t].phase = "running"  -> t \in Live \/ Told({"exited"}, t)
      [] tab[t].phase = "stopping" -> \/ Ordered({"stop"}, t) \/ Doing("join", "exited", t)
                                      \/ Told({"exited"}, t)
      [] OTHER -> t \in Live => Ordered({"stop"}, t)

(* A tab whose shell ended by itself shows the code of that shell, unless a  *)
(* failure or an overflow has lost it, and the mark of output that was       *)
(* dropped; 0 stands there only for a shell that the user stopped.           *)
Latest(t) == {i \in Sessions : session[i].tab = t /\ \A j \in Sessions : session[j].tab = t => j <= i}
ExitIsTold(t) ==
    \A i \in Latest(t) :
        tab[t].phase = "ended" /\ tab[t].code # "none" =>
            /\ tab[t].code = "zero" => tab[t].stopped
            /\ tab[t].code = "unknown" => session[i].unknown
            /\ tab[t].code # "zero" => tab[t].truncated = session[i].truncated

(* What a tab shows is so, or is about to be told otherwise, and no shell is *)
(* without a tab that shows it or a stop on its way; the backend has room    *)
(* for every tab that the reducer lets the user open.                        *)
ShownIsReal ==
    holes = {} =>
        /\ \A t \in Tabs : ExitIsTold(t) /\ (quitting \/ TabIsReal(t))
        /\ commands # <<>> /\ Head(commands).kind = "spawn" /\ backend = Loop({}) =>
             quitting \/ Cardinality(Live) < MaxTerminalTabs

(* Starting, stopping and quitting end, and the end of a shell is noticed,   *)
(* unless something keeps the terminal open or from being written to.        *)
Hindered == \E i \in Sessions : session[i].hindrance # "none"
Excused == holes # {} \/ quitting \/ Hindered

WaitsEnd ==
    /\ \A t \in Tabs : []<>(tab[t].phase \notin {"starting", "stopping"} \/ Excused)
    /\ \A i \in Sessions : []<>(session[i].shell # "dead" \/ session[i].at = "gone" \/ Hindered)
    /\ []<>(quitting => backend.at = "stopped" \/ Hindered)

=============================================================================
