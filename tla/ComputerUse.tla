------------------------------ MODULE ComputerUse ------------------------------
(***************************************************************************)
(* Computer Use under the user's hand: the tool calls of a turn as         *)
(* run_backend lets them through, the thread that watches the keyboard and *)
(* the mouse between two calls (codex-platform/computer_interruption.rs),  *)
(* the approvals they may wait for, and the indicator that says            *)
(* "Esc to cancel".                                                        *)
(*                                                                         *)
(*   app-server --events--> run_backend <--stops, touches-- monitor thread *)
(*        user --commands-->     |                              ^          *)
(*                               +--- arm, disarm (one lock) ---+          *)
(*                                                                         *)
(* A call acts while the monitor is disarmed, for the keys and the mouse   *)
(* are the agent's then.  A generation, counted at every arm and disarm,   *)
(* tells the monitor that what it has read is of the past.                 *)
(*                                                                         *)
(* Data abstraction: applications, coordinates and captures are left out,  *)
(* the URL policy and every error of a tool are refusals, and whether an   *)
(* application is allowed already is open at each call.  Discovery tools,  *)
(* which touch nothing, are left out; call ids do not recur and the         *)
(* commands of the user are taken as they come (ClientRequests has what    *)
(* happens when they do not); the helpers always answer.                   *)
(***************************************************************************)
EXTENDS Naturals, Sequences, FiniteSets

CONSTANTS
    MaxInterrupted,   \* MAX_INTERRUPTED_COMPUTER_TURNS
    MaxStale,         \* MAX_STALE_INPUT_WINDOWS
    MaxWindows,       \* bound: windows
    MaxTurns,         \* bound: turns that use the computer
    MaxCalls,         \* bound: calls of all turns
    MaxExtras         \* bound: keys pressed, touches, orders that change nothing, losses

ASSUME CapacityAssumption ==
    {MaxInterrupted, MaxStale, MaxWindows, MaxTurns} \subseteq Nat \ {0}

ASSUME BoundsAssumption == {MaxCalls, MaxExtras} \subseteq Nat

Turns   == 1..MaxTurns
Windows == 1..MaxWindows  \* 0 is any window that is no target

VARIABLES
    turns,       \* the turns, as the app-server has them
    up,          \* whether there is a connection
    inbox,       \* the events of the app-server
    called,      \* how many calls there have been
    backend,     \* run_backend: where it is, the call in hand, what to arm after it
    pending,     \* pending_approvals: the calls that wait for the user
    interrupted, \* interrupted_computer_turns
    overlay,     \* the turn the indicator is shown for, or 0
    stale,       \* stale_input_windows
    allStale,    \* all_input_windows_stale
    passed,      \* whether MonitorState::generation is past what the monitor read
    armed,       \* MonitorState::turn
    monitor,     \* the monitor thread
    stops,       \* the channel interrupted
    touches,     \* the channel user_input
    escape,      \* who holds the Escape key down
    moved,       \* the target window with input since the monitor last sampled, or {}
    noticed,     \* windows reported as touched, and not looked at since
    swallowed,   \* turns whose stop found the channel full
    obeyed,      \* turns whose stop run_backend has read, and not let go since
    extras       \* what the environment has done so far

serverVars  == <<turns, up, inbox, called>>
sharedVars  == <<passed, armed>>
staleVars   == <<stale, allStale, noticed>>
physical    == <<escape, moved>>
channels    == <<stops, touches>>
vars == <<serverVars, backend, pending, interrupted, overlay, staleVars,
          sharedVars, monitor, channels, physical, swallowed, obeyed, extras>>

(* get_window_state; the tools that act on a window; launch_app. *)
Tools == {"state", "action", "launch"}
Key(t, w) == [turn |-> t, window |-> w]
NoKey == Key(0, 0)
Call(t, tool, w) == [turn |-> t, tool |-> tool, window |-> w]
NoCall == Call(0, "state", 0)

Event(kind, t, call) == [kind |-> kind, turn |-> t, call |-> call]

(* An answer to a call or to a decision arms key when it is through.         *)
Handling(place, call, decision, key, next) ==
    [at |-> place, call |-> call, decision |-> decision, key |-> key, next |-> next, touched |-> {}]
At(place) == Handling(place, NoCall, "none", NoKey, place)
Received(call) ==
    [Handling("check", call, "none", Key(call.turn, call.window), "batch")
        EXCEPT !.touched = noticed \cap {call.window}]

(* The monitor at the end of its loop. *)
Asleep == [monitor EXCEPT !.at = "idle", !.new = FALSE, !.key = NoKey, !.by = "up"]

Counted == extras < MaxExtras /\ extras' = extras + 1

Init ==
    /\ turns = [t \in Turns |-> "live"] /\ up = TRUE /\ inbox = <<>> /\ called = 0
    /\ backend = At("head")
    /\ pending = {} /\ interrupted = {} /\ overlay = 0
    /\ stale = {} /\ allStale = FALSE /\ noticed = {}
    /\ passed = TRUE /\ armed = NoKey
    /\ monitor = [at |-> "idle", new |-> FALSE, key |-> NoKey, wasDown |-> FALSE,
                  reported |-> FALSE, by |-> "up"]
    /\ stops = <<>> /\ touches = <<>>
    /\ escape = "up" /\ moved = {}
    /\ swallowed = {} /\ obeyed = {}
    /\ extras = 0

-----------------------------------------------------------------------------
(* The app-server.  A turn makes one call at a time.                         *)

notServer == <<up, backend, pending, interrupted, overlay, staleVars,
               sharedVars, monitor, channels, physical, swallowed, obeyed, extras>>

(* A call waits for its answer on the way, in hand, or for the user.         *)
Waits(t) ==
    \/ \E i \in DOMAIN inbox : inbox[i].call.turn = t
    \/ backend.call.turn = t
    \/ \E call \in pending : call.turn = t

TurnCalls(t) ==
    /\ turns[t] \in {"live", "halting"} /\ ~Waits(t) /\ called < MaxCalls
    /\ called' = called + 1
    /\ \E tool \in Tools, w \in Windows :
         LET call == Call(t, tool, IF tool = "launch" THEN 0 ELSE w)
         IN  inbox' = Append(inbox, Event("call", t, call))
    /\ UNCHANGED <<notServer, turns>>

(* A turn that is interrupted ends although a call is unanswered.            *)
TurnEnds(t) ==
    /\ turns[t] = "halting" \/ (turns[t] = "live" /\ ~Waits(t))
    /\ turns' = [turns EXCEPT ![t] = "ended"]
    /\ inbox' = Append(inbox, Event("done", t, NoCall))
    /\ UNCHANGED <<notServer, called>>

(* turn/interrupt, which may be refused.                                     *)
AskToHalt(t) ==
    turns' \in {turns} \cup (IF turns[t] = "live" THEN {[turns EXCEPT ![t] = "halting"]} ELSE {})

Server == \E t \in Turns : TurnCalls(t) \/ TurnEnds(t)

-----------------------------------------------------------------------------
(* The user.                                                                 *)

notUser == <<serverVars, backend, pending, interrupted, overlay, staleVars, sharedVars,
             monitor, channels, swallowed, obeyed>>

PressEscape ==
    /\ escape = "up" /\ escape' = "user" /\ Counted
    /\ UNCHANGED <<notUser, moved>>

ReleaseEscape ==
    /\ escape = "user" /\ escape' = "up"
    /\ UNCHANGED <<notUser, moved, extras>>

Touch ==
    /\ Counted
    /\ \E front \in {0} \cup Windows : moved' = {front} \ {0}
    /\ UNCHANGED <<notUser, escape>>

User == PressEscape \/ ReleaseEscape \/ Touch

-----------------------------------------------------------------------------
(* The monitor thread, every 8 ms: read the generation and the turn under    *)
(* the lock, then the keyboard and the mouse without it.                     *)

notMonitor == <<serverVars, backend, pending, interrupted, overlay, stale,
                allStale, escape, obeyed, extras>>

MonitorReads ==
    /\ monitor.at = "idle"
    /\ monitor' = [monitor EXCEPT !.at = "read", !.new = passed, !.key = armed]
    /\ passed' = FALSE
    /\ UNCHANGED <<notMonitor, armed, channels, moved, noticed, swallowed>>

IsDown     == escape # "up"
IsPress    == monitor.key # NoKey /\ IsDown /\ ~monitor.wasDown
IsTouch    == ~monitor.reported /\ monitor.key.window # 0 /\ moved = {monitor.key.window}

(* A new generation starts from what is held down.                           *)
MonitorSamples ==
    /\ monitor.at = "read"
    /\ \/ /\ monitor.new
          /\ monitor' = [Asleep EXCEPT !.wasDown = IsDown, !.reported = FALSE]
          /\ moved' = {}
       \/ /\ ~monitor.new /\ IsPress
          /\ monitor' = [monitor EXCEPT !.at = "take", !.wasDown = TRUE, !.by = escape]
          /\ UNCHANGED moved
       \/ /\ ~monitor.new /\ ~IsPress
          /\ monitor' = [(IF IsTouch THEN [monitor EXCEPT !.at = "report"] ELSE Asleep)
                           EXCEPT !.wasDown = IF monitor.key = NoKey THEN @ ELSE IsDown]
          /\ moved' = {}
    /\ UNCHANGED <<notMonitor, sharedVars, channels, noticed, swallowed>>

(* Mutant: the generation is not compared again.                             *)
MonitorTakesAnyTurn ==
    /\ monitor.at = "take"
    /\ IF armed # NoKey
       THEN /\ passed' = TRUE /\ armed' = NoKey
            /\ monitor' = [monitor EXCEPT !.at = "send", !.key = armed]
       ELSE /\ UNCHANGED sharedVars
            /\ monitor' = Asleep
    /\ UNCHANGED <<notMonitor, channels, moved, noticed, swallowed>>

MonitorTakesTurn ==
    /\ monitor.at = "take"
    /\ IF ~passed
       THEN /\ passed' = TRUE /\ armed' = NoKey
            /\ monitor' = [monitor EXCEPT !.at = "send", !.key = armed]
       ELSE /\ UNCHANGED sharedVars
            /\ monitor' = Asleep
    /\ UNCHANGED <<notMonitor, channels, moved, noticed, swallowed>>

(* Each channel has room for one message, and a second is lost.              *)
MonitorSendsStop ==
    /\ monitor.at = "send" /\ monitor' = Asleep
    /\ IF stops = <<>>
       THEN /\ stops' = <<[turn |-> monitor.key.turn, by |-> monitor.by]>>
            /\ UNCHANGED swallowed
       ELSE swallowed' = swallowed \cup {monitor.key.turn} /\ UNCHANGED stops
    /\ UNCHANGED <<notMonitor, sharedVars, touches, moved, noticed>>

MonitorReportsTouch ==
    /\ monitor.at = "report"
    /\ monitor' = [Asleep EXCEPT !.reported = TRUE]
    /\ IF touches = <<>>
       THEN touches' = <<monitor.key.window>> /\ noticed' = noticed \cup {monitor.key.window}
       ELSE UNCHANGED <<touches, noticed>>
    /\ UNCHANGED <<notMonitor, sharedVars, stops, moved, swallowed>>

Monitor ==
    \/ MonitorReads \/ MonitorSamples \/ MonitorTakesTurn
    \/ MonitorSendsStop \/ MonitorReportsTouch

-----------------------------------------------------------------------------
(* run_backend.                                                              *)

notBackend == <<called, monitor, swallowed, obeyed>>

Goto(place) == backend' = At(place)
Arm(key) == passed' = TRUE /\ armed' = key
Disarm   == Arm(NoKey)
Hidden(t) == IF overlay = t THEN 0 ELSE overlay

(* Mutant: the set takes every window.                                       *)
MarkUnbounded(w) == stale' = stale \cup {w} /\ UNCHANGED allStale

(* mark_user_input: a window that does not fit makes every window stale, and *)
(* the set then holds those looked at since.                                 *)
Mark(w) ==
    CASE allStale -> stale' = stale \ {w} /\ UNCHANGED allStale
      [] ~allStale /\ (w \in stale \/ Cardinality(stale) < MaxStale) ->
           stale' = stale \cup {w} /\ UNCHANGED allStale
      [] OTHER -> stale' = {} /\ allStale' = TRUE

(* clear_user_input. *)
Refresh(w) ==
    /\ stale' = IF ~allStale THEN stale \ {w}
                ELSE (IF Cardinality(stale) >= MaxStale THEN {} ELSE stale) \cup {w}
    /\ noticed' = noticed \ {w}
    /\ UNCHANGED allStale

NeedsRefresh(w) == allStale # (w \in stale)

ReceiveTouch ==
    IF touches = <<>> THEN UNCHANGED <<touches, stale, allStale>>
    ELSE Mark(Head(touches)) /\ touches' = Tail(touches)

(* handle_computer_use_interruption. *)
Forgotten == IF Cardinality(interrupted) >= MaxInterrupted THEN {} ELSE interrupted

HandleStop(t) ==
    /\ overlay' = Hidden(t) /\ interrupted' = Forgotten \cup {t}
    /\ IF up
       THEN pending' = {call \in pending : call.turn # t} /\ AskToHalt(t)
       ELSE UNCHANGED <<pending, turns>>
    /\ obeyed' = (obeyed \ (interrupted \ Forgotten)) \cup {t}

ReceiveSignals ==
    /\ backend.at = "head" /\ Goto("batch") /\ ReceiveTouch
    /\ IF stops # <<>> THEN stops' = Tail(stops) /\ HandleStop(Head(stops).turn)
       ELSE UNCHANGED <<stops, overlay, interrupted, pending, turns, obeyed>>
    /\ UNCHANGED <<called, monitor, swallowed, up, inbox, noticed, sharedVars, physical, extras>>

(* The connection is lost: what belongs to it is forgotten, except what is   *)
(* in the channels of the monitor.                                           *)
Disconnected ==
    /\ backend.at \in {"head", "batch"} /\ up /\ Counted
    /\ up' = FALSE /\ inbox' = <<>>
    /\ turns' = [t \in Turns |-> "ended"]
    /\ pending' = {} /\ interrupted' = {} /\ overlay' = 0
    /\ stale' = {} /\ allStale' = FALSE /\ noticed' = {}
    /\ Disarm /\ Goto("batch")
    /\ UNCHANGED <<notBackend, channels, physical>>

NextIs(kind) ==
    /\ backend.at = "batch" /\ inbox # <<>> /\ Head(inbox).kind = kind
    /\ inbox' = Tail(inbox)

(* turn/completed: disarm_turn, and the turn is forgotten.  An approval that *)
(* waits for its user is not.                                                *)
ReceiveCompleted ==
    /\ NextIs("done")
    /\ LET t == Head(inbox).turn
       IN  /\ IF armed.turn = t THEN Disarm ELSE UNCHANGED sharedVars
           /\ overlay' = Hidden(t) /\ interrupted' = interrupted \ {t}
    /\ UNCHANGED <<notBackend, backend, turns, up, pending, staleVars,
                   channels, physical, extras>>

notDesktop == <<turns, up, inbox, physical, extras>>

(* Mutant: the touches of before are not asked for when a call comes.        *)
ReceiveCallOnly ==
    /\ NextIs("call")
    /\ backend' = Received(Head(inbox).call)
    /\ UNCHANGED <<notBackend, turns, up, pending, interrupted, overlay,
                   staleVars, sharedVars, channels, physical, extras>>

ReceiveCall ==
    /\ NextIs("call") /\ ReceiveTouch
    /\ backend' = Received(Head(inbox).call)
    /\ UNCHANGED <<notBackend, turns, up, pending, interrupted, overlay,
                   noticed, sharedVars, stops, physical, extras>>

(* computer_tool_target_block_message: another turn is at it, or another     *)
(* window than the last one.                                                 *)
Blocks(key, call) ==
    /\ key # NoKey
    /\ \/ key.turn # call.turn
       \/ call.tool = "action" /\ key.window # call.window

CheckTarget ==
    /\ backend.at = "check"
    /\ IF Blocks(armed, backend.call)
       THEN Goto("batch") ELSE backend' = [backend EXCEPT !.at = "disarm"]
    /\ UNCHANGED <<notBackend, notDesktop, pending, interrupted, overlay, staleVars,
                   sharedVars, channels>>

(* A call of a turn that was stopped, or blocked by the policy for URLs, is  *)
(* refused, and nothing is armed again.                                      *)
DisarmForIt ==
    /\ backend.at = "disarm" /\ Disarm
    /\ \/ /\ backend.decision = "none" => backend.call.turn \notin interrupted
          /\ backend' = [backend EXCEPT !.at = "run"] /\ UNCHANGED overlay
       \/ /\ backend.decision = "none"
          /\ overlay' = Hidden(backend.call.turn) /\ Goto("batch")
    /\ UNCHANGED <<notBackend, notDesktop, pending, interrupted, staleVars, channels>>

(* The end of a call or a decision.  Mutant: a decision leaves it disarmed.  *)
DoneDisarmed ==
    /\ Goto(backend.next)
    /\ IF backend.decision # "none" \/ backend.key = NoKey THEN UNCHANGED sharedVars
       ELSE Arm(backend.key)

Done ==
    /\ Goto(backend.next)
    /\ IF backend.key = NoKey THEN UNCHANGED sharedVars ELSE Arm(backend.key)

Run(decisions) ==
    /\ backend.at = "run" /\ backend.decision \in decisions
    /\ UNCHANGED <<notBackend, turns, up, inbox, interrupted, channels, extras>>
Waiting == backend.decision # "none" => backend.call \in pending
Settled == pending' = pending \ {backend.call}

(* A decision on a call that waits no longer.                                *)
RunNothing ==
    /\ Run({"allow", "decline"}) /\ ~Waiting /\ Done
    /\ UNCHANGED <<pending, overlay, staleVars, physical>>

(* Declined, no permission, no window, a policy, an error, a stale capture,  *)
(* a full queue; the policy for URLs hides the indicator as well.            *)
RunRefused ==
    /\ Run({"none", "allow", "decline"}) /\ Waiting /\ Settled /\ Done
    /\ overlay' \in {overlay, Hidden(backend.call.turn)}
    /\ UNCHANGED <<staleVars, physical>>

RunAsks ==
    /\ Run({"none"}) /\ Done
    /\ pending' = pending \cup {backend.call}
    /\ UNCHANGED <<overlay, staleVars, physical>>

RunObserves ==
    /\ Run({"none", "allow"}) /\ Waiting /\ backend.call.tool = "state"
    /\ Settled /\ Done /\ Refresh(backend.call.window)
    /\ UNCHANGED <<overlay, physical>>

(* The indicator is shown, then the mouse and the keyboard are the agent's,  *)
(* its Escape key too.                                                       *)
RunActs ==
    /\ Run({"none", "allow"}) /\ Waiting /\ backend.call.tool # "state"
    /\ backend.call.tool = "action" => ~NeedsRefresh(backend.call.window)
    /\ backend' = [backend EXCEPT !.at = "acting"] /\ pending' = pending \ {backend.call}
    /\ overlay' = backend.call.turn
    /\ moved' = {backend.call.window} \ {0}
    /\ escape' \in {escape} \cup (IF escape = "up" THEN {"agent"} ELSE {})
    /\ UNCHANGED <<staleVars, sharedVars>>

Acted ==
    /\ backend.at = "acting" /\ Done
    /\ escape' = IF escape = "agent" THEN "up" ELSE escape
    /\ UNCHANGED <<notBackend, turns, up, inbox, pending, interrupted, overlay,
                   staleVars, channels, moved, extras>>

(* After the events, of which at most 64 are handled in a row with those     *)
(* left out here, a command: an answer to a card, which may wait no longer,  *)
(* or the Stop button.                                                       *)
TakeCommand ==
    /\ backend.at = "batch"
    /\ UNCHANGED <<notBackend, up, inbox, pending, interrupted, staleVars, sharedVars,
                   channels, physical>>

TakeDecision ==
    /\ TakeCommand /\ UNCHANGED <<turns, overlay>>
    /\ \E decision \in {"allow", "decline"} :
         \/ /\ UNCHANGED extras
            /\ \E call \in pending :
                 backend' = Handling(IF armed = NoKey THEN "run" ELSE "disarm", call,
                                     decision, armed, "head")
         \/ /\ Counted /\ armed # NoKey
            /\ backend' = Handling("disarm", NoCall, decision, armed, "head")

TakeHalt ==
    /\ TakeCommand /\ Goto("head") /\ Counted
    /\ \E t \in Turns : IF up THEN AskToHalt(t) /\ overlay' = Hidden(t)
                         ELSE UNCHANGED <<turns, overlay>>

(* Nothing for 25 ms; or the connection is made anew.                        *)
NoCommand ==
    /\ backend.at = "batch" /\ Goto("head")
    /\ up' \in {up, TRUE}
    /\ UNCHANGED <<notBackend, turns, inbox, physical, extras, pending,
                   interrupted, overlay, staleVars, sharedVars, channels>>

Backend ==
    \/ ReceiveSignals \/ Disconnected \/ ReceiveCompleted \/ ReceiveCall \/ CheckTarget
    \/ DisarmForIt \/ RunNothing \/ RunRefused \/ RunAsks \/ RunObserves \/ RunActs
    \/ Acted \/ TakeDecision \/ TakeHalt \/ NoCommand

Next == Server \/ User \/ Monitor \/ Backend

Spec == Init /\ [][Next]_vars

-----------------------------------------------------------------------------
(* Properties.                                                               *)

(* The values of the variables, and the limits of the queues and the sets.   *)
Calls == [turn : {0} \cup Turns, tool : Tools, window : {0} \cup Windows]
Keys  == [turn : {0} \cup Turns, window : {0} \cup Windows]

TypeOK ==
    /\ turns \in [Turns -> {"live", "halting", "ended"}] /\ up \in BOOLEAN
    /\ \A i \in DOMAIN inbox : inbox[i].kind \in {"call", "done"} /\ inbox[i].turn \in Turns
    /\ pending \subseteq Calls /\ called \in 0..MaxCalls
    /\ backend \in [at : {"head", "batch", "check", "disarm", "run", "acting"},
                    call : Calls, decision : {"none", "allow", "decline"}, key : Keys,
                    next : {"head", "batch", "check", "disarm", "run", "acting"},
                    touched : SUBSET Windows]
    /\ interrupted \subseteq Turns /\ Cardinality(interrupted) <= MaxInterrupted
    /\ overlay \in {0} \cup Turns /\ swallowed \cup obeyed \subseteq Turns
    /\ stale \subseteq Windows /\ noticed \subseteq Windows
    /\ Cardinality(stale) <= MaxStale /\ allStale \in BOOLEAN /\ extras \in 0..MaxExtras
    /\ passed \in BOOLEAN /\ armed \in Keys
    /\ monitor \in [at : {"idle", "read", "take", "send", "report"}, new : BOOLEAN,
                    key : Keys, wasDown : BOOLEAN, reported : BOOLEAN,
                    by : {"up", "user", "agent"}]
    /\ Len(stops) <= 1 /\ Len(touches) <= 1
    /\ escape \in {"up", "user", "agent"} /\ moved \subseteq Windows

(* Only the user stops a turn: an Escape that the agent types, at whatever   *)
(* moment the monitor looks, is never taken for the user's.                  *)
StopsAreTheUsers == \A i \in DOMAIN stops : stops[i].by = "user"

(* A stop is the user's, and once run_backend has read it, it holds, when    *)
(* the turn has ended and is no longer among interrupted too: the turn acts  *)
(* no more, neither by a call nor by the user's late consent to one, and no  *)
(* approval of it waits.  Not said, for the code does not do it: that the    *)
(* turn acts no more once the user has pressed the key.  Until the head of   *)
(* the loop (backend.rs:3384-3407) the stop waits in its channel, and calls  *)
(* and a consent of the same batch (backend.rs:3410-3529) still act; nor is  *)
(* it said of a stop lost to the full channel, or let go with the set at its *)
(* limit (backend.rs:3905-3908).  docs/parity-matrix.md:87 knows no such     *)
(* exceptions.                                                               *)
StopHolds ==
    /\ StopsAreTheUsers
    /\ \A call \in pending : call.turn \notin obeyed
    /\ backend.at = "acting" => backend.call.turn \notin obeyed

(* What the user did to a window keeps the agent off it until it has looked  *)
(* again, whatever the limit of the set (docs/architecture.md:236): at once  *)
(* for a touch that was reported when the call came.                         *)
ActsOn(w) == backend.at = "acting" /\ backend.call.tool = "action" /\ backend.call.window = w
TouchesAreHonoured ==
    /\ \A w \in noticed : touches = <<w>> \/ (NeedsRefresh(w) /\ ~ActsOn(w))
    /\ \A w \in backend.touched : ~ActsOn(w)

(* "Esc to cancel" is true: while it is shown and no call is in hand, the    *)
(* monitor watches for its turn or has a stop of it already.  It is not when *)
(* the turn is over, or when the stop was lost to the full channel.          *)
StopUnderWay(t) ==
    \/ \E i \in DOMAIN stops : stops[i].turn = t
    \/ monitor.at = "send" /\ monitor.key.turn = t
EscIsWatched ==
    backend.at \in {"head", "batch"} /\ overlay # 0 =>
        \/ armed.turn = overlay \/ StopUnderWay(overlay)
        \/ turns[overlay] = "ended" \/ overlay \in swallowed
=============================================================================
