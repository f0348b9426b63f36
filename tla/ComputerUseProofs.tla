-------------------------- MODULE ComputerUseProofs --------------------------
(***************************************************************************)
(* For any number of turns, windows, calls and signals: a stop is never    *)
(* due to an Escape that the agent types; a turn whose stop the backend    *)
(* has read acts no more, unless the stop is let go at the limit of the    *)
(* set; a window that the user has touched is looked at before the next    *)
(* act; and a turn that "Esc to cancel" is shown for is guarded.           *)
(*                                                                         *)
(* Why the agent's Escape is harmless: it is down while a call acts, the   *)
(* monitor is disarmed then, and a monitor that still holds the turn of    *)
(* before finds the generation passed when it comes to take the turn.      *)
(*                                                                         *)
(* Why "Esc to cancel" is true: what a call or a decision arms when it is  *)
(* through is what was armed before it or its own turn, and a turn has one *)
(* call at a time, so a call that is refused takes the guard off no other. *)
(***************************************************************************)
EXTENDS ComputerUse, SequenceTheorems, FiniteSetTheorems, TLAPS

(* A call is run and acts with the monitor disarmed, and only then is the    *)
(* Escape key the agent's.                                                   *)
Disarmed ==
    /\ backend.at \in {"run", "acting"} => armed = NoKey
    /\ escape = "agent" => backend.at = "acting"

(* What the monitor holds is what is armed unless the generation has passed, *)
(* as it has for a press that was the agent's.                               *)
Snapshot ==
    /\ monitor.at \in {"read", "take"} /\ ~passed => armed = monitor.key
    /\ monitor.at = "take" => monitor.by = "user" \/ (monitor.by = "agent" /\ passed)
    /\ monitor.at = "send" => monitor.by = "user"

(* Without a connection nothing of it is left.                               *)
Down ==
    ~up => /\ pending = {} /\ inbox = <<>> /\ \A t \in Turns : turns[t] = "ended"
           /\ backend.at \in {"head", "batch"} \/ backend.decision # "none"

(* What waits for the user, is about to be run or acts is of no stopped turn.*)
Stopped ==
    /\ \A call \in pending : call.turn \notin interrupted
    /\ backend.at = "run" /\ backend.decision = "none" => backend.call.turn \notin interrupted
    /\ backend.at = "acting" => backend.call.turn \notin interrupted

(* The shapes of the values: a call names a turn, and a window unless it     *)
(* launches; what is armed or taken names a turn.                            *)
Real == [turn : Turns, tool : {"state", "action"}, window : Windows]
            \cup [turn : Turns, tool : {"launch"}, window : {0}]
Held == {NoKey} \cup [turn : Turns, window : {0} \cup Windows]
Events == [kind : {"call"}, turn : Turns, call : Real]
              \cup [kind : {"done"}, turn : Turns, call : {NoCall}]

ServerShape ==
    /\ turns \in [Turns -> {"live", "halting", "ended"}] /\ up \in BOOLEAN
    /\ inbox \in Seq(Events) /\ called \in 0..MaxCalls /\ extras \in 0..MaxExtras

HandShape ==
    /\ backend \in [at : {"head", "batch", "check", "disarm", "run", "acting"},
                    call : {NoCall} \cup Real, decision : {"none", "allow", "decline"},
                    key : Held, next : {"head", "batch"}, touched : SUBSET Windows]
    /\ backend.at \in {"head", "batch"} => backend.decision = "none" /\ backend.call = NoCall
    /\ backend.at \in {"check", "disarm", "run"} /\ backend.decision = "none" => backend.call \in Real
    /\ backend.at = "acting" => backend.call \in Real

TableShape ==
    /\ pending \subseteq Real /\ interrupted \subseteq Turns
    /\ overlay \in {0} \cup Turns /\ swallowed \subseteq Turns /\ obeyed \subseteq Turns
    /\ stale \subseteq Windows /\ noticed \subseteq Windows /\ allStale \in BOOLEAN

MonitorShape ==
    /\ passed \in BOOLEAN /\ armed \in Held
    /\ monitor \in [at : {"idle", "read", "take", "send", "report"}, new : BOOLEAN,
                    key : Held, wasDown : BOOLEAN, reported : BOOLEAN,
                    by : {"up", "user", "agent"}]
    /\ monitor.at \in {"take", "send"} => monitor.key # NoKey
    /\ monitor.at = "report" => monitor.key.window # 0
    /\ escape \in {"up", "user", "agent"} /\ moved \subseteq Windows

Stops == [turn : Turns, by : {"up", "user", "agent"}]
ChannelShape == stops \in Seq(Stops) /\ touches \in Seq(Windows)

Shape == ServerShape /\ HandShape /\ TableShape /\ MonitorShape /\ ChannelShape

IInv == Shape /\ Disarmed /\ Snapshot /\ StopsAreTheUsers /\ Down /\ Stopped

-----------------------------------------------------------------------------
(* About calls, keys and events.                                             *)

LEMMA Zero == 0 \notin Turns /\ 0 \notin Windows
  BY CapacityAssumption DEF Turns, Windows

LEMMA Reals ==
    /\ NoCall \notin Real /\ NoCall.turn = 0
    /\ \A call \in Real :
         /\ call.turn \in Turns /\ call.tool \in Tools
         /\ call.window \in {0} \cup Windows
         /\ call.tool # "launch" => call.window \in Windows
         /\ Key(call.turn, call.window) \in Held
    /\ \A t \in Turns, tool \in Tools, w \in Windows :
         Call(t, tool, IF tool = "launch" THEN 0 ELSE w) \in Real
  BY Zero DEF NoCall, Call, Real, Tools, Key, Held

LEMMA Helds ==
    /\ NoKey \in Held
    /\ \A key \in Held : /\ key.window \in {0} \cup Windows
                         /\ key # NoKey => key.turn \in Turns
  BY DEF Held, NoKey, Key

LEMMA EventsAre ==
    /\ \A e \in Events : e.turn \in Turns /\ (e.kind = "call" => e.call \in Real)
    /\ \A t \in Turns, call \in Real : Event("call", t, call) \in Events
    /\ \A t \in Turns : Event("done", t, NoCall) \in Events
  BY DEF Events, Event

LEMMA Count == IInv /\ Counted => extras' \in 0..MaxExtras
  BY BoundsAssumption DEF Counted, IInv, Shape, ServerShape

LEMMA Sequence ==
    ASSUME NEW S, NEW s \in Seq(S), s # <<>>
    PROVE  Head(s) \in S /\ Tail(s) \in Seq(S)
  OBVIOUS

-----------------------------------------------------------------------------
LEMMA InitIInv == Init => IInv
<1> SUFFICES ASSUME Init PROVE IInv
  OBVIOUS
<1> USE DEF Init, At, Handling
<1>1. ServerShape /\ ChannelShape
  BY BoundsAssumption DEF ServerShape, ChannelShape
<1>2. HandShape /\ TableShape /\ MonitorShape
  BY Helds DEF HandShape, TableShape, MonitorShape
<1>3. Disarmed /\ Snapshot /\ StopsAreTheUsers /\ Down /\ Stopped
  BY DEF Disarmed, Snapshot, StopsAreTheUsers, Down, Stopped
<1> QED
  BY <1>1, <1>2, <1>3 DEF IInv, Shape

LEMMA ServerStep == IInv /\ Server => IInv'
<1> SUFFICES ASSUME IInv, Server PROVE IInv'
  OBVIOUS
<1> USE DEF Server, TurnCalls, TurnEnds, notServer, vars, serverVars, sharedVars, staleVars,
            physical, channels
<1>1. UNCHANGED notServer
  OBVIOUS
<1>2. HandShape' /\ TableShape' /\ MonitorShape' /\ ChannelShape' /\ Disarmed' /\ Snapshot'
      /\ StopsAreTheUsers' /\ Stopped'
  BY <1>1 DEF IInv, Shape, HandShape, TableShape, MonitorShape, ChannelShape, Disarmed,
     Snapshot, StopsAreTheUsers, Stopped, Stops
<1>3. ServerShape'
  <2>1. CASE \E t \in Turns : TurnCalls(t)
    BY <2>1, BoundsAssumption, EventsAre, Reals DEF IInv, Shape, ServerShape
  <2>2. CASE \E t \in Turns : TurnEnds(t)
    BY <2>2, EventsAre DEF IInv, Shape, ServerShape
  <2> QED
    BY <2>1, <2>2
<1>4. Down'
  BY DEF IInv, Shape, Down, ServerShape, HandShape, TableShape
<1> QED
  BY <1>1, <1>2, <1>3, <1>4 DEF IInv, Shape

LEMMA PressEscapeStep == IInv /\ PressEscape => IInv'
<1> SUFFICES ASSUME IInv, PressEscape PROVE IInv'
  OBVIOUS
<1> USE DEF PressEscape, notUser, Counted, vars, serverVars, sharedVars, staleVars,
            physical, channels
<1>1. HandShape' /\ TableShape' /\ ChannelShape' /\ Snapshot' /\ StopsAreTheUsers' /\ Down'
      /\ Stopped'
  BY DEF IInv, Shape, HandShape, TableShape, ChannelShape, Snapshot, StopsAreTheUsers, Down,
     Stopped, Stops
<1>2. ServerShape'
  BY BoundsAssumption, EventsAre, Reals, Sequence DEF IInv, Shape, ServerShape
<1>3. MonitorShape'
  BY Reals, Helds DEF IInv, Shape, MonitorShape, HandShape
<1>4. Disarmed'
  BY DEF IInv, Shape, Disarmed, HandShape, MonitorShape
<1> QED
  BY <1>1, <1>2, <1>3, <1>4 DEF IInv, Shape

LEMMA ReleaseEscapeStep == IInv /\ ReleaseEscape => IInv'
<1> SUFFICES ASSUME IInv, ReleaseEscape PROVE IInv'
  OBVIOUS
<1> USE DEF ReleaseEscape, notUser, vars, serverVars, sharedVars, staleVars, physical,
            channels
<1>1. ServerShape' /\ HandShape' /\ TableShape' /\ ChannelShape' /\ Snapshot'
      /\ StopsAreTheUsers' /\ Down' /\ Stopped'
  BY DEF IInv, Shape, ServerShape, HandShape, TableShape, ChannelShape, Snapshot,
     StopsAreTheUsers, Down, Stopped, Stops
<1>2. MonitorShape'
  BY Reals, Helds DEF IInv, Shape, MonitorShape, HandShape
<1>3. Disarmed'
  BY DEF IInv, Shape, Disarmed, HandShape, MonitorShape
<1> QED
  BY <1>1, <1>2, <1>3 DEF IInv, Shape

LEMMA TouchStep == IInv /\ Touch => IInv'
<1> SUFFICES ASSUME IInv, Touch PROVE IInv'
  OBVIOUS
<1> USE DEF Touch, notUser, Counted, vars, serverVars, sharedVars, staleVars, physical,
            channels
<1>1. HandShape' /\ TableShape' /\ ChannelShape' /\ Disarmed' /\ Snapshot'
      /\ StopsAreTheUsers' /\ Down' /\ Stopped'
  BY DEF IInv, Shape, HandShape, TableShape, ChannelShape, Disarmed, Snapshot,
     StopsAreTheUsers, Down, Stopped, Stops
<1>2. ServerShape'
  BY BoundsAssumption, EventsAre, Reals, Sequence DEF IInv, Shape, ServerShape
<1>3. MonitorShape'
  BY Reals, Helds DEF IInv, Shape, MonitorShape, HandShape
<1> QED
  BY <1>1, <1>2, <1>3 DEF IInv, Shape

LEMMA MonitorReadsStep == IInv /\ MonitorReads => IInv'
<1> SUFFICES ASSUME IInv, MonitorReads PROVE IInv'
  OBVIOUS
<1> USE DEF MonitorReads, notMonitor, vars, serverVars, sharedVars, staleVars, physical,
            channels
<1>1. ServerShape' /\ HandShape' /\ TableShape' /\ ChannelShape' /\ Disarmed'
      /\ StopsAreTheUsers' /\ Down' /\ Stopped'
  BY DEF IInv, Shape, ServerShape, HandShape, TableShape, ChannelShape, Disarmed,
     StopsAreTheUsers, Down, Stopped, Stops
<1>2. MonitorShape'
  BY Reals, Helds DEF IInv, Shape, MonitorShape, HandShape
<1>3. Snapshot'
  BY DEF IInv, Shape, Snapshot, MonitorShape, HandShape, Disarmed
<1> QED
  BY <1>1, <1>2, <1>3 DEF IInv, Shape

LEMMA MonitorSamplesStep == IInv /\ MonitorSamples => IInv'
<1> SUFFICES ASSUME IInv, MonitorSamples PROVE IInv'
  OBVIOUS
<1> USE DEF MonitorSamples, notMonitor, IsDown, IsPress, IsTouch, Asleep, vars, serverVars,
            sharedVars, staleVars, physical, channels
<1>1. ServerShape' /\ HandShape' /\ TableShape' /\ ChannelShape' /\ Disarmed'
      /\ StopsAreTheUsers' /\ Down' /\ Stopped'
  BY DEF IInv, Shape, ServerShape, HandShape, TableShape, ChannelShape, Disarmed,
     StopsAreTheUsers, Down, Stopped, Stops
<1>2. MonitorShape'
  <2>1. CASE monitor.new
    BY <2>1, Helds DEF IInv, Shape, MonitorShape
  <2>2. CASE ~monitor.new /\ IsPress
    BY <2>2 DEF IInv, Shape, MonitorShape
  <2>3. CASE ~monitor.new /\ ~IsPress /\ IsTouch
    BY <2>3 DEF IInv, Shape, MonitorShape
  <2>4. CASE ~monitor.new /\ ~IsPress /\ ~IsTouch
    BY <2>4, Helds DEF IInv, Shape, MonitorShape
  <2> QED
    BY <2>1, <2>2, <2>3, <2>4
<1>3. Snapshot'
  <2>1. /\ UNCHANGED <<armed, passed, escape>> /\ monitor.at = "read"
        /\ monitor \in [at : {"idle", "read", "take", "send", "report"}, new : BOOLEAN,
                        key : Held, wasDown : BOOLEAN, reported : BOOLEAN,
                        by : {"up", "user", "agent"}]
    BY DEF IInv, Shape, MonitorShape
  <2>5. \/ monitor' = [Asleep EXCEPT !.wasDown = IsDown, !.reported = FALSE]
        \/ /\ monitor.key # NoKey /\ escape # "up"
           /\ monitor' = [monitor EXCEPT !.at = "take", !.wasDown = TRUE, !.by = escape]
        \/ monitor' = [(IF IsTouch THEN [monitor EXCEPT !.at = "report"] ELSE Asleep)
                         EXCEPT !.wasDown = IF monitor.key = NoKey THEN @ ELSE IsDown]
    OBVIOUS
  <2> HIDE DEF MonitorSamples, notMonitor, IsDown, IsPress, IsTouch, Asleep, vars, serverVars,
               sharedVars, staleVars, physical, channels
  <2>2. CASE monitor' = [Asleep EXCEPT !.wasDown = IsDown, !.reported = FALSE]
    <3>1. monitor'.at = "idle"
      BY <2>1, <2>2 DEF Asleep
    <3> QED
      BY <3>1 DEF Snapshot
  <2>3. CASE /\ monitor.key # NoKey /\ escape # "up"
             /\ monitor' = [monitor EXCEPT !.at = "take", !.wasDown = TRUE, !.by = escape]
    <3>1. /\ monitor'.at = "take" /\ monitor'.key = monitor.key /\ monitor'.by = escape
          /\ monitor.key # NoKey /\ escape # "up"
      BY <2>1, <2>3
    <3>2. ~passed => armed = monitor.key
      BY <2>1 DEF IInv, Snapshot
    <3>3. escape \in {"up", "user", "agent"} /\ (escape = "agent" => armed = NoKey)
      BY DEF IInv, Shape, MonitorShape, Disarmed
    <3>4. escape = "agent" => passed
      BY <3>1, <3>2, <3>3
    <3>5. escape = "user" \/ (escape = "agent" /\ passed)
      BY <3>1, <3>3, <3>4
    <3> QED
      BY <2>1, <3>1, <3>2, <3>5 DEF Snapshot
  <2>4. CASE monitor' = [(IF IsTouch THEN [monitor EXCEPT !.at = "report"] ELSE Asleep)
                           EXCEPT !.wasDown = IF monitor.key = NoKey THEN @ ELSE IsDown]
    <3>1. monitor'.at \in {"idle", "report"}
      BY <2>1, <2>4 DEF Asleep
    <3> QED
      BY <3>1 DEF Snapshot
  <2> QED
    BY <2>2, <2>3, <2>4, <2>5
<1> QED
  BY <1>1, <1>2, <1>3 DEF IInv, Shape

LEMMA MonitorTakesTurnStep == IInv /\ MonitorTakesTurn => IInv'
<1> SUFFICES ASSUME IInv, MonitorTakesTurn PROVE IInv'
  OBVIOUS
<1> USE DEF MonitorTakesTurn, notMonitor, Asleep, vars, serverVars, sharedVars, staleVars,
            physical, channels
<1>1. ServerShape' /\ HandShape' /\ TableShape' /\ ChannelShape' /\ StopsAreTheUsers'
      /\ Down' /\ Stopped'
  BY DEF IInv, Shape, ServerShape, HandShape, TableShape, ChannelShape, StopsAreTheUsers,
     Down, Stopped, Stops
<1>2. MonitorShape'
  <2>1. /\ passed \in BOOLEAN /\ armed \in Held /\ monitor.at = "take" /\ monitor.key # NoKey
        /\ monitor \in [at : {"idle", "read", "take", "send", "report"}, new : BOOLEAN,
                        key : Held, wasDown : BOOLEAN, reported : BOOLEAN,
                        by : {"up", "user", "agent"}]
        /\ UNCHANGED <<escape, moved>>
        /\ escape \in {"up", "user", "agent"} /\ moved \subseteq Windows
    BY DEF IInv, Shape, MonitorShape
  <2>2. CASE ~passed
    <3>1. armed = monitor.key
      BY <2>1, <2>2 DEF IInv, Snapshot
    <3> QED
      BY <2>1, <2>2, <3>1, Helds DEF MonitorShape
  <2>3. CASE passed
    BY <2>1, <2>3, Helds DEF MonitorShape
  <2> QED
    BY <2>1, <2>2, <2>3
<1>3. Disarmed'
  BY DEF IInv, Shape, Disarmed, HandShape, MonitorShape
<1>4. Snapshot'
  <2>1. /\ monitor.at = "take" /\ passed \in BOOLEAN
        /\ monitor \in [at : {"idle", "read", "take", "send", "report"}, new : BOOLEAN,
                        key : Held, wasDown : BOOLEAN, reported : BOOLEAN,
                        by : {"up", "user", "agent"}]
    BY DEF IInv, Shape, MonitorShape
  <2>2. CASE ~passed
    <3>1. monitor.by = "user"
      BY <2>1, <2>2 DEF IInv, Snapshot
    <3>2. monitor'.at = "send" /\ monitor'.by = monitor.by
      BY <2>1, <2>2
    <3> QED
      BY <3>1, <3>2 DEF Snapshot
  <2>3. CASE passed
    <3>1. monitor'.at = "idle"
      BY <2>1, <2>3
    <3> QED
      BY <3>1 DEF Snapshot
  <2> QED
    BY <2>1, <2>2, <2>3
<1> QED
  BY <1>1, <1>2, <1>3, <1>4 DEF IInv, Shape

LEMMA MonitorSendsStopStep == IInv /\ MonitorSendsStop => IInv'
<1> SUFFICES ASSUME IInv, MonitorSendsStop PROVE IInv'
  OBVIOUS
<1> USE DEF MonitorSendsStop, notMonitor, Asleep, vars, serverVars, sharedVars, staleVars,
            physical, channels
<1>1. ServerShape' /\ HandShape' /\ Disarmed' /\ Down' /\ Stopped'
  BY DEF IInv, Shape, ServerShape, HandShape, Disarmed, Down, Stopped
<1>2. TableShape'
  BY EventsAre, Reals, Helds, Sequence DEF IInv, Shape, TableShape, HandShape, ServerShape,
     MonitorShape, ChannelShape, Stops
<1>3. MonitorShape'
  BY Reals, Helds DEF IInv, Shape, MonitorShape, HandShape
<1>4. ChannelShape'
  <2>1. [turn |-> monitor.key.turn, by |-> monitor.by] \in Stops
    BY Helds DEF IInv, Shape, MonitorShape, Stops
  <2>2. <<[turn |-> monitor.key.turn, by |-> monitor.by]>> \in Seq(Stops)
    BY <2>1
  <2> QED
    BY <2>2 DEF IInv, Shape, ChannelShape
<1>5. Snapshot'
  BY DEF IInv, Shape, Snapshot, MonitorShape, HandShape, Disarmed
<1>6. StopsAreTheUsers'
  BY DEF IInv, Shape, StopsAreTheUsers, ChannelShape, Snapshot, MonitorShape
<1> QED
  BY <1>1, <1>2, <1>3, <1>4, <1>5, <1>6 DEF IInv, Shape

LEMMA MonitorReportsTouchStep == IInv /\ MonitorReportsTouch => IInv'
<1> SUFFICES ASSUME IInv, MonitorReportsTouch PROVE IInv'
  OBVIOUS
<1> USE DEF MonitorReportsTouch, notMonitor, Asleep, vars, serverVars, sharedVars,
            staleVars, physical, channels
<1>1. ServerShape' /\ HandShape' /\ Disarmed' /\ StopsAreTheUsers' /\ Down' /\ Stopped'
  BY DEF IInv, Shape, ServerShape, HandShape, Disarmed, StopsAreTheUsers, Down, Stopped
<1>2. TableShape'
  BY EventsAre, Reals, Helds, Sequence DEF IInv, Shape, TableShape, HandShape, ServerShape,
     MonitorShape, ChannelShape, Stops
<1>3. MonitorShape'
  BY Reals, Helds DEF IInv, Shape, MonitorShape, HandShape
<1>4. ChannelShape'
  <2>1. monitor.key.window \in Windows
    BY Helds DEF IInv, Shape, MonitorShape
  <2>2. <<monitor.key.window>> \in Seq(Windows)
    BY <2>1
  <2> QED
    BY <2>2 DEF IInv, Shape, ChannelShape
<1>5. Snapshot'
  BY DEF IInv, Shape, Snapshot, MonitorShape, HandShape, Disarmed
<1> QED
  BY <1>1, <1>2, <1>3, <1>4, <1>5 DEF IInv, Shape

LEMMA ReceiveSignalsStep == IInv /\ ReceiveSignals => IInv'
<1> SUFFICES ASSUME IInv, ReceiveSignals PROVE IInv'
  OBVIOUS
<1> USE DEF ReceiveSignals, ReceiveTouch, Mark, HandleStop, Forgotten, AskToHalt, Hidden,
            Goto, At, Handling, notBackend, vars, serverVars, sharedVars, staleVars,
            physical, channels
<1>1. MonitorShape' /\ Snapshot'
  BY DEF IInv, Shape, MonitorShape, Snapshot
<1>2. ServerShape'
  BY BoundsAssumption, EventsAre, Reals, Sequence DEF IInv, Shape, ServerShape
<1>3. HandShape'
  BY EventsAre, Reals, Helds, Sequence DEF IInv, Shape, HandShape, ServerShape, TableShape,
     MonitorShape
<1>4. TableShape'
  <2>1. touches # <<>> => Head(touches) \in Windows /\ Tail(touches) \in Seq(Windows)
    BY Sequence DEF IInv, Shape, ChannelShape
  <2>2. stops # <<>> => Head(stops).turn \in Turns
    <3>1. stops # <<>> => Head(stops) \in Stops
      BY Sequence DEF IInv, Shape, ChannelShape
    <3> QED
      BY <3>1 DEF Stops
  <2>3. /\ overlay' \in {0} \cup Turns /\ interrupted' \subseteq Turns
        /\ pending' \subseteq Real
    BY <2>2 DEF IInv, Shape, TableShape
  <2>4. obeyed' \subseteq Turns
    BY <2>2 DEF IInv, Shape, TableShape
  <2> QED
    BY <2>1, <2>3, <2>4 DEF IInv, Shape, TableShape
<1>5. ChannelShape'
  <2>1. touches # <<>> => Head(touches) \in Windows /\ Tail(touches) \in Seq(Windows)
    BY Sequence DEF IInv, Shape, ChannelShape
  <2>2. stops # <<>> => Tail(stops) \in Seq(Stops)
    BY Sequence DEF IInv, Shape, ChannelShape
  <2> QED
    BY <2>1, <2>2 DEF IInv, Shape, ChannelShape
<1>6. Disarmed'
  BY DEF IInv, Shape, Disarmed, HandShape, MonitorShape
<1>7. StopsAreTheUsers'
  BY DEF IInv, Shape, StopsAreTheUsers, ChannelShape, Snapshot, MonitorShape
<1>8. Down'
  BY DEF IInv, Shape, Down, ServerShape, HandShape, TableShape
<1>9. Stopped'
  BY Reals, EventsAre, Sequence DEF IInv, Shape, Stopped, ServerShape, HandShape,
     TableShape, Down
<1> QED
  BY <1>1, <1>2, <1>3, <1>4, <1>5, <1>6, <1>7, <1>8, <1>9 DEF IInv, Shape

LEMMA DisconnectedStep == IInv /\ Disconnected => IInv'
<1> SUFFICES ASSUME IInv, Disconnected PROVE IInv'
  OBVIOUS
<1> USE DEF Disconnected, Counted, Disarm, Arm, Goto, At, Handling, notBackend, vars,
            serverVars, sharedVars, staleVars, physical, channels
<1>1. ChannelShape' /\ StopsAreTheUsers'
  BY DEF IInv, Shape, ChannelShape, StopsAreTheUsers, Stops
<1>2. ServerShape'
  <2>1. turns' \in [Turns -> {"live", "halting", "ended"}] /\ inbox' \in Seq(Events)
    OBVIOUS
  <2>2. up' \in BOOLEAN /\ called' \in 0..MaxCalls /\ extras' \in 0..MaxExtras
    BY Count DEF IInv, Shape, ServerShape
  <2> QED
    BY <2>1, <2>2 DEF ServerShape
<1>3. HandShape'
  BY EventsAre, Reals, Helds, Sequence DEF IInv, Shape, HandShape, ServerShape, TableShape,
     MonitorShape
<1>4. TableShape'
  BY EventsAre, Reals, Helds, Sequence DEF IInv, Shape, TableShape, HandShape, ServerShape,
     MonitorShape, ChannelShape, Stops
<1>5. MonitorShape'
  BY Reals, Helds DEF IInv, Shape, MonitorShape, HandShape
<1>6. Disarmed'
  BY DEF IInv, Shape, Disarmed, HandShape, MonitorShape
<1>7. Snapshot'
  BY DEF IInv, Shape, Snapshot, MonitorShape, HandShape, Disarmed
<1>8. Down'
  BY DEF IInv, Shape, Down, ServerShape, HandShape, TableShape
<1>9. Stopped'
  BY Reals, EventsAre, Sequence DEF IInv, Shape, Stopped, ServerShape, HandShape,
     TableShape, Down
<1> QED
  BY <1>1, <1>2, <1>3, <1>4, <1>5, <1>6, <1>7, <1>8, <1>9 DEF IInv, Shape

LEMMA ReceiveCompletedStep == IInv /\ ReceiveCompleted => IInv'
<1> SUFFICES ASSUME IInv, ReceiveCompleted PROVE IInv'
  OBVIOUS
<1> USE DEF ReceiveCompleted, NextIs, Disarm, Arm, Hidden, notBackend, vars, serverVars,
            sharedVars, staleVars, physical, channels
<1>1. HandShape' /\ ChannelShape' /\ StopsAreTheUsers'
  BY DEF IInv, Shape, HandShape, ChannelShape, StopsAreTheUsers, Stops
<1>2. ServerShape'
  BY BoundsAssumption, EventsAre, Reals, Sequence DEF IInv, Shape, ServerShape
<1>3. TableShape'
  BY EventsAre, Reals, Helds, Sequence DEF IInv, Shape, TableShape, HandShape, ServerShape,
     MonitorShape, ChannelShape, Stops
<1>4. MonitorShape'
  BY Reals, Helds DEF IInv, Shape, MonitorShape, HandShape
<1>5. Disarmed'
  BY DEF IInv, Shape, Disarmed, HandShape, MonitorShape
<1>6. Snapshot'
  BY DEF IInv, Shape, Snapshot, MonitorShape, HandShape, Disarmed
<1>7. Down'
  BY DEF IInv, Shape, Down, ServerShape, HandShape, TableShape
<1>8. Stopped'
  BY Reals, EventsAre, Sequence DEF IInv, Shape, Stopped, ServerShape, HandShape,
     TableShape, Down
<1> QED
  BY <1>1, <1>2, <1>3, <1>4, <1>5, <1>6, <1>7, <1>8 DEF IInv, Shape

LEMMA ReceiveCallStep == IInv /\ ReceiveCall => IInv'
<1> SUFFICES ASSUME IInv, ReceiveCall PROVE IInv'
  OBVIOUS
<1> USE DEF ReceiveCall, NextIs, ReceiveTouch, Mark, Received, Handling, notBackend, vars,
            serverVars, sharedVars, staleVars, physical, channels
<1>1. MonitorShape' /\ Snapshot' /\ StopsAreTheUsers'
  BY DEF IInv, Shape, MonitorShape, Snapshot, StopsAreTheUsers
<1>2. ServerShape'
  BY BoundsAssumption, EventsAre, Reals, Sequence DEF IInv, Shape, ServerShape
<1>3. HandShape'
  BY EventsAre, Reals, Helds, Sequence DEF IInv, Shape, HandShape, ServerShape, TableShape,
     MonitorShape
<1>4. TableShape'
  <2>1. touches # <<>> => Head(touches) \in Windows /\ Tail(touches) \in Seq(Windows)
    BY Sequence DEF IInv, Shape, ChannelShape
  <2> QED
    BY <2>1 DEF IInv, Shape, TableShape
<1>5. ChannelShape'
  <2>1. touches # <<>> => Head(touches) \in Windows /\ Tail(touches) \in Seq(Windows)
    BY Sequence DEF IInv, Shape, ChannelShape
  <2> QED
    BY <2>1 DEF IInv, Shape, ChannelShape
<1>6. Disarmed'
  BY DEF IInv, Shape, Disarmed, HandShape, MonitorShape
<1>7. Down'
  BY DEF IInv, Shape, Down, ServerShape, HandShape, TableShape
<1>8. Stopped'
  BY Reals, EventsAre, Sequence DEF IInv, Shape, Stopped, ServerShape, HandShape,
     TableShape, Down
<1> QED
  BY <1>1, <1>2, <1>3, <1>4, <1>5, <1>6, <1>7, <1>8 DEF IInv, Shape

LEMMA CheckTargetStep == IInv /\ CheckTarget => IInv'
<1> SUFFICES ASSUME IInv, CheckTarget PROVE IInv'
  OBVIOUS
<1> USE DEF CheckTarget, Goto, At, Handling, notBackend, notDesktop, vars, serverVars,
            sharedVars, staleVars, physical, channels
<1>1. ServerShape' /\ TableShape' /\ MonitorShape' /\ ChannelShape' /\ Snapshot'
      /\ StopsAreTheUsers'
  BY DEF IInv, Shape, ServerShape, TableShape, MonitorShape, ChannelShape, Snapshot,
     StopsAreTheUsers, Stops
<1>2. HandShape'
  BY EventsAre, Reals, Helds, Sequence DEF IInv, Shape, HandShape, ServerShape, TableShape,
     MonitorShape
<1>3. Disarmed'
  BY DEF IInv, Shape, Disarmed, HandShape, MonitorShape
<1>4. Down'
  BY DEF IInv, Shape, Down, ServerShape, HandShape, TableShape
<1>5. Stopped'
  BY Reals, EventsAre, Sequence DEF IInv, Shape, Stopped, ServerShape, HandShape,
     TableShape, Down
<1> QED
  BY <1>1, <1>2, <1>3, <1>4, <1>5 DEF IInv, Shape

LEMMA DisarmForItStep == IInv /\ DisarmForIt => IInv'
<1> SUFFICES ASSUME IInv, DisarmForIt PROVE IInv'
  OBVIOUS
<1> USE DEF DisarmForIt, Disarm, Arm, Hidden, Goto, At, Handling, notBackend, notDesktop,
            vars, serverVars, sharedVars, staleVars, physical, channels
<1>1. ServerShape' /\ ChannelShape' /\ StopsAreTheUsers'
  BY DEF IInv, Shape, ServerShape, ChannelShape, StopsAreTheUsers, Stops
<1>2. HandShape'
  <2>1. CASE backend' = [backend EXCEPT !.at = "run"]
    BY <2>1 DEF IInv, Shape, HandShape
  <2>2. CASE backend.decision = "none" /\ Goto("batch")
    BY <2>2, Helds DEF HandShape
  <2> QED
    BY <2>1, <2>2
<1>3. TableShape'
  BY EventsAre, Reals, Helds, Sequence DEF IInv, Shape, TableShape, HandShape, ServerShape,
     MonitorShape, ChannelShape, Stops
<1>4. MonitorShape'
  BY Reals, Helds DEF IInv, Shape, MonitorShape, HandShape
<1>5. Disarmed'
  BY DEF IInv, Shape, Disarmed, HandShape, MonitorShape
<1>6. Snapshot'
  BY DEF IInv, Shape, Snapshot, MonitorShape, HandShape, Disarmed
<1>7. Down'
  BY DEF IInv, Shape, Down, ServerShape, HandShape, TableShape
<1>8. Stopped'
  BY Reals, EventsAre, Sequence DEF IInv, Shape, Stopped, ServerShape, HandShape,
     TableShape, Down
<1> QED
  BY <1>1, <1>2, <1>3, <1>4, <1>5, <1>6, <1>7, <1>8 DEF IInv, Shape

LEMMA RunNothingStep == IInv /\ RunNothing => IInv'
<1> SUFFICES ASSUME IInv, RunNothing PROVE IInv'
  OBVIOUS
<1> USE DEF RunNothing, Run, Done, Arm, Goto, At, Handling, notBackend, vars, serverVars,
            sharedVars, staleVars, physical, channels
<1>1. ServerShape' /\ TableShape' /\ ChannelShape' /\ StopsAreTheUsers'
  BY DEF IInv, Shape, ServerShape, TableShape, ChannelShape, StopsAreTheUsers, Stops
<1>2. HandShape'
  BY EventsAre, Reals, Helds, Sequence DEF IInv, Shape, HandShape, ServerShape, TableShape,
     MonitorShape
<1>3. MonitorShape'
  BY Reals, Helds DEF IInv, Shape, MonitorShape, HandShape
<1>4. Disarmed'
  BY DEF IInv, Shape, Disarmed, HandShape, MonitorShape
<1>5. Snapshot'
  BY DEF IInv, Shape, Snapshot, MonitorShape, HandShape, Disarmed
<1>6. Down'
  BY DEF IInv, Shape, Down, ServerShape, HandShape, TableShape
<1>7. Stopped'
  BY Reals, EventsAre, Sequence DEF IInv, Shape, Stopped, ServerShape, HandShape,
     TableShape, Down
<1> QED
  BY <1>1, <1>2, <1>3, <1>4, <1>5, <1>6, <1>7 DEF IInv, Shape

LEMMA RunRefusedStep == IInv /\ RunRefused => IInv'
<1> SUFFICES ASSUME IInv, RunRefused PROVE IInv'
  OBVIOUS
<1> USE DEF RunRefused, Run, Done, Arm, Waiting, Settled, Hidden, Goto, At, Handling,
            notBackend, vars, serverVars, sharedVars, staleVars, physical, channels
<1>1. ServerShape' /\ ChannelShape' /\ StopsAreTheUsers'
  BY DEF IInv, Shape, ServerShape, ChannelShape, StopsAreTheUsers, Stops
<1>2. HandShape'
  BY EventsAre, Reals, Helds, Sequence DEF IInv, Shape, HandShape, ServerShape, TableShape,
     MonitorShape
<1>3. TableShape'
  BY EventsAre, Reals, Helds, Sequence DEF IInv, Shape, TableShape, HandShape, ServerShape,
     MonitorShape, ChannelShape, Stops
<1>4. MonitorShape'
  BY Reals, Helds DEF IInv, Shape, MonitorShape, HandShape
<1>5. Disarmed'
  BY DEF IInv, Shape, Disarmed, HandShape, MonitorShape
<1>6. Snapshot'
  BY DEF IInv, Shape, Snapshot, MonitorShape, HandShape, Disarmed
<1>7. Down'
  BY DEF IInv, Shape, Down, ServerShape, HandShape, TableShape
<1>8. Stopped'
  BY Reals, EventsAre, Sequence DEF IInv, Shape, Stopped, ServerShape, HandShape,
     TableShape, Down
<1> QED
  BY <1>1, <1>2, <1>3, <1>4, <1>5, <1>6, <1>7, <1>8 DEF IInv, Shape

LEMMA RunAsksStep == IInv /\ RunAsks => IInv'
<1> SUFFICES ASSUME IInv, RunAsks PROVE IInv'
  OBVIOUS
<1> USE DEF RunAsks, Run, Done, Arm, Goto, At, Handling, notBackend, vars, serverVars,
            sharedVars, staleVars, physical, channels
<1>1. ServerShape' /\ ChannelShape' /\ StopsAreTheUsers'
  BY DEF IInv, Shape, ServerShape, ChannelShape, StopsAreTheUsers, Stops
<1>2. HandShape'
  BY EventsAre, Reals, Helds, Sequence DEF IInv, Shape, HandShape, ServerShape, TableShape,
     MonitorShape
<1>3. TableShape'
  BY EventsAre, Reals, Helds, Sequence DEF IInv, Shape, TableShape, HandShape, ServerShape,
     MonitorShape, ChannelShape, Stops
<1>4. MonitorShape'
  BY Reals, Helds DEF IInv, Shape, MonitorShape, HandShape
<1>5. Disarmed'
  BY DEF IInv, Shape, Disarmed, HandShape, MonitorShape
<1>6. Snapshot'
  BY DEF IInv, Shape, Snapshot, MonitorShape, HandShape, Disarmed
<1>7. Down'
  BY DEF IInv, Shape, Down, ServerShape, HandShape, TableShape
<1>8. Stopped'
  BY Reals, EventsAre, Sequence DEF IInv, Shape, Stopped, ServerShape, HandShape,
     TableShape, Down
<1> QED
  BY <1>1, <1>2, <1>3, <1>4, <1>5, <1>6, <1>7, <1>8 DEF IInv, Shape

LEMMA RunObservesStep == IInv /\ RunObserves => IInv'
<1> SUFFICES ASSUME IInv, RunObserves PROVE IInv'
  OBVIOUS
<1> USE DEF RunObserves, Run, Done, Arm, Waiting, Settled, Refresh, Goto, At, Handling,
            notBackend, vars, serverVars, sharedVars, staleVars, physical, channels
<1>1. ServerShape' /\ ChannelShape' /\ StopsAreTheUsers'
  BY DEF IInv, Shape, ServerShape, ChannelShape, StopsAreTheUsers, Stops
<1>2. HandShape'
  BY EventsAre, Reals, Helds, Sequence DEF IInv, Shape, HandShape, ServerShape, TableShape,
     MonitorShape
<1>3. TableShape'
  BY EventsAre, Reals, Helds, Sequence DEF IInv, Shape, TableShape, HandShape, ServerShape,
     MonitorShape, ChannelShape, Stops
<1>4. MonitorShape'
  BY Reals, Helds DEF IInv, Shape, MonitorShape, HandShape
<1>5. Disarmed'
  BY DEF IInv, Shape, Disarmed, HandShape, MonitorShape
<1>6. Snapshot'
  BY DEF IInv, Shape, Snapshot, MonitorShape, HandShape, Disarmed
<1>7. Down'
  BY DEF IInv, Shape, Down, ServerShape, HandShape, TableShape
<1>8. Stopped'
  BY Reals, EventsAre, Sequence DEF IInv, Shape, Stopped, ServerShape, HandShape,
     TableShape, Down
<1> QED
  BY <1>1, <1>2, <1>3, <1>4, <1>5, <1>6, <1>7, <1>8 DEF IInv, Shape

LEMMA RunActsStep == IInv /\ RunActs => IInv'
<1> SUFFICES ASSUME IInv, RunActs PROVE IInv'
  OBVIOUS
<1> USE DEF RunActs, Run, Waiting, Settled, notBackend, vars, serverVars, sharedVars,
            staleVars, physical, channels
<1>1. ServerShape' /\ ChannelShape' /\ Snapshot' /\ StopsAreTheUsers'
  BY DEF IInv, Shape, ServerShape, ChannelShape, Snapshot, StopsAreTheUsers, Stops
<1>2. HandShape'
  BY EventsAre, Reals, Helds, Sequence DEF IInv, Shape, HandShape, ServerShape, TableShape,
     MonitorShape
<1>3. TableShape'
  BY EventsAre, Reals, Helds, Sequence DEF IInv, Shape, TableShape, HandShape, ServerShape,
     MonitorShape, ChannelShape, Stops
<1>4. MonitorShape'
  <2>1. backend.call \in Real
    BY DEF IInv, Shape, HandShape, TableShape
  <2> QED
    BY <2>1, Reals DEF IInv, Shape, MonitorShape
<1>5. Disarmed'
  BY DEF IInv, Shape, Disarmed, HandShape, MonitorShape
<1>6. Down'
  BY DEF IInv, Shape, Down, ServerShape, HandShape, TableShape
<1>7. Stopped'
  BY Reals, EventsAre, Sequence DEF IInv, Shape, Stopped, ServerShape, HandShape,
     TableShape, Down
<1> QED
  BY <1>1, <1>2, <1>3, <1>4, <1>5, <1>6, <1>7 DEF IInv, Shape

LEMMA ActedStep == IInv /\ Acted => IInv'
<1> SUFFICES ASSUME IInv, Acted PROVE IInv'
  OBVIOUS
<1> USE DEF Acted, Done, Arm, Goto, At, Handling, notBackend, vars, serverVars, sharedVars,
            staleVars, physical, channels
<1>1. ServerShape' /\ TableShape' /\ ChannelShape' /\ StopsAreTheUsers'
  BY DEF IInv, Shape, ServerShape, TableShape, ChannelShape, StopsAreTheUsers, Stops
<1>2. HandShape'
  BY EventsAre, Reals, Helds, Sequence DEF IInv, Shape, HandShape, ServerShape, TableShape,
     MonitorShape
<1>3. MonitorShape'
  BY Reals, Helds DEF IInv, Shape, MonitorShape, HandShape
<1>4. Disarmed'
  BY DEF IInv, Shape, Disarmed, HandShape, MonitorShape
<1>5. Snapshot'
  BY DEF IInv, Shape, Snapshot, MonitorShape, HandShape, Disarmed
<1>6. Down'
  BY DEF IInv, Shape, Down, ServerShape, HandShape, TableShape
<1>7. Stopped'
  BY Reals, EventsAre, Sequence DEF IInv, Shape, Stopped, ServerShape, HandShape,
     TableShape, Down
<1> QED
  BY <1>1, <1>2, <1>3, <1>4, <1>5, <1>6, <1>7 DEF IInv, Shape

LEMMA TakeDecisionStep == IInv /\ TakeDecision => IInv'
<1> SUFFICES ASSUME IInv, TakeDecision PROVE IInv'
  OBVIOUS
<1> USE DEF TakeDecision, TakeCommand, Counted, Handling, notBackend, vars, serverVars,
            sharedVars, staleVars, physical, channels
<1>1. TableShape' /\ MonitorShape' /\ ChannelShape' /\ Snapshot' /\ StopsAreTheUsers'
  BY DEF IInv, Shape, TableShape, MonitorShape, ChannelShape, Snapshot, StopsAreTheUsers,
     Stops
<1>2. ServerShape'
  BY BoundsAssumption, EventsAre, Reals, Sequence DEF IInv, Shape, ServerShape
<1>3. HandShape'
  BY EventsAre, Reals, Helds, Sequence DEF IInv, Shape, HandShape, ServerShape, TableShape,
     MonitorShape
<1>4. Disarmed'
  BY DEF IInv, Shape, Disarmed, HandShape, MonitorShape
<1>5. Down'
  BY DEF IInv, Shape, Down, ServerShape, HandShape, TableShape
<1>6. Stopped'
  BY Reals, EventsAre, Sequence DEF IInv, Shape, Stopped, ServerShape, HandShape,
     TableShape, Down
<1> QED
  BY <1>1, <1>2, <1>3, <1>4, <1>5, <1>6 DEF IInv, Shape

LEMMA TakeHaltStep == IInv /\ TakeHalt => IInv'
<1> SUFFICES ASSUME IInv, TakeHalt PROVE IInv'
  OBVIOUS
<1> USE DEF TakeHalt, TakeCommand, Counted, AskToHalt, Hidden, Goto, At, Handling,
            notBackend, vars, serverVars, sharedVars, staleVars, physical, channels
<1>1. MonitorShape' /\ ChannelShape' /\ Snapshot' /\ StopsAreTheUsers'
  BY DEF IInv, Shape, MonitorShape, ChannelShape, Snapshot, StopsAreTheUsers, Stops
<1>2. ServerShape'
  BY BoundsAssumption, EventsAre, Reals, Sequence DEF IInv, Shape, ServerShape
<1>3. HandShape'
  BY EventsAre, Reals, Helds, Sequence DEF IInv, Shape, HandShape, ServerShape, TableShape,
     MonitorShape
<1>4. TableShape'
  BY EventsAre, Reals, Helds, Sequence DEF IInv, Shape, TableShape, HandShape, ServerShape,
     MonitorShape, ChannelShape, Stops
<1>5. Disarmed'
  BY DEF IInv, Shape, Disarmed, HandShape, MonitorShape
<1>6. Down'
  BY DEF IInv, Shape, Down, ServerShape, HandShape, TableShape
<1>7. Stopped'
  BY Reals, EventsAre, Sequence DEF IInv, Shape, Stopped, ServerShape, HandShape,
     TableShape, Down
<1> QED
  BY <1>1, <1>2, <1>3, <1>4, <1>5, <1>6, <1>7 DEF IInv, Shape

LEMMA NoCommandStep == IInv /\ NoCommand => IInv'
<1> SUFFICES ASSUME IInv, NoCommand PROVE IInv'
  OBVIOUS
<1> USE DEF NoCommand, Goto, At, Handling, notBackend, vars, serverVars, sharedVars,
            staleVars, physical, channels
<1>1. TableShape' /\ MonitorShape' /\ ChannelShape' /\ Snapshot' /\ StopsAreTheUsers'
  BY DEF IInv, Shape, TableShape, MonitorShape, ChannelShape, Snapshot, StopsAreTheUsers,
     Stops
<1>2. ServerShape'
  BY BoundsAssumption, EventsAre, Reals, Sequence DEF IInv, Shape, ServerShape
<1>3. HandShape'
  BY EventsAre, Reals, Helds, Sequence DEF IInv, Shape, HandShape, ServerShape, TableShape,
     MonitorShape
<1>4. Disarmed'
  BY DEF IInv, Shape, Disarmed, HandShape, MonitorShape
<1>5. Down'
  BY DEF IInv, Shape, Down, ServerShape, HandShape, TableShape
<1>6. Stopped'
  BY Reals, EventsAre, Sequence DEF IInv, Shape, Stopped, ServerShape, HandShape,
     TableShape, Down
<1> QED
  BY <1>1, <1>2, <1>3, <1>4, <1>5, <1>6 DEF IInv, Shape

-----------------------------------------------------------------------------
LEMMA IInvStep == IInv /\ [Next]_vars => IInv'
<1> SUFFICES ASSUME IInv, [Next]_vars PROVE IInv'
  OBVIOUS
<1>1. CASE Server \/ User \/ Monitor
  BY <1>1, ServerStep, PressEscapeStep, ReleaseEscapeStep, TouchStep, MonitorReadsStep,
     MonitorSamplesStep, MonitorTakesTurnStep, MonitorSendsStopStep, MonitorReportsTouchStep
  DEF User, Monitor
<1>2. CASE Backend
  BY <1>2, ReceiveSignalsStep, DisconnectedStep, ReceiveCompletedStep, ReceiveCallStep,
     CheckTargetStep, DisarmForItStep, RunNothingStep, RunRefusedStep, RunAsksStep,
     RunObservesStep, RunActsStep, ActedStep, TakeDecisionStep, TakeHaltStep, NoCommandStep
  DEF Backend
<1>3. CASE UNCHANGED vars
  <2> USE <1>3 DEF vars, serverVars, sharedVars, staleVars, physical, channels
  <2>1. Shape'
    BY DEF IInv, Shape, ServerShape, HandShape, TableShape, MonitorShape, ChannelShape
  <2>2. Disarmed' /\ Snapshot' /\ StopsAreTheUsers' /\ Down' /\ Stopped'
    BY DEF IInv, Disarmed, Snapshot, StopsAreTheUsers, Down, Stopped
  <2> QED
    BY <2>1, <2>2 DEF IInv
<1> QED
  BY <1>1, <1>2, <1>3 DEF Next

LEMMA IInvHolds == Spec => []IInv
  BY InitIInv, IInvStep, PTL DEF Spec

(* While a call runs or acts the monitor watches for nobody, and the Escape  *)
(* key is the agent's at no other time.                                      *)
THEOREM ActsDisarmed == Spec => []Disarmed
<1>1. IInv => Disarmed
  BY DEF IInv
<1> QED
  BY IInvHolds, <1>1, PTL

-----------------------------------------------------------------------------
(* What the user has touched.  A window that was touched is in the channel   *)
(* of the monitor or must be looked at again, and what a call acts on needs  *)
(* no look; the touches that were known when a call came need one until that *)
(* call is done.                                                             *)
Touched ==
    /\ touches = <<>> \/ \E v \in Windows : touches = <<v>>
    /\ \A w \in noticed : touches = <<w>> \/ NeedsRefresh(w)
    /\ \A w \in backend.touched : NeedsRefresh(w)
    /\ backend.at = "acting" /\ backend.call.tool = "action" => ~NeedsRefresh(backend.call.window)

LEMMA InitTouched == Init => Touched
  BY DEF Init, Touched, At, Handling

(* A touch that is taken in marks its window, and no other loses its mark.   *)
LEMMA TouchTaken ==
    ASSUME IInv, Touched, ReceiveTouch
    PROVE  /\ touches' = <<>> /\ \A w \in noticed : NeedsRefresh(w)'
           /\ \A w : NeedsRefresh(w) => NeedsRefresh(w)'
<1>1. allStale \in BOOLEAN
  BY DEF IInv, Shape, TableShape
<1>2. CASE touches = <<>>
  <2>1. touches' = <<>> /\ \A w : NeedsRefresh(w)' = NeedsRefresh(w)
    BY <1>2 DEF ReceiveTouch, NeedsRefresh
  <2>2. \A w \in noticed : NeedsRefresh(w)
    BY <1>2 DEF Touched
  <2> QED
    BY <2>1, <2>2
<1>3. CASE touches # <<>>
  <2>1. PICK v \in Windows : touches = <<v>>
    BY <1>3 DEF Touched
  <2>2. touches' = <<>> /\ Mark(v)
    BY <1>3, <2>1 DEF ReceiveTouch
  <2>3. NeedsRefresh(v)' /\ \A w : NeedsRefresh(w) => NeedsRefresh(w)'
    BY <1>1, <2>2 DEF Mark, NeedsRefresh
  <2>4. \A w \in noticed : w = v \/ NeedsRefresh(w)
    BY <2>1 DEF Touched
  <2> QED
    BY <2>2, <2>3, <2>4
<1> QED
  BY <1>2, <1>3

LEMMA TouchedStep == IInv /\ Touched /\ [Next]_vars => Touched'
<1> SUFFICES ASSUME IInv, Touched, [Next]_vars PROVE Touched'
  OBVIOUS
<1>1. CASE Server \/ User \/ MonitorReads \/ MonitorSamples \/ MonitorTakesTurn \/ MonitorSendsStop
  <2>1. UNCHANGED <<touches, stale, allStale, noticed, backend>>
    BY <1>1 DEF Server, TurnCalls, TurnEnds, User, PressEscape, ReleaseEscape, Touch,
       MonitorReads, MonitorSamples, MonitorTakesTurn, MonitorSendsStop, notServer, notUser,
       notMonitor, staleVars, channels
  <2> QED
    BY <2>1 DEF Touched, NeedsRefresh
<1>2. CASE MonitorReportsTouch
  <2>1. monitor.key.window \in Windows
    BY <1>2, Helds DEF MonitorReportsTouch, IInv, Shape, MonitorShape
  <2> QED
    BY <1>2, <2>1 DEF MonitorReportsTouch, Touched, NeedsRefresh, notMonitor
<1>3. CASE ReceiveSignals
  BY <1>3, TouchTaken DEF ReceiveSignals, Goto, At, Handling, Touched
<1>4. CASE Disconnected
  BY <1>4 DEF Disconnected, Goto, At, Handling, Touched, channels
<1>5. CASE ReceiveCall
  BY <1>5, TouchTaken DEF ReceiveCall, Received, Handling, Touched
<1>6. CASE RunObserves
  <2>1. backend'.touched = {} /\ backend'.at # "acting" /\ UNCHANGED touches
    BY <1>6 DEF RunObserves, Run, Done, Goto, At, Handling, IInv, Shape, HandShape, channels
  <2>2. \A w \in noticed' : w \in noticed /\ (NeedsRefresh(w) => NeedsRefresh(w)')
    <3>1. noticed' = noticed \ {backend.call.window} /\ allStale' = allStale
          /\ allStale \in BOOLEAN
      BY <1>6 DEF RunObserves, Refresh, IInv, Shape, TableShape
    <3>2. CASE ~allStale
      BY <1>6, <3>1, <3>2 DEF RunObserves, Refresh, NeedsRefresh
    <3>3. CASE allStale
      <4>1. stale' \subseteq stale \cup {backend.call.window}
        BY <1>6, <3>3 DEF RunObserves, Refresh
      <4> QED
        BY <3>1, <3>3, <4>1 DEF NeedsRefresh
    <3> QED
      BY <3>1, <3>2, <3>3
  <2> QED
    BY <2>1, <2>2 DEF Touched
<1>7. CASE RunActs
  BY <1>7 DEF RunActs, Run, Touched, NeedsRefresh, staleVars, channels, IInv, Shape, HandShape
<1>8. CASE ReceiveCompleted \/ CheckTarget \/ DisarmForIt \/ RunNothing \/ RunRefused
           \/ RunAsks \/ Acted \/ TakeDecision \/ TakeHalt \/ NoCommand
  <2>1. UNCHANGED <<touches, stale, allStale, noticed>>
    BY <1>8 DEF ReceiveCompleted, CheckTarget, DisarmForIt, RunNothing, RunRefused, RunAsks,
       Acted, TakeDecision, TakeHalt, NoCommand, Run, TakeCommand, staleVars, channels
  <2>2. backend'.touched \subseteq backend.touched /\ backend'.at # "acting"
    <3>1. CASE ReceiveCompleted
      BY <1>8, <3>1 DEF ReceiveCompleted, NextIs, IInv, Shape, HandShape
    <3>2. CASE CheckTarget \/ DisarmForIt
      BY <3>2 DEF CheckTarget, DisarmForIt, Goto, At, Handling, IInv, Shape, HandShape
    <3>3. CASE RunNothing \/ RunRefused \/ RunAsks \/ Acted
      BY <3>3 DEF RunNothing, RunRefused, RunAsks, Acted, Done, Goto, At, Handling, IInv, Shape,
         HandShape
    <3>4. CASE TakeDecision \/ TakeHalt \/ NoCommand
      <4>1. CASE TakeDecision
        BY <4>1 DEF TakeDecision, Handling
      <4>2. CASE TakeHalt \/ NoCommand
        <5>1. backend' = At("head")
          BY <4>2 DEF TakeHalt, NoCommand, Goto
        <5> QED
          BY <5>1 DEF At, Handling
      <4> QED
        BY <3>4, <4>1, <4>2
    <3> QED
      BY <1>8, <3>1, <3>2, <3>3, <3>4
  <2> QED
    BY <2>1, <2>2 DEF Touched, NeedsRefresh
<1>9. CASE UNCHANGED vars
  BY <1>9 DEF vars, channels, staleVars, Touched, NeedsRefresh
<1> QED
  BY <1>1, <1>2, <1>3, <1>4, <1>5, <1>6, <1>7, <1>8, <1>9 DEF Next, Monitor, Backend

(* What the user did to a window keeps the agent off it until it has looked  *)
(* again, whatever the limit of the set of touched windows.                  *)
THEOREM AgentLooksAgain == Spec => []TouchesAreHonoured
<1>1. IInv /\ Touched => TouchesAreHonoured
  BY DEF IInv, Shape, HandShape, TableShape, Touched, TouchesAreHonoured, ActsOn
<1> QED
  BY IInvHolds, InitTouched, TouchedStep, <1>1, PTL DEF Spec

-----------------------------------------------------------------------------
(* "Esc to cancel" is true, and the sets keep to their limits.               *)

(* The limits, at which the sets start anew and the channels lose.           *)
Sizes ==
    /\ Len(stops) <= 1 /\ Len(touches) <= 1
    /\ IsFiniteSet(interrupted) /\ Cardinality(interrupted) <= MaxInterrupted
    /\ IsFiniteSet(stale) /\ Cardinality(stale) <= MaxStale

(* A turn waits for one call at a time, at one place; its end is true.       *)
Coming(t) == \E i \in DOMAIN inbox : inbox[i].call.turn = t
OneCall ==
    /\ \A i, j \in DOMAIN inbox : inbox[i].call.turn = inbox[j].call.turn
                                    => i = j \/ inbox[i].call.turn = 0
    /\ \A t \in Turns : Coming(t) => backend.call.turn # t /\ \A call \in pending : call.turn # t
    /\ backend.decision = "none" => \A call \in pending : call.turn # backend.call.turn
    /\ \A i \in DOMAIN inbox : inbox[i].kind = "done" => turns[inbox[i].turn] = "ended"

(* What is armed again after a call or a decision is what was armed before   *)
(* it, unless a stop has taken it, or what the call is of.                   *)
InHand == backend.at \in {"check", "disarm", "run", "acting"}
KeyKept ==
    /\ backend.at = "check" => backend.decision = "none"
    /\ InHand /\ backend.decision = "none" => backend.key.turn = backend.call.turn
    /\ backend.at = "disarm" => armed = NoKey \/ armed.turn = backend.key.turn

(* The turn that is watched, or will be when the call or the decision in     *)
(* hand is through.                                                          *)
Guard == IF backend.at \in {"run", "acting"} THEN backend.key.turn ELSE armed.turn
Watched(t) == Guard = t \/ StopUnderWay(t) \/ turns[t] = "ended" \/ t \in swallowed
AllWatched ==
    /\ overlay # 0 => Watched(overlay)
    /\ \A call \in pending : Watched(call.turn)

WInv == Sizes /\ OneCall /\ KeyKept /\ AllWatched

LEMMA TakingIn ==
    ASSUME NEW S, NEW s \in Seq(S), NEW x \in S
    PROVE  /\ Append(s, x) \in Seq(S) /\ DOMAIN Append(s, x) = 1..(Len(s) + 1)
           /\ DOMAIN s = 1..Len(s) /\ Len(s) \in Nat
           /\ Append(s, x)[Len(s) + 1] = x /\ \A i \in 1..Len(s) : Append(s, x)[i] = s[i]
  OBVIOUS

LEMMA TakingOut ==
    ASSUME NEW S, NEW s \in Seq(S), s # <<>>
    PROVE  /\ Len(s) \in Nat \ {0} /\ DOMAIN s = 1..Len(s) /\ Head(s) = s[1]
           /\ DOMAIN Tail(s) = 1..(Len(s) - 1) /\ Len(Tail(s)) = Len(s) - 1
           /\ \A i \in 1..(Len(s) - 1) : Tail(s)[i] = s[i + 1]
  OBVIOUS

(* A set that starts anew when it is full keeps to its limit. *)
LEMMA OneMore ==
    ASSUME NEW S, IsFiniteSet(S), NEW x, NEW n \in Nat, Cardinality(S) < n
    PROVE  IsFiniteSet(S \cup {x}) /\ Cardinality(S \cup {x}) <= n
<1>1. Cardinality(S) \in Nat
  BY FS_CardinalityType
<1>2. /\ IsFiniteSet(S \cup {x})
      /\ Cardinality(S \cup {x}) = IF x \in S THEN Cardinality(S) ELSE Cardinality(S) + 1
  BY FS_AddElement
<1> QED
  BY <1>1, <1>2

LEMMA NoMore ==
    ASSUME NEW S, IsFiniteSet(S), NEW x, NEW n \in Nat, Cardinality(S) <= n
    PROVE  IsFiniteSet(S \ {x}) /\ Cardinality(S \ {x}) <= n
<1>1. IsFiniteSet(S \ {x}) /\ Cardinality(S \ {x}) <= Cardinality(S)
  BY FS_Subset
<1>2. Cardinality(S) \in Nat /\ Cardinality(S \ {x}) \in Nat
  BY <1>1, FS_CardinalityType
<1> QED
  BY <1>1, <1>2

LEMMA NoneOrOne ==
    /\ IsFiniteSet({}) /\ Cardinality({}) = 0
    /\ \A x : IsFiniteSet({} \cup {x}) /\ Cardinality({} \cup {x}) = 1
<1>1. IsFiniteSet({}) /\ Cardinality({}) = 0
  BY FS_EmptySet
<1>2. ASSUME NEW x PROVE IsFiniteSet({x}) /\ Cardinality({x}) = 1
  BY FS_Singleton
<1>3. \A x : {} \cup {x} = {x}
  OBVIOUS
<1> QED
  BY <1>1, <1>2, <1>3

LEMMA MarkSizes ==
    ASSUME Sizes, NEW w, Mark(w)
    PROVE  IsFiniteSet(stale') /\ Cardinality(stale') <= MaxStale
<1>1. MaxStale \in Nat
  BY CapacityAssumption
<1>2. CASE allStale
  <2>1. stale' = stale \ {w}
    BY <1>2 DEF Mark
  <2> QED
    BY <1>1, <2>1, NoMore DEF Sizes
<1>3. CASE ~allStale /\ w \in stale
  <2>1. stale' = stale
    BY <1>3 DEF Mark
  <2> QED
    BY <2>1 DEF Sizes
<1>4. CASE ~allStale /\ w \notin stale /\ Cardinality(stale) < MaxStale
  <2>1. stale' = stale \cup {w}
    BY <1>4 DEF Mark
  <2> QED
    BY <1>1, <1>4, <2>1, OneMore DEF Sizes
<1>5. CASE ~allStale /\ w \notin stale /\ ~(Cardinality(stale) < MaxStale)
  <2>1. stale' = {}
    BY <1>5 DEF Mark
  <2> QED
    BY <1>1, <2>1, NoneOrOne
<1> QED
  BY <1>2, <1>3, <1>4, <1>5

LEMMA RefreshSizes ==
    ASSUME Sizes, NEW w, Refresh(w)
    PROVE  IsFiniteSet(stale') /\ Cardinality(stale') <= MaxStale
<1>1. MaxStale \in Nat /\ MaxStale >= 1
  BY CapacityAssumption
<1>2. Cardinality(stale) \in Nat
  BY FS_CardinalityType DEF Sizes
<1>3. CASE ~allStale
  <2>1. stale' = stale \ {w}
    BY <1>3 DEF Refresh
  <2> QED
    BY <1>1, <2>1, NoMore DEF Sizes
<1>4. CASE allStale /\ Cardinality(stale) >= MaxStale
  <2>1. stale' = {} \cup {w}
    BY <1>4 DEF Refresh
  <2> QED
    BY <1>1, <2>1, NoneOrOne
<1>5. CASE allStale /\ ~(Cardinality(stale) >= MaxStale)
  <2>1. stale' = stale \cup {w}
    BY <1>5 DEF Refresh
  <2>2. Cardinality(stale) < MaxStale
    BY <1>1, <1>2, <1>5
  <2> QED
    BY <1>1, <2>1, <2>2, OneMore DEF Sizes
<1> QED
  BY <1>3, <1>4, <1>5

LEMMA TouchSizes ==
    ASSUME IInv, Sizes, ReceiveTouch
    PROVE  /\ Len(touches') <= 1
           /\ IsFiniteSet(stale') /\ Cardinality(stale') <= MaxStale
<1>1. CASE touches = <<>>
  BY <1>1 DEF ReceiveTouch, Sizes
<1>2. CASE touches # <<>>
  <2>1. touches' = Tail(touches) /\ Mark(Head(touches)) /\ touches \in Seq(Windows)
    BY <1>2 DEF ReceiveTouch, IInv, Shape, ChannelShape
  <2>2. Len(touches) \in Nat \ {0} /\ Len(touches') = Len(touches) - 1
    BY <1>2, <2>1, TakingOut
  <2> QED
    BY <2>1, <2>2, MarkSizes DEF Sizes
<1> QED
  BY <1>1, <1>2

LEMMA StopSizes ==
    ASSUME Sizes, NEW t, HandleStop(t)
    PROVE  IsFiniteSet(interrupted') /\ Cardinality(interrupted') <= MaxInterrupted
<1>1. MaxInterrupted \in Nat /\ MaxInterrupted >= 1 /\ Cardinality(interrupted) \in Nat
  BY CapacityAssumption, FS_CardinalityType DEF Sizes
<1>2. CASE Cardinality(interrupted) >= MaxInterrupted
  <2>1. interrupted' = {} \cup {t}
    BY <1>2 DEF HandleStop, Forgotten
  <2> QED
    BY <1>1, <2>1, NoneOrOne
<1>3. CASE Cardinality(interrupted) < MaxInterrupted
  <2>1. interrupted' = interrupted \cup {t}
    BY <1>1, <1>3 DEF HandleStop, Forgotten
  <2> QED
    BY <1>1, <1>3, <2>1, OneMore DEF Sizes
<1> QED
  BY <1>1, <1>2, <1>3

LEMMA SizesStep == IInv /\ Sizes /\ [Next]_vars => Sizes'
<1> SUFFICES ASSUME IInv, Sizes, [Next]_vars PROVE Sizes'
  OBVIOUS
<1> USE DEF vars, serverVars, sharedVars, staleVars, physical, channels
<1>1. CASE UNCHANGED <<stops, touches, interrupted, stale>>
  BY <1>1 DEF Sizes
<1>2. CASE MonitorSendsStop
  <2>1. UNCHANGED <<touches, interrupted, stale>>
    BY <1>2 DEF MonitorSendsStop, notMonitor
  <2>2. stops' = stops \/ \E stop : stops' = <<stop>>
    BY <1>2 DEF MonitorSendsStop
  <2>3. Len(stops') <= 1
    <3>1. CASE stops' = stops
      BY <3>1 DEF Sizes
    <3>2. CASE \E stop : stops' = <<stop>>
      BY <3>2
    <3> QED
      BY <2>2, <3>1, <3>2
  <2> QED
    BY <2>1, <2>3 DEF Sizes
<1>3. CASE MonitorReportsTouch
  <2>1. UNCHANGED <<stops, interrupted, stale>>
    BY <1>3 DEF MonitorReportsTouch, notMonitor
  <2>2. touches' = touches \/ \E v : touches' = <<v>>
    BY <1>3 DEF MonitorReportsTouch
  <2>3. CASE touches' = touches
    BY <2>1, <2>3 DEF Sizes
  <2>4. CASE \E v : touches' = <<v>>
    <3>1. Len(touches') <= 1
      BY <2>4
    <3> QED
      BY <2>1, <3>1 DEF Sizes
  <2> QED
    BY <2>2, <2>3, <2>4
<1>4. CASE ReceiveSignals
  <2>1. /\ Len(touches') <= 1
        /\ IsFiniteSet(stale') /\ Cardinality(stale') <= MaxStale
    BY <1>4, TouchSizes DEF ReceiveSignals
  <2>2. CASE stops = <<>>
    BY <1>4, <2>1, <2>2 DEF ReceiveSignals, Sizes
  <2>3. CASE stops # <<>>
    <3>1. HandleStop(Head(stops).turn) /\ stops' = Tail(stops) /\ stops \in Seq(Stops)
      BY <1>4, <2>3 DEF ReceiveSignals, IInv, Shape, ChannelShape
    <3>2. Len(stops) \in Nat \ {0} /\ Len(stops') = Len(stops) - 1
      BY <2>3, <3>1, TakingOut
    <3>3. IsFiniteSet(interrupted') /\ Cardinality(interrupted') <= MaxInterrupted
      BY <3>1, StopSizes
    <3>4. Len(stops') <= 1
      BY <3>2 DEF Sizes
    <3> QED
      BY <2>1, <3>3, <3>4 DEF Sizes
  <2> QED
    BY <2>2, <2>3
<1>5. CASE Disconnected
  <2>1. UNCHANGED <<stops, touches>> /\ interrupted' = {} /\ stale' = {}
    BY <1>5 DEF Disconnected
  <2>2. 0 <= MaxInterrupted /\ 0 <= MaxStale
    BY CapacityAssumption
  <2> QED
    BY <2>1, <2>2, NoneOrOne DEF Sizes
<1>6. CASE ReceiveCompleted
  <2>1. UNCHANGED <<stops, touches, stale>> /\ \E t : interrupted' = interrupted \ {t}
    BY <1>6 DEF ReceiveCompleted
  <2>2. MaxInterrupted \in Nat
    BY CapacityAssumption
  <2> QED
    BY <2>1, <2>2, NoMore DEF Sizes
<1>7. CASE ReceiveCall
  BY <1>7, TouchSizes DEF ReceiveCall, Sizes
<1>8. CASE RunObserves
  <2>1. UNCHANGED <<stops, touches, interrupted>> /\ Refresh(backend.call.window)
    BY <1>8 DEF RunObserves, Run
  <2> QED
    BY <2>1, RefreshSizes DEF Sizes
<1>9. CASE Server \/ User \/ MonitorReads \/ MonitorSamples \/ MonitorTakesTurn
  <2>1. UNCHANGED <<stops, touches, interrupted, stale>>
    BY <1>9 DEF Server, TurnCalls, TurnEnds, User, PressEscape, ReleaseEscape, Touch,
       MonitorReads, MonitorSamples, MonitorTakesTurn, notServer, notUser, notMonitor
  <2> QED
    BY <1>1, <2>1
<1>10. CASE CheckTarget \/ DisarmForIt \/ RunNothing \/ RunRefused \/ RunAsks \/ RunActs
            \/ Acted \/ TakeDecision \/ TakeHalt \/ NoCommand
  <2>1. UNCHANGED <<stops, touches, interrupted, stale>>
    BY <1>10 DEF CheckTarget, DisarmForIt, RunNothing, RunRefused, RunAsks, RunActs, Run, Acted,
       TakeDecision, TakeHalt, TakeCommand, NoCommand
  <2> QED
    BY <1>1, <2>1
<1> QED
  BY <1>1, <1>2, <1>3, <1>4, <1>5, <1>6, <1>7, <1>8, <1>9, <1>10 DEF Next, Monitor, Backend

-----------------------------------------------------------------------------
(* One call of a turn at a time.                                             *)

LEMMA Ends == IInv /\ [Next]_vars => \A t \in Turns : turns[t] = "ended" => turns'[t] = "ended"
<1> SUFFICES ASSUME IInv, [Next]_vars, NEW t \in Turns, turns[t] = "ended" PROVE turns'[t] = "ended"
  OBVIOUS
<1>1. CASE UNCHANGED turns
  BY <1>1
<1>2. CASE Server
  BY <1>2 DEF Server, TurnCalls, TurnEnds, notServer, IInv, Shape, ServerShape
<1>3. CASE User \/ Monitor
  BY <1>1, <1>3 DEF User, PressEscape, ReleaseEscape, Touch, notUser, Monitor, MonitorReads, MonitorSamples,
     MonitorTakesTurn, MonitorSendsStop, MonitorReportsTouch, notMonitor, serverVars
<1>4. CASE ReceiveSignals \/ TakeHalt
  <2>1. ASSUME NEW u, AskToHalt(u) PROVE turns'[t] = "ended"
    BY <2>1 DEF AskToHalt, IInv, Shape, ServerShape
  <2> QED
    BY <1>1, <1>4, <2>1 DEF ReceiveSignals, HandleStop, TakeHalt
<1>5. CASE Disconnected
  BY <1>5 DEF Disconnected
<1>6. CASE ReceiveCompleted \/ ReceiveCall \/ CheckTarget \/ DisarmForIt \/ RunNothing \/ RunRefused
           \/ RunAsks \/ RunObserves \/ RunActs \/ Acted \/ TakeDecision \/ NoCommand
  BY <1>1, <1>6 DEF ReceiveCompleted, ReceiveCall, CheckTarget, DisarmForIt, RunNothing, RunRefused,
     RunAsks, RunObserves, RunActs, Run, Acted, TakeDecision, NoCommand, notDesktop
<1>7. CASE UNCHANGED vars
  BY <1>1, <1>7 DEF vars, serverVars
<1> QED
  BY <1>2, <1>3, <1>4, <1>5, <1>6, <1>7 DEF Next, Backend

LEMMA InboxIs ==
    ASSUME IInv
    PROVE  /\ inbox \in Seq(Events)
           /\ DOMAIN inbox = 1..Len(inbox) /\ Len(inbox) \in Nat
           /\ \A i \in DOMAIN inbox : /\ inbox[i] \in Events /\ inbox[i].turn \in Turns
                                      /\ inbox[i].kind = "done" => inbox[i].call.turn = 0
  BY EventsAre, Reals DEF IInv, Shape, ServerShape, Events

(* The steps that leave the inbox alone. *)
LEMMA SameInbox ==
    ASSUME IInv, OneCall, [Next]_vars, UNCHANGED inbox, pending' \subseteq pending,
           \/ backend'.call = backend.call /\ backend'.decision = backend.decision
           \/ backend'.call = NoCall
           \/ backend'.call \in pending /\ backend'.decision # "none"
    PROVE  OneCall'
<1>1. \A t : Coming(t)' <=> Coming(t)
  BY DEF Coming
<1>2. \A i \in DOMAIN inbox : inbox[i].kind = "done" => turns'[inbox[i].turn] = "ended"
  BY Ends, InboxIs DEF OneCall
<1>3. \A call \in pending : call.turn \in Turns /\ call.turn # 0
  BY Reals, Zero DEF IInv, Shape, TableShape
<1>4. backend'.decision = "none" => \A call \in pending' : call.turn # backend'.call.turn
  BY <1>3, Reals DEF OneCall
<1>5. \A t \in Turns : Coming(t) => backend'.call.turn # t /\ \A call \in pending' : call.turn # t
  BY Reals, Zero DEF OneCall
<1> QED
  BY <1>1, <1>2, <1>4, <1>5 DEF OneCall

(* The first event is taken. *)
LEMMA FirstTaken ==
    ASSUME IInv, OneCall, [Next]_vars, inbox # <<>>, inbox' = Tail(inbox)
    PROVE  /\ \A i, j \in DOMAIN inbox' : inbox'[i].call.turn = inbox'[j].call.turn
                                            => i = j \/ inbox'[i].call.turn = 0
           /\ \A t : Coming(t)' => Coming(t)
           /\ Head(inbox).call.turn \in Turns => Coming(Head(inbox).call.turn)
           /\ \A t \in Turns : Coming(t)' => t # Head(inbox).call.turn
           /\ \A i \in DOMAIN inbox' : inbox'[i].kind = "done" => turns'[inbox'[i].turn] = "ended"
<1>1. /\ Len(inbox) \in Nat \ {0} /\ DOMAIN inbox = 1..Len(inbox) /\ Head(inbox) = inbox[1]
      /\ DOMAIN inbox' = 1..(Len(inbox) - 1)
      /\ \A i \in 1..(Len(inbox) - 1) : inbox'[i] = inbox[i + 1]
  BY InboxIs, TakingOut
<1>2. \A i \in DOMAIN inbox' : i + 1 \in DOMAIN inbox /\ inbox'[i] = inbox[i + 1] /\ i + 1 # 1 /\ i \in Int
  BY <1>1
<1>3. 1 \in DOMAIN inbox
  BY <1>1
<1>4. \A i, j \in DOMAIN inbox' : inbox'[i].call.turn = inbox'[j].call.turn
                                    => i = j \/ inbox'[i].call.turn = 0
  <2> SUFFICES ASSUME NEW i \in DOMAIN inbox', NEW j \in DOMAIN inbox',
                      inbox'[i].call.turn = inbox'[j].call.turn, inbox'[i].call.turn # 0
               PROVE  i = j
    OBVIOUS
  <2>1. i + 1 = j + 1
    BY <1>2 DEF OneCall
  <2> QED
    BY <1>2, <2>1
<1>5. \A t : Coming(t)' => Coming(t)
  BY <1>2 DEF Coming
<1>6. Coming(Head(inbox).call.turn)
  BY <1>1, <1>3 DEF Coming
<1>7. \A t \in Turns : Coming(t)' => t # Head(inbox).call.turn
  BY <1>1, <1>2, <1>3, Zero DEF Coming, OneCall
<1>8. \A i \in DOMAIN inbox' : inbox'[i].kind = "done" => turns'[inbox'[i].turn] = "ended"
  BY <1>2, Ends, InboxIs DEF OneCall
<1> QED
  BY <1>4, <1>5, <1>6, <1>7, <1>8

LEMMA ServerOneCall ==
    ASSUME IInv, OneCall, Server
    PROVE  OneCall'
<1>1. UNCHANGED <<backend, pending>> /\ Server
  BY DEF Server, TurnCalls, TurnEnds, notServer
<1>2. [Next]_vars
  BY DEF Next
<1>3. ASSUME NEW t \in Turns, NEW e \in Events, inbox' = Append(inbox, e),
             e.kind = "done" => turns'[e.turn] = "ended",
             e.call.turn = 0 \/ (e.call.turn = t /\ ~Waits(t))
      PROVE  OneCall'
  <2>1. /\ Len(inbox) \in Nat /\ DOMAIN inbox = 1..Len(inbox) /\ DOMAIN inbox' = 1..(Len(inbox) + 1)
        /\ inbox'[Len(inbox) + 1] = e /\ \A i \in 1..Len(inbox) : inbox'[i] = inbox[i]
    BY <1>3, InboxIs, TakingIn
  <2>2. \A i \in DOMAIN inbox' : \/ i \in DOMAIN inbox /\ inbox'[i] = inbox[i]
                                 \/ i = Len(inbox) + 1 /\ inbox'[i] = e
    BY <2>1
  <2>3. e.call.turn # 0 => \A i \in DOMAIN inbox : inbox[i].call.turn # e.call.turn
    BY <1>3 DEF Waits
  <2>4. \A i, j \in DOMAIN inbox' : inbox'[i].call.turn = inbox'[j].call.turn
                                      => i = j \/ inbox'[i].call.turn = 0
    BY <2>2, <2>3 DEF OneCall
  <2>5. \A u \in Turns : Coming(u)' => Coming(u) \/ (u = t /\ ~Waits(t))
    BY <1>3, <2>2, Zero DEF Coming
  <2>6. \A i \in DOMAIN inbox' : inbox'[i].kind = "done" => turns'[inbox'[i].turn] = "ended"
    BY <1>2, <1>3, <2>2, Ends, InboxIs DEF OneCall
  <2>7. \A u \in Turns : Coming(u)' => backend.call.turn # u /\ \A call \in pending : call.turn # u
    BY <2>5 DEF OneCall, Waits
  <2> QED
    BY <1>1, <2>4, <2>6, <2>7 DEF OneCall
<1>4. CASE \E t \in Turns : TurnCalls(t)
  <2>1. PICK t \in Turns, tool \in Tools, w \in Windows :
           /\ ~Waits(t)
           /\ inbox' = Append(inbox, Event("call", t, Call(t, tool, IF tool = "launch" THEN 0 ELSE w)))
    BY <1>4 DEF TurnCalls
  <2> DEFINE call == Call(t, tool, IF tool = "launch" THEN 0 ELSE w)
  <2>2. Event("call", t, call) \in Events
    BY Reals, EventsAre
  <2>3. Event("call", t, call).kind = "call" /\ Event("call", t, call).call.turn = t
    BY DEF Event, Call
  <2> QED
    BY <1>3, <2>1, <2>2, <2>3
<1>5. CASE \E t \in Turns : TurnEnds(t)
  <2>1. PICK t \in Turns : TurnEnds(t)
    BY <1>5
  <2>2. inbox' = Append(inbox, Event("done", t, NoCall)) /\ turns'[t] = "ended"
    BY <2>1 DEF TurnEnds, IInv, Shape, ServerShape
  <2>3. /\ Event("done", t, NoCall) \in Events /\ Event("done", t, NoCall).turn = t
        /\ Event("done", t, NoCall).call.turn = 0
    BY EventsAre, Reals DEF Event
  <2> QED
    BY <1>3, <2>2, <2>3
<1> QED
  BY <1>4, <1>5 DEF Server

LEMMA OneCallStep == IInv /\ OneCall /\ [Next]_vars => OneCall'
<1> SUFFICES ASSUME IInv, OneCall, [Next]_vars PROVE OneCall'
  OBVIOUS
<1>1. CASE Server
  BY <1>1, ServerOneCall
<1>2. CASE User \/ Monitor \/ UNCHANGED vars
  <2>1. UNCHANGED <<inbox, backend, pending>>
    BY <1>2 DEF User, PressEscape, ReleaseEscape, Touch, notUser, Monitor, MonitorReads, MonitorSamples,
       MonitorTakesTurn, MonitorSendsStop, MonitorReportsTouch, notMonitor, serverVars, vars
  <2> QED
    BY <2>1, SameInbox
<1>3. CASE ReceiveSignals \/ TakeHalt \/ NoCommand
  <2>1. UNCHANGED inbox /\ pending' \subseteq pending /\ backend'.call = NoCall
    <3>1. CASE ReceiveSignals
      BY <3>1 DEF ReceiveSignals, HandleStop, Goto, At, Handling
    <3>2. CASE TakeHalt \/ NoCommand
      <4>1. UNCHANGED <<inbox, pending>> /\ backend' = At("head")
        BY <3>2 DEF TakeHalt, TakeCommand, NoCommand, Goto
      <4> QED
        BY <4>1 DEF At, Handling
    <3> QED
      BY <1>3, <3>1, <3>2
  <2> QED
    BY <2>1, SameInbox
<1>4. CASE CheckTarget \/ DisarmForIt
  <2>1. UNCHANGED <<inbox, pending>>
    BY <1>4 DEF CheckTarget, DisarmForIt, notDesktop
  <2>2. \/ backend'.call = backend.call /\ backend'.decision = backend.decision
        \/ backend'.call = NoCall
    BY <1>4 DEF CheckTarget, DisarmForIt, Goto, At, Handling, IInv, Shape, HandShape
  <2> QED
    BY <2>1, <2>2, SameInbox
<1>5. CASE RunNothing \/ RunRefused \/ RunObserves \/ Acted
  <2>1. UNCHANGED inbox /\ pending' \subseteq pending
    BY <1>5 DEF RunNothing, RunRefused, RunObserves, Run, Settled, Acted
  <2>2. backend'.call = NoCall
    BY <1>5 DEF RunNothing, RunRefused, RunObserves, Acted, Done, Goto, At, Handling
  <2> QED
    BY <2>1, <2>2, SameInbox
<1>6. CASE RunActs
  <2>1. UNCHANGED inbox /\ pending' \subseteq pending
    BY <1>6 DEF RunActs, Run
  <2>2. backend'.call = backend.call /\ backend'.decision = backend.decision
    BY <1>6 DEF RunActs, IInv, Shape, HandShape
  <2> QED
    BY <2>1, <2>2, SameInbox
<1>7. CASE TakeDecision
  <2>1. UNCHANGED <<inbox, pending>>
    BY <1>7 DEF TakeDecision, TakeCommand
  <2>2. backend'.call = NoCall \/ (backend'.call \in pending /\ backend'.decision # "none")
    BY <1>7 DEF TakeDecision, Handling
  <2> QED
    BY <2>1, <2>2, SameInbox
<1>8. CASE RunAsks
  <2>1. UNCHANGED <<inbox, turns>> /\ pending' = pending \cup {backend.call} /\ backend'.call = NoCall
        /\ backend.decision = "none" /\ backend.at = "run"
    BY <1>8 DEF RunAsks, Run, Done, Goto, At, Handling
  <2>2. \A call \in pending' : call.turn \in Turns
    BY <2>1, Reals DEF IInv, Shape, TableShape, HandShape
  <2>3. \A t : Coming(t)' <=> Coming(t)
    BY <2>1 DEF Coming
  <2>4. \A t \in Turns : Coming(t) => backend'.call.turn # t /\ \A call \in pending' : call.turn # t
    BY <2>1, Reals, Zero DEF OneCall
  <2>5. \A call \in pending' : call.turn # backend'.call.turn
    BY <2>1, <2>2, Reals, Zero
  <2> QED
    BY <2>1, <2>3, <2>4, <2>5 DEF OneCall
<1>9. CASE ReceiveCompleted
  <2>1. UNCHANGED <<backend, pending>> /\ inbox # <<>> /\ inbox' = Tail(inbox)
    BY <1>9 DEF ReceiveCompleted, NextIs
  <2>2. \A t \in Turns : Coming(t)' => backend'.call.turn # t /\ \A call \in pending' : call.turn # t
    BY <2>1, FirstTaken DEF OneCall
  <2>3. backend'.decision = "none" => \A call \in pending' : call.turn # backend'.call.turn
    BY <2>1 DEF OneCall
  <2> QED
    BY <2>1, <2>2, <2>3, FirstTaken DEF OneCall
<1>10. CASE ReceiveCall
  <2>1. /\ UNCHANGED pending /\ inbox # <<>> /\ inbox' = Tail(inbox) /\ Head(inbox).kind = "call"
        /\ backend'.call = Head(inbox).call
    BY <1>10 DEF ReceiveCall, NextIs, Received, Handling
  <2>2. Head(inbox) \in Events /\ Head(inbox).call \in Real
    BY <2>1, InboxIs, EventsAre, Sequence
  <2>3. Head(inbox).call.turn \in Turns
    BY <2>2, Reals
  <2>4. \A call \in pending' : call.turn # backend'.call.turn
    BY <2>1, <2>3, FirstTaken DEF OneCall
  <2>5. \A t \in Turns : Coming(t)' => backend'.call.turn # t /\ \A call \in pending' : call.turn # t
    BY <2>1, FirstTaken DEF OneCall
  <2> QED
    BY <2>1, <2>4, <2>5, FirstTaken DEF OneCall
<1>11. CASE Disconnected
  <2>1. inbox' = <<>> /\ pending' = {}
    BY <1>11 DEF Disconnected
  <2>2. \A t : ~Coming(t)'
    BY <2>1 DEF Coming
  <2> QED
    BY <2>1, <2>2 DEF OneCall
<1> QED
  BY <1>1, <1>2, <1>3, <1>4, <1>5, <1>6, <1>7, <1>8, <1>9, <1>10, <1>11 DEF Next, Backend

-----------------------------------------------------------------------------
(* A stop that has been read holds.  While its turn is among interrupted, no *)
(* call of it waits or acts (Stopped); it leaves the set, unless the set     *)
(* starts anew, only when the turn's end is taken from the inbox, and by     *)
(* then no call of it is anywhere, and none comes.                           *)
Closing ==
    \A i, j \in DOMAIN inbox :
       inbox[i].kind = "done" /\ i < j => inbox[j].call.turn # inbox[i].turn
Closed(t) == turns[t] = "ended" /\ ~Waits(t)
Heeded == \A t \in obeyed : t \in interrupted \/ Closed(t)

LEMMA IdleHand ==
    \A place : At(place).at = place /\ At(place).call = NoCall /\ At(place).decision = "none"
  BY DEF At, Handling

LEMMA WaitsWhere ==
    \A t : Waits(t) <=> Coming(t) \/ backend.call.turn = t \/ \E call \in pending : call.turn = t
  BY DEF Waits, Coming

(* A turn that no call of waits makes one only by itself.                    *)
LEMMA NoneComes ==
    ASSUME IInv, OneCall, [Next]_vars, NEW t \in Turns, ~Waits(t), turns[t] = "ended"
    PROVE  ~Waits(t)'
<1>1. ~Coming(t) /\ backend.call.turn # t /\ (\A call \in pending : call.turn # t) /\ t # 0
  BY WaitsWhere, Zero
<1>2. SUFFICES ~Coming(t)' /\ backend'.call.turn # t /\ \A call \in pending' : call.turn # t
  BY DEF Waits, Coming
<1>3. ASSUME ~Coming(t)', pending' \subseteq pending \cup {backend.call},
             backend'.call \in {NoCall, backend.call} \cup pending
      PROVE  ~Coming(t)' /\ backend'.call.turn # t /\ \A call \in pending' : call.turn # t
  BY <1>1, <1>3, Reals
<1>4. ASSUME UNCHANGED inbox PROVE ~Coming(t)'
  BY <1>1, <1>4 DEF Coming
<1>5. CASE Server
  <2>1. UNCHANGED <<backend, pending>>
    BY <1>5 DEF Server, TurnCalls, TurnEnds, notServer
  <2>2. PICK u \in Turns, e \in Events : inbox' = Append(inbox, e) /\ e.call.turn \in {0, u} /\ u # t
    <3>1. CASE \E u \in Turns : TurnCalls(u)
      <4>1. PICK u \in Turns, tool \in Tools, w \in Windows :
               /\ turns[u] \in {"live", "halting"}
               /\ inbox' = Append(inbox, Event("call", u, Call(u, tool, IF tool = "launch" THEN 0 ELSE w)))
        BY <3>1 DEF TurnCalls
      <4> DEFINE call == Call(u, tool, IF tool = "launch" THEN 0 ELSE w)
      <4>2. Event("call", u, call) \in Events
        BY Reals, EventsAre
      <4>3. Event("call", u, call).call.turn = u
        BY DEF Event, Call
      <4>4. u # t
        BY <4>1
      <4> QED
        BY <4>1, <4>2, <4>3, <4>4
    <3>2. CASE \E u \in Turns : TurnEnds(u)
      <4>1. PICK u \in Turns : TurnEnds(u)
        BY <3>2
      <4>2. inbox' = Append(inbox, Event("done", u, NoCall)) /\ turns[u] # "ended"
        BY <4>1 DEF TurnEnds
      <4>3. Event("done", u, NoCall) \in Events /\ Event("done", u, NoCall).call.turn = 0
        BY EventsAre, Reals DEF Event
      <4> QED
        BY <4>2, <4>3
    <3> QED
      BY <1>5, <3>1, <3>2 DEF Server
  <2>3. \A i \in DOMAIN inbox' : \/ i \in DOMAIN inbox /\ inbox'[i] = inbox[i]
                                 \/ inbox'[i] = e
    BY <2>2, InboxIs, TakingIn
  <2>4. ~Coming(t)'
    BY <1>1, <2>2, <2>3 DEF Coming
  <2> QED
    BY <1>1, <2>1, <2>4
<1>6. CASE User \/ Monitor \/ UNCHANGED vars
  <2>1. UNCHANGED <<inbox, backend, pending>>
    BY <1>6 DEF User, PressEscape, ReleaseEscape, Touch, notUser, Monitor, MonitorReads, MonitorSamples,
       MonitorTakesTurn, MonitorSendsStop, MonitorReportsTouch, notMonitor, serverVars, vars
  <2> QED
    BY <1>1, <1>4, <2>1
<1>7. CASE ReceiveSignals \/ TakeHalt \/ NoCommand
  <2>1. UNCHANGED inbox /\ pending' \subseteq pending /\ \E place : backend' = At(place)
    BY <1>7 DEF ReceiveSignals, HandleStop, TakeHalt, TakeCommand, NoCommand, Goto
  <2> QED
    BY <1>3, <1>4, <2>1, IdleHand
<1>8. CASE CheckTarget \/ DisarmForIt \/ RunActs
  <2>1. UNCHANGED inbox /\ pending' \subseteq pending
    BY <1>8 DEF CheckTarget, DisarmForIt, notDesktop, RunActs, Run
  <2>2. backend'.call = backend.call \/ backend'.call = NoCall
    BY <1>8 DEF CheckTarget, DisarmForIt, RunActs, Goto, At, Handling, IInv, Shape, HandShape
  <2> QED
    BY <1>3, <1>4, <2>1, <2>2
<1>9. CASE RunNothing \/ RunRefused \/ RunObserves \/ RunAsks \/ Acted
  <2>1. UNCHANGED inbox /\ pending' \subseteq pending \cup {backend.call}
    BY <1>9 DEF RunNothing, RunRefused, RunObserves, RunAsks, Run, Settled, Acted
  <2>2. backend'.call = NoCall
    BY <1>9 DEF RunNothing, RunRefused, RunObserves, RunAsks, Acted, Done, Goto, At, Handling
  <2> QED
    BY <1>3, <1>4, <2>1, <2>2
<1>10. CASE TakeDecision
  <2>1. UNCHANGED <<inbox, pending>>
    BY <1>10 DEF TakeDecision, TakeCommand
  <2>2. backend'.call = NoCall \/ backend'.call \in pending
    BY <1>10 DEF TakeDecision, Handling
  <2> QED
    BY <1>3, <1>4, <2>1, <2>2
<1>11. CASE ReceiveCompleted
  <2>1. UNCHANGED <<backend, pending>> /\ inbox # <<>> /\ inbox' = Tail(inbox)
    BY <1>11 DEF ReceiveCompleted, NextIs
  <2> QED
    BY <1>1, <2>1, FirstTaken
<1>12. CASE ReceiveCall
  <2>1. /\ UNCHANGED pending /\ inbox # <<>> /\ inbox' = Tail(inbox)
        /\ backend'.call = Head(inbox).call
    BY <1>12 DEF ReceiveCall, NextIs, Received, Handling
  <2> QED
    BY <1>1, <2>1, FirstTaken
<1>13. CASE Disconnected
  <2>1. inbox' = <<>> /\ pending' = {} /\ backend' = At("batch")
    BY <1>13 DEF Disconnected, Goto
  <2>2. ~Coming(t)'
    BY <2>1 DEF Coming
  <2> QED
    BY <1>3, <2>1, <2>2, IdleHand
<1> QED
  BY <1>5, <1>6, <1>7, <1>8, <1>9, <1>10, <1>11, <1>12, <1>13 DEF Next, Backend

(* The end of a turn is the last of its events.                              *)
LEMMA ClosingStep == IInv /\ OneCall /\ Closing /\ [Next]_vars => Closing'
<1> SUFFICES ASSUME IInv, OneCall, Closing, [Next]_vars PROVE Closing'
  OBVIOUS
<1>1. CASE UNCHANGED inbox
  BY <1>1 DEF Closing
<1>2. CASE inbox' = <<>>
  BY <1>2 DEF Closing
<1>3. CASE inbox # <<>> /\ inbox' = Tail(inbox)
  <2>1. /\ Len(inbox) \in Nat \ {0} /\ DOMAIN inbox = 1..Len(inbox)
        /\ DOMAIN inbox' = 1..(Len(inbox) - 1)
        /\ \A i \in 1..(Len(inbox) - 1) : inbox'[i] = inbox[i + 1]
    BY <1>3, InboxIs, TakingOut
  <2>2. \A i \in DOMAIN inbox' : i \in Int /\ i + 1 \in DOMAIN inbox /\ inbox'[i] = inbox[i + 1]
    BY <2>1
  <2>3. ASSUME NEW i \in DOMAIN inbox', NEW j \in DOMAIN inbox', inbox'[i].kind = "done", i < j
        PROVE  inbox'[j].call.turn # inbox'[i].turn
    <3>1. i + 1 < j + 1
      BY <2>2, <2>3
    <3> QED
      BY <2>2, <2>3, <3>1 DEF Closing
  <2> QED
    BY <2>3 DEF Closing
<1>4. CASE \E t \in Turns : TurnCalls(t) \/ TurnEnds(t)
  <2>1. PICK t \in Turns, e \in Events :
           inbox' = Append(inbox, e) /\ e.call.turn \in {0, t} /\ turns[t] # "ended"
    <3>1. CASE \E t \in Turns : TurnCalls(t)
      <4>1. PICK t \in Turns, tool \in Tools, w \in Windows :
               /\ turns[t] \in {"live", "halting"}
               /\ inbox' = Append(inbox, Event("call", t, Call(t, tool, IF tool = "launch" THEN 0 ELSE w)))
        BY <3>1 DEF TurnCalls
      <4> DEFINE call == Call(t, tool, IF tool = "launch" THEN 0 ELSE w)
      <4>2. Event("call", t, call) \in Events
        BY Reals, EventsAre
      <4>3. Event("call", t, call).call.turn = t
        BY DEF Event, Call
      <4>4. turns[t] # "ended"
        BY <4>1
      <4> QED
        BY <4>1, <4>2, <4>3, <4>4
    <3>2. CASE \E t \in Turns : TurnEnds(t)
      <4>1. PICK t \in Turns : TurnEnds(t)
        BY <3>2
      <4>2. inbox' = Append(inbox, Event("done", t, NoCall)) /\ turns[t] # "ended"
        BY <4>1 DEF TurnEnds
      <4>3. Event("done", t, NoCall) \in Events /\ Event("done", t, NoCall).call.turn = 0
        BY EventsAre, Reals DEF Event
      <4> QED
        BY <4>2, <4>3
    <3> QED
      BY <1>4, <3>1, <3>2
  <2>2. /\ Len(inbox) \in Nat /\ DOMAIN inbox = 1..Len(inbox) /\ DOMAIN inbox' = 1..(Len(inbox) + 1)
        /\ inbox'[Len(inbox) + 1] = e /\ \A i \in 1..Len(inbox) : inbox'[i] = inbox[i]
    BY <2>1, InboxIs, TakingIn
  <2>3. ASSUME NEW i \in DOMAIN inbox', NEW j \in DOMAIN inbox', inbox'[i].kind = "done", i < j
        PROVE  inbox'[j].call.turn # inbox'[i].turn
    <3>1. i \in 1..Len(inbox) /\ inbox'[i] = inbox[i]
      BY <2>2, <2>3
    <3>2. CASE j \in 1..Len(inbox)
      BY <2>2, <2>3, <3>1, <3>2 DEF Closing
    <3>3. CASE j = Len(inbox) + 1
      <4>1. turns[inbox[i].turn] = "ended" /\ inbox[i].turn \in Turns
        BY <2>2, <2>3, <3>1, InboxIs DEF OneCall
      <4> QED
        BY <2>1, <2>2, <3>1, <3>3, <4>1, Zero
    <3> QED
      BY <2>2, <3>2, <3>3
  <2> QED
    BY <2>3 DEF Closing
<1>5. CASE ReceiveCompleted \/ ReceiveCall
  BY <1>3, <1>5 DEF ReceiveCompleted, ReceiveCall, NextIs
<1>6. CASE User \/ Monitor \/ UNCHANGED vars
  BY <1>1, <1>6 DEF User, PressEscape, ReleaseEscape, Touch, notUser, Monitor, MonitorReads, MonitorSamples,
     MonitorTakesTurn, MonitorSendsStop, MonitorReportsTouch, notMonitor, serverVars, vars
<1>7. CASE ReceiveSignals \/ CheckTarget \/ DisarmForIt \/ RunNothing \/ RunRefused \/ RunAsks
           \/ RunObserves \/ RunActs \/ Acted \/ TakeDecision \/ TakeHalt \/ NoCommand
  BY <1>1, <1>7 DEF ReceiveSignals, CheckTarget, DisarmForIt, notDesktop, RunNothing, RunRefused,
     RunAsks, RunObserves, RunActs, Run, Acted, TakeDecision, TakeHalt, TakeCommand, NoCommand
<1>8. CASE Disconnected
  BY <1>2, <1>8 DEF Disconnected
<1> QED
  BY <1>4, <1>5, <1>6, <1>7, <1>8 DEF Next, Server, Backend

(* What leaves interrupted is let go, or of a turn that is closed.           *)
LEMMA HeededStep == IInv /\ OneCall /\ Closing /\ Heeded /\ [Next]_vars => Heeded'
<1> SUFFICES ASSUME IInv, OneCall, Closing, Heeded, [Next]_vars PROVE Heeded'
  OBVIOUS
<1>0. obeyed' \subseteq Turns
  BY IInvStep DEF IInv, Shape, TableShape
<1> SUFFICES ASSUME NEW t \in Turns, t \in obeyed' PROVE t \in interrupted' \/ Closed(t)'
  BY <1>0 DEF Heeded
<1>1. ASSUME Closed(t) PROVE Closed(t)'
  BY <1>1, Ends, NoneComes DEF Closed
<1>2. CASE UNCHANGED <<obeyed, interrupted>>
  BY <1>1, <1>2 DEF Heeded
<1>3. CASE ReceiveSignals
  <2>1. CASE stops = <<>>
    BY <1>2, <1>3, <2>1 DEF ReceiveSignals
  <2>2. CASE stops # <<>>
    <3>1. PICK u : /\ interrupted' = Forgotten \cup {u}
                   /\ obeyed' = (obeyed \ (interrupted \ Forgotten)) \cup {u}
      BY <1>3, <2>2 DEF ReceiveSignals, HandleStop
    <3> QED
      BY <1>1, <3>1 DEF Heeded
  <2> QED
    BY <2>1, <2>2
<1>4. CASE ReceiveCompleted
  <2>1. /\ UNCHANGED <<backend, pending, turns, obeyed>> /\ inbox # <<>> /\ inbox' = Tail(inbox)
        /\ Head(inbox).kind = "done" /\ interrupted' = interrupted \ {Head(inbox).turn}
        /\ backend.at = "batch"
    BY <1>4 DEF ReceiveCompleted, NextIs, notBackend
  <2>2. CASE t # Head(inbox).turn \/ t \notin interrupted
    BY <1>1, <2>1, <2>2 DEF Heeded
  <2>3. CASE t = Head(inbox).turn /\ t \in interrupted
    <3>1. /\ Len(inbox) \in Nat \ {0} /\ DOMAIN inbox = 1..Len(inbox) /\ Head(inbox) = inbox[1]
          /\ DOMAIN inbox' = 1..(Len(inbox) - 1)
          /\ \A i \in 1..(Len(inbox) - 1) : inbox'[i] = inbox[i + 1]
      BY <2>1, InboxIs, TakingOut
    <3>2. 1 \in DOMAIN inbox
      BY <3>1
    <3>3. turns'[t] = "ended"
      BY <2>1, <2>3, <3>1, <3>2 DEF OneCall
    <3>4. \A i \in DOMAIN inbox' : inbox'[i].call.turn # t
      <4>1. \A i \in DOMAIN inbox' : i + 1 \in DOMAIN inbox /\ 1 < i + 1 /\ inbox'[i] = inbox[i + 1]
        BY <3>1
      <4> QED
        BY <2>1, <2>3, <3>1, <3>2, <4>1 DEF Closing
    <3>5. \A call \in pending' : call.turn # t
      BY <2>1, <2>3 DEF IInv, Stopped
    <3>6. backend'.call.turn # t
      BY <2>1, Reals, Zero DEF IInv, Shape, HandShape
    <3> QED
      BY <3>3, <3>4, <3>5, <3>6 DEF Closed, Waits
  <2> QED
    BY <2>2, <2>3
<1>5. CASE Disconnected
  <2>1. inbox' = <<>> /\ pending' = {} /\ backend' = At("batch") /\ turns'[t] = "ended"
    BY <1>5 DEF Disconnected, Goto
  <2>2. backend'.call.turn # t
    BY <2>1, IdleHand, Reals, Zero
  <2> QED
    BY <2>1, <2>2 DEF Closed, Waits
<1>6. CASE Server \/ User \/ Monitor \/ UNCHANGED vars
  BY <1>2, <1>6 DEF Server, TurnCalls, TurnEnds, notServer, User, PressEscape, ReleaseEscape, Touch,
     notUser, Monitor, MonitorReads, MonitorSamples, MonitorTakesTurn, MonitorSendsStop,
     MonitorReportsTouch, notMonitor, vars
<1>7. CASE ReceiveCall \/ CheckTarget \/ DisarmForIt \/ RunNothing \/ RunRefused \/ RunAsks
           \/ RunObserves \/ RunActs \/ Acted \/ TakeDecision \/ TakeHalt \/ NoCommand
  BY <1>2, <1>7 DEF ReceiveCall, CheckTarget, DisarmForIt, RunNothing, RunRefused, RunAsks, RunObserves,
     RunActs, Run, Acted, TakeDecision, TakeHalt, TakeCommand, NoCommand, notBackend
<1> QED
  BY <1>3, <1>4, <1>5, <1>6, <1>7 DEF Next, Backend

-----------------------------------------------------------------------------
(* What is watched stays watched until it is over.                           *)

LEMMA KeyKeptStep == IInv /\ KeyKept /\ [Next]_vars => KeyKept'
<1> SUFFICES ASSUME IInv, KeyKept, [Next]_vars PROVE KeyKept'
  OBVIOUS
<1>1. CASE UNCHANGED backend /\ armed' \in {armed, NoKey}
  BY <1>1 DEF KeyKept, InHand
<1>2. CASE backend'.at \in {"head", "batch"}
  BY <1>2 DEF KeyKept, InHand
<1>3. CASE Server \/ User \/ Monitor \/ UNCHANGED vars
  <2>1. UNCHANGED backend /\ armed' \in {armed, NoKey}
    BY <1>3 DEF Server, TurnCalls, TurnEnds, notServer, User, PressEscape, ReleaseEscape, Touch, notUser,
       Monitor, MonitorReads, MonitorSamples, MonitorTakesTurn, MonitorSendsStop, MonitorReportsTouch,
       notMonitor, sharedVars, vars
  <2> QED
    BY <1>1, <2>1
<1>4. CASE ReceiveSignals \/ Disconnected \/ TakeHalt \/ NoCommand
  <2>1. backend' = At("head") \/ backend' = At("batch")
    BY <1>4 DEF ReceiveSignals, Disconnected, TakeHalt, NoCommand, Goto
  <2> QED
    BY <1>2, <2>1, IdleHand
<1>5. CASE ReceiveCompleted
  BY <1>2, <1>5 DEF ReceiveCompleted, NextIs
<1>6. CASE RunNothing \/ RunRefused \/ RunAsks \/ RunObserves \/ Acted
  <2>1. backend' = At(backend.next) /\ backend.next \in {"head", "batch"}
    BY <1>6 DEF RunNothing, RunRefused, RunAsks, RunObserves, Acted, Done, Goto, IInv, Shape, HandShape
  <2> QED
    BY <1>2, <2>1, IdleHand
<1>7. CASE ReceiveCall
  <2>1. backend'.key.turn = backend'.call.turn /\ backend'.at = "check" /\ backend'.decision = "none"
    BY <1>7 DEF ReceiveCall, Received, Handling, Key
  <2> QED
    BY <2>1 DEF KeyKept
<1>8. CASE CheckTarget
  <2>1. CASE Blocks(armed, backend.call)
    BY <1>2, <1>8, <2>1, IdleHand DEF CheckTarget, Goto
  <2>2. CASE ~Blocks(armed, backend.call)
    <3>1. /\ backend.at = "check"
          /\ backend.decision = "none" => backend.key.turn = backend.call.turn
          /\ backend' = [backend EXCEPT !.at = "disarm"] /\ UNCHANGED armed
          /\ armed = NoKey \/ armed.turn = backend.call.turn
      BY <1>8, <2>2 DEF CheckTarget, Blocks, KeyKept, InHand, sharedVars
    <3>2. /\ backend'.at = "disarm" /\ backend'.decision = backend.decision
          /\ backend'.key = backend.key /\ backend'.call = backend.call
      BY <3>1 DEF IInv, Shape, HandShape
    <3>3. backend.decision = "none"
      BY <1>8 DEF CheckTarget, KeyKept
    <3> QED
      BY <3>1, <3>2, <3>3 DEF KeyKept
  <2> QED
    BY <2>1, <2>2
<1>9. CASE DisarmForIt
  <2>1. CASE backend' = At("batch")
    BY <1>2, <2>1, IdleHand
  <2>2. CASE backend' = [backend EXCEPT !.at = "run"]
    <3>1. /\ backend'.at = "run" /\ backend'.decision = backend.decision
          /\ backend'.key = backend.key /\ backend'.call = backend.call
      BY <2>2 DEF IInv, Shape, HandShape
    <3> QED
      BY <1>9, <3>1 DEF DisarmForIt, KeyKept, InHand
  <2> QED
    BY <1>9, <2>1, <2>2 DEF DisarmForIt, Goto
<1>10. CASE RunActs
  <2>1. /\ backend.at = "run" /\ backend'.at = "acting" /\ backend'.decision = backend.decision
        /\ backend'.key = backend.key /\ backend'.call = backend.call
    BY <1>10 DEF RunActs, Run, IInv, Shape, HandShape
  <2> QED
    BY <2>1 DEF KeyKept, InHand
<1>11. CASE TakeDecision
  <2>1. UNCHANGED armed /\ backend'.decision # "none" /\ backend'.key = armed /\ backend'.at # "check"
    BY <1>11 DEF TakeDecision, TakeCommand, sharedVars, Handling
  <2> QED
    BY <2>1 DEF KeyKept
<1> QED
  BY <1>3, <1>4, <1>5, <1>6, <1>7, <1>8, <1>9, <1>10, <1>11 DEF Next, Backend

(* A turn stays watched when the guard passes on to a stop at most. *)
LEMMA StaysWatched ==
    ASSUME IInv, [Next]_vars, NEW t \in Turns, Watched(t),
           Guard = t => Guard' = t \/ StopUnderWay(t)',
           StopUnderWay(t) => StopUnderWay(t)' \/ t \in swallowed',
           swallowed \subseteq swallowed'
    PROVE  Watched(t)'
<1>1. turns[t] = "ended" => turns'[t] = "ended"
  BY Ends
<1> QED
  BY <1>1 DEF Watched

LEMMA AllStayWatched ==
    ASSUME IInv, AllWatched, pending' \subseteq pending, overlay' \in {0, overlay}, NEW over,
           overlay' # 0 => overlay' # over, \A call \in pending' : call.turn # over,
           \A t \in Turns : t # over /\ Watched(t) => Watched(t)'
    PROVE  AllWatched'
<1>1. overlay' # 0 => Watched(overlay)'
  <2> SUFFICES ASSUME overlay' # 0 PROVE Watched(overlay)'
    OBVIOUS
  <2>1. PICK u \in Turns : u = overlay /\ u = overlay' /\ u # over
    BY DEF IInv, Shape, TableShape
  <2>2. Watched(u)'
    BY <2>1 DEF AllWatched
  <2> QED
    BY <2>1, <2>2
<1>2. ASSUME NEW call \in pending' PROVE Watched(call.turn)'
  <2>1. call.turn \in Turns /\ call.turn # over
    BY <1>2, Reals DEF IInv, Shape, TableShape
  <2> QED
    BY <1>2, <2>1 DEF AllWatched
<1> QED
  BY <1>1, <1>2 DEF AllWatched

LEMMA NotOver == IInv => \A call \in pending : call.turn # 0
  BY Reals, Zero DEF IInv, Shape, TableShape

LEMMA MonitorWatches ==
    ASSUME IInv, AllWatched, [Next]_vars, Monitor
    PROVE  AllWatched'
<1>1. UNCHANGED <<backend, pending, overlay>> /\ swallowed \subseteq swallowed'
  BY DEF Monitor, MonitorReads, MonitorSamples, MonitorTakesTurn, MonitorSendsStop, MonitorReportsTouch,
     notMonitor
<1>2. ASSUME NEW t \in Turns PROVE Watched(t) => Watched(t)'
  <2>1. CASE MonitorReads \/ MonitorSamples \/ MonitorReportsTouch
    <3>1. UNCHANGED <<armed, stops>> /\ monitor.at # "send"
      BY <2>1 DEF MonitorReads, MonitorSamples, MonitorReportsTouch, sharedVars, channels
    <3>2. Guard' = Guard /\ (StopUnderWay(t) => StopUnderWay(t)')
      BY <1>1, <3>1 DEF Guard, StopUnderWay
    <3> QED
      BY <1>1, <3>2, StaysWatched
  <2>2. CASE MonitorTakesTurn
    <3>1. UNCHANGED stops /\ monitor.at = "take"
      BY <2>2 DEF MonitorTakesTurn, channels
    <3>2. StopUnderWay(t) => StopUnderWay(t)'
      BY <3>1 DEF StopUnderWay
    <3>3. Guard = t => Guard' = t \/ StopUnderWay(t)'
      <4>1. CASE passed \/ backend.at \in {"run", "acting"}
        BY <1>1, <2>2, <4>1 DEF MonitorTakesTurn, sharedVars, Guard
      <4>2. CASE ~passed /\ backend.at \notin {"run", "acting"}
        <5>1. monitor' = [monitor EXCEPT !.at = "send", !.key = armed]
          BY <2>2, <4>2 DEF MonitorTakesTurn
        <5>2. monitor'.at = "send" /\ monitor'.key = armed
          BY <5>1 DEF IInv, Shape, MonitorShape
        <5> QED
          BY <4>2, <5>2 DEF Guard, StopUnderWay
      <4> QED
        BY <4>1, <4>2
    <3> QED
      BY <1>1, <3>2, <3>3, StaysWatched
  <2>3. CASE MonitorSendsStop
    <3>1. UNCHANGED armed /\ monitor.at = "send"
      BY <2>3 DEF MonitorSendsStop, sharedVars
    <3>2. Guard' = Guard
      BY <1>1, <3>1 DEF Guard
    <3>3. StopUnderWay(t) => StopUnderWay(t)' \/ t \in swallowed'
      <4>1. CASE stops = <<>>
        <5>1. stops' = <<[turn |-> monitor.key.turn, by |-> monitor.by]>>
          BY <2>3, <4>1 DEF MonitorSendsStop
        <5>2. 1 \in DOMAIN stops' /\ stops'[1].turn = monitor.key.turn
          BY <5>1
        <5> QED
          BY <4>1, <5>2 DEF StopUnderWay
      <4>2. CASE stops # <<>>
        BY <2>3, <4>2 DEF MonitorSendsStop, StopUnderWay
      <4> QED
        BY <4>1, <4>2
    <3> QED
      BY <1>1, <3>2, <3>3, StaysWatched
  <2> QED
    BY <2>1, <2>2, <2>3 DEF Monitor
<1> QED
  BY <1>1, <1>2, NotOver, AllStayWatched

(* The stop that is taken is of a turn that is no longer shown, nor waits.   *)
LEMMA SignalsWatch ==
    ASSUME IInv, Sizes, AllWatched, [Next]_vars, ReceiveSignals
    PROVE  AllWatched'
<1>1. UNCHANGED <<armed, monitor, swallowed>> /\ backend.at = "head" /\ backend'.at = "batch"
  BY IdleHand DEF ReceiveSignals, notBackend, sharedVars, Goto
<1>2. Guard' = Guard
  BY <1>1 DEF Guard
<1>3. CASE stops = <<>>
  <2>1. UNCHANGED <<stops, overlay, pending>>
    BY <1>3 DEF ReceiveSignals
  <2>2. \A t : StopUnderWay(t)' <=> StopUnderWay(t)
    BY <1>1, <2>1 DEF StopUnderWay
  <2> QED
    BY <1>1, <1>2, <2>1, <2>2, StaysWatched, NotOver, AllStayWatched
<1>4. CASE stops # <<>>
  <2> DEFINE stopped == Head(stops).turn
  <2>1. HandleStop(stopped)
    BY <1>4 DEF ReceiveSignals
  <2>2. stops \in Seq(Stops) /\ Len(stops) \in Nat \ {0} /\ Head(stops) = stops[1] /\ DOMAIN stops = 1..Len(stops)
    BY <1>4, TakingOut DEF IInv, Shape, ChannelShape
  <2>3. \A i \in DOMAIN stops : stops[i].turn = stopped
    BY <2>2 DEF Sizes
  <2>4. ASSUME NEW t \in Turns, t # stopped, Watched(t) PROVE Watched(t)'
    <3>1. StopUnderWay(t) => StopUnderWay(t)'
      BY <1>1, <2>3, <2>4 DEF StopUnderWay
    <3> QED
      BY <1>1, <1>2, <2>4, <3>1, StaysWatched
  <2>5. overlay' \in {0, overlay} /\ (overlay' # 0 => overlay' # stopped)
    BY <2>1 DEF HandleStop, Hidden
  <2>6. pending' \subseteq pending /\ \A call \in pending' : call.turn # stopped
    BY <2>1 DEF HandleStop, IInv, Down
  <2> QED
    BY <2>4, <2>5, <2>6, AllStayWatched
<1> QED
  BY <1>3, <1>4

(* The other steps of the backend: the guard passes on, or the turn has ended. *)
LEMMA BackendWatches ==
    ASSUME IInv, [Next]_vars, AllWatched, UNCHANGED <<stops, monitor, swallowed>>,
           NEW over, pending' \subseteq pending, overlay' \in {0, overlay},
           overlay' # 0 => overlay' # over, \A call \in pending' : call.turn # over,
           \A t \in Turns : Guard = t => Guard' = t \/ t = over \/ turns[t] = "ended"
    PROVE  /\ AllWatched'
           /\ \A t \in Turns : Watched(t) /\ t # over => Watched(t)'
<1>1. \A t : StopUnderWay(t)' <=> StopUnderWay(t)
  BY DEF StopUnderWay
<1>2. ASSUME NEW t \in Turns, Watched(t), t # over PROVE Watched(t)'
  <2>1. turns[t] = "ended" => turns'[t] = "ended"
    BY Ends
  <2> QED
    BY <1>1, <1>2, <2>1 DEF Watched
<1> QED
  BY <1>2, AllStayWatched

(* The end of a call or a decision arms what was watched before it. *)
LEMMA DoneGuards ==
    ASSUME IInv, backend.at \in {"run", "acting"}, Done
    PROVE  /\ backend' = At(backend.next) /\ backend'.at \in {"head", "batch"}
           /\ Guard' = backend.key.turn
<1>1. backend' = At(backend.next) /\ backend'.at \in {"head", "batch"}
  BY IdleHand DEF Done, Goto, IInv, Shape, HandShape
<1>2. armed' = backend.key
  BY DEF Done, Arm, sharedVars, IInv, Disarmed
<1> QED
  BY <1>1, <1>2 DEF Guard

LEMMA AskingWatches ==
    ASSUME IInv, [Next]_vars, AllWatched, KeyKept, RunAsks
    PROVE  AllWatched'
<1>1. /\ UNCHANGED <<stops, monitor, swallowed, overlay>> /\ backend.at = "run" /\ Done
      /\ backend.decision = "none" /\ pending' = pending \cup {backend.call}
  BY DEF RunAsks, Run, notBackend, channels
<1>2. Guard' = backend.key.turn /\ Guard = backend.key.turn /\ backend.key.turn = backend.call.turn
  BY <1>1, DoneGuards DEF Guard, KeyKept, InHand
<1>3. \A t : StopUnderWay(t)' <=> StopUnderWay(t)
  BY <1>1 DEF StopUnderWay
<1>4. ASSUME NEW t \in Turns, Watched(t) PROVE Watched(t)'
  BY <1>1, <1>2, <1>3, <1>4, StaysWatched
<1>5. overlay' # 0 => Watched(overlay)'
  <2> SUFFICES ASSUME overlay' # 0 PROVE Watched(overlay)'
    OBVIOUS
  <2>1. PICK u \in Turns : u = overlay /\ u = overlay'
    BY <1>1 DEF IInv, Shape, TableShape
  <2> QED
    BY <1>4, <2>1 DEF AllWatched
<1>6. ASSUME NEW call \in pending' PROVE Watched(call.turn)'
  <2>1. CASE call \in pending
    BY <1>4, <2>1, Reals DEF AllWatched, IInv, Shape, TableShape
  <2>2. CASE call = backend.call
    BY <1>2, <2>2 DEF Watched
  <2> QED
    BY <1>1, <1>6, <2>1, <2>2
<1> QED
  BY <1>5, <1>6 DEF AllWatched

LEMMA ActingWatches ==
    ASSUME IInv, [Next]_vars, AllWatched, KeyKept, RunActs
    PROVE  AllWatched'
<1>1. /\ UNCHANGED <<stops, monitor, swallowed, armed>> /\ backend.at = "run"
      /\ backend.decision # "none" => backend.call \in pending
      /\ pending' \subseteq pending /\ overlay' = backend.call.turn
  BY DEF RunActs, Run, Waiting, notBackend, channels, sharedVars
<1>2. backend'.at = "acting" /\ backend'.key = backend.key /\ backend'.call = backend.call
  BY DEF RunActs, IInv, Shape, HandShape
<1>3. Guard' = backend.key.turn /\ Guard = backend.key.turn
  BY <1>1, <1>2 DEF Guard
<1>4. \A t : StopUnderWay(t)' <=> StopUnderWay(t)
  BY <1>1 DEF StopUnderWay
<1>5. ASSUME NEW t \in Turns, Watched(t) PROVE Watched(t)'
  BY <1>1, <1>3, <1>4, <1>5, StaysWatched
<1>6. PICK u \in Turns : u = backend.call.turn
  BY <1>1, Reals DEF IInv, Shape, HandShape, TableShape
<1>7. Watched(u)'
  <2>1. CASE backend.decision = "none"
    BY <1>1, <1>3, <1>6, <2>1 DEF KeyKept, InHand, Watched
  <2>2. CASE backend.decision # "none"
    BY <1>1, <1>5, <1>6, <2>2 DEF AllWatched
  <2> QED
    BY <2>1, <2>2
<1>8. u = overlay'
  BY <1>1, <1>6
<1>9. \A call \in pending' : Watched(call.turn)'
  BY <1>1, <1>5, Reals DEF AllWatched, IInv, Shape, TableShape
<1> QED
  BY <1>7, <1>8, <1>9 DEF AllWatched

LEMMA AllWatchedStep == IInv /\ WInv /\ [Next]_vars => AllWatched'
<1> SUFFICES ASSUME IInv, WInv, [Next]_vars PROVE AllWatched'
  OBVIOUS
<1>1. Sizes /\ OneCall /\ KeyKept /\ AllWatched
  BY DEF WInv
<1>2. CASE Monitor
  BY <1>1, <1>2, MonitorWatches
<1>3. CASE ReceiveSignals
  BY <1>1, <1>3, SignalsWatch
<1>4. CASE RunAsks
  BY <1>1, <1>4, AskingWatches
<1>5. CASE RunActs
  BY <1>1, <1>5, ActingWatches
<1>6. CASE UNCHANGED <<stops, monitor, swallowed, pending, overlay, armed, backend>>
  <2>1. Guard' = Guard
    BY <1>6 DEF Guard
  <2> QED
    BY <1>1, <1>6, <2>1, NotOver, BackendWatches
<1>7. CASE Server \/ User \/ UNCHANGED vars
  <2>1. UNCHANGED <<stops, monitor, swallowed, pending, overlay, armed, backend>>
    BY <1>7 DEF Server, TurnCalls, TurnEnds, notServer, User, PressEscape, ReleaseEscape, Touch, notUser,
       channels, sharedVars, vars
  <2> QED
    BY <1>6, <2>1
<1>8. CASE Disconnected
  <2>1. overlay' = 0 /\ pending' = {}
    BY <1>8 DEF Disconnected
  <2> QED
    BY <2>1 DEF AllWatched
<1>9. CASE ReceiveCompleted
  <2> DEFINE t == Head(inbox).turn
  <2>1. /\ UNCHANGED <<stops, monitor, swallowed, pending, backend>> /\ backend.at = "batch"
        /\ inbox # <<>> /\ Head(inbox).kind = "done" /\ overlay' = Hidden(t)
        /\ armed' = IF armed.turn = t THEN NoKey ELSE armed
    BY <1>9 DEF ReceiveCompleted, NextIs, notBackend, channels, Disarm, Arm, sharedVars
  <2>2. turns[t] = "ended"
    <3>1. 1 \in DOMAIN inbox /\ Head(inbox) = inbox[1]
      BY <2>1, InboxIs, TakingOut
    <3> QED
      BY <1>1, <2>1, <3>1 DEF OneCall
  <2>3. \A u \in Turns : Guard = u => Guard' = u \/ turns[u] = "ended"
    BY <2>1, <2>2 DEF Guard
  <2>4. overlay' \in {0, overlay}
    BY <2>1 DEF Hidden
  <2> QED
    BY <1>1, <2>1, <2>3, <2>4, NotOver, BackendWatches
<1>10. CASE DisarmForIt
  <2>1. UNCHANGED <<stops, monitor, swallowed, pending>> /\ backend.at = "disarm" /\ armed' = NoKey
    BY <1>10 DEF DisarmForIt, Disarm, Arm, notBackend, channels
  <2>2. CASE backend' = [backend EXCEPT !.at = "run"] /\ UNCHANGED overlay
    <3>1. backend'.at = "run" /\ backend'.key = backend.key
      BY <2>2 DEF IInv, Shape, HandShape
    <3>2. \A t \in Turns : Guard = t => Guard' = t
      BY <1>1, <2>1, <3>1, Zero DEF Guard, KeyKept, NoKey, Key
    <3> QED
      BY <1>1, <2>1, <2>2, <3>2, NotOver, BackendWatches
  <2>3. CASE backend.decision = "none" /\ overlay' = Hidden(backend.call.turn) /\ backend' = At("batch")
    <3>1. \A t \in Turns : Guard = t => t = backend.call.turn
      BY <1>1, <2>1, <2>3, Zero DEF Guard, KeyKept, InHand, NoKey, Key
    <3>2. \A call \in pending' : call.turn # backend.call.turn
      BY <1>1, <2>1, <2>3 DEF OneCall
    <3>3. overlay' \in {0, overlay} /\ (overlay' # 0 => overlay' # backend.call.turn)
      BY <2>3 DEF Hidden
    <3> QED
      BY <1>1, <2>1, <3>1, <3>2, <3>3, BackendWatches
  <2> QED
    BY <1>10, <2>2, <2>3 DEF DisarmForIt, Goto
<1>11. CASE RunNothing \/ RunRefused \/ RunObserves \/ Acted
  <2>1. /\ UNCHANGED <<stops, monitor, swallowed>> /\ pending' \subseteq pending
        /\ backend.at \in {"run", "acting"} /\ Done
        /\ overlay' \in {overlay, Hidden(backend.call.turn)}
    BY <1>11 DEF RunNothing, RunRefused, RunObserves, Acted, Run, Settled, notBackend, channels
  <2>2. Guard' = Guard
    BY <2>1, DoneGuards DEF Guard
  <2>3. overlay' \in {0, overlay}
    BY <2>1 DEF Hidden
  <2> QED
    BY <1>1, <2>1, <2>2, <2>3, NotOver, BackendWatches
<1>12. CASE ReceiveCall \/ CheckTarget \/ TakeHalt \/ NoCommand \/ TakeDecision
  <2>1. UNCHANGED <<stops, monitor, swallowed, armed, pending>> /\ backend.at \in {"batch", "check"}
    BY <1>12 DEF ReceiveCall, NextIs, CheckTarget, TakeHalt, NoCommand, TakeDecision, TakeCommand,
       notBackend, channels, sharedVars
  <2>2. overlay' \in {0, overlay}
    BY <1>12 DEF ReceiveCall, CheckTarget, TakeHalt, NoCommand, TakeDecision, Hidden
  <2>3. \/ backend'.at \notin {"run", "acting"}
        \/ backend'.key = armed
    <3>1. CASE ReceiveCall
      BY <3>1 DEF ReceiveCall, Received, Handling
    <3>2. CASE CheckTarget
      BY <3>2, IdleHand DEF CheckTarget, Goto, IInv, Shape, HandShape
    <3>3. CASE TakeHalt \/ NoCommand
      <4>1. backend' = At("head")
        BY <3>3 DEF TakeHalt, NoCommand, Goto
      <4> QED
        BY <4>1, IdleHand
    <3>4. CASE TakeDecision
      BY <3>4 DEF TakeDecision, Handling
    <3> QED
      BY <1>12, <3>1, <3>2, <3>3, <3>4
  <2>4. Guard' = Guard
    BY <2>1, <2>3 DEF Guard
  <2> QED
    BY <1>1, <2>1, <2>2, <2>4, NotOver, BackendWatches
<1> QED
  BY <1>2, <1>3, <1>4, <1>5, <1>7, <1>8, <1>9, <1>10, <1>11, <1>12 DEF Next, Backend

LEMMA InitWInv == Init => WInv
<1> SUFFICES ASSUME Init PROVE WInv
  OBVIOUS
<1> USE DEF Init
<1>1. Sizes
  BY NoneOrOne, CapacityAssumption DEF Sizes
<1>2. OneCall /\ KeyKept /\ AllWatched
  BY IdleHand DEF OneCall, Coming, KeyKept, InHand, AllWatched
<1> QED
  BY <1>1, <1>2 DEF WInv

LEMMA WInvStep == IInv /\ WInv /\ [Next]_vars => WInv'
  BY SizesStep, OneCallStep, KeyKeptStep, AllWatchedStep DEF WInv

LEMMA WInvHolds == Spec => []WInv
  BY IInvHolds, InitWInv, WInvStep, PTL DEF Spec

(* Only the user stops a turn, and once its stop has been read, no call of   *)
(* the turn acts and no approval of it waits, when the turn has ended too,   *)
(* unless the stop was let go with the set of stopped turns at its limit.    *)
(* Of a stop that is still in its channel nothing is said.                   *)
THEOREM StopsHold == Spec => []StopHolds
<1>1. Init => OneCall /\ Closing /\ Heeded
  <2>1. Init => WInv
    BY InitWInv
  <2>2. Init => Closing /\ Heeded
    BY DEF Init, Closing, Heeded
  <2> QED
    BY <2>1, <2>2 DEF WInv
<1>2. IInv /\ Heeded => StopHolds
  BY DEF IInv, Stopped, Heeded, Closed, Waits, StopHolds
<1> QED
  BY InitIInv, IInvStep, OneCallStep, ClosingStep, HeededStep, <1>1, <1>2, PTL DEF Spec

(* The values of the variables, and the limits of the channels and the sets: *)
(* MAX_INTERRUPTED_COMPUTER_TURNS, MAX_STALE_INPUT_WINDOWS, one message each.*)
THEOREM TypesHold == Spec => []TypeOK
<1>1. Held \subseteq Keys /\ {NoCall} \cup Real \subseteq Calls
  BY DEF Held, Keys, NoKey, Key, Real, Calls, NoCall, Call, Tools
<1>2. IInv /\ WInv => TypeOK
  <2> SUFFICES ASSUME IInv, WInv PROVE TypeOK
    OBVIOUS
  <2>1. \A i \in DOMAIN inbox : inbox[i].kind \in {"call", "done"} /\ inbox[i].turn \in Turns
    BY InboxIs DEF Events
  <2>2. backend \in [at : {"head", "batch", "check", "disarm", "run", "acting"},
                     call : Calls, decision : {"none", "allow", "decline"}, key : Keys,
                     next : {"head", "batch", "check", "disarm", "run", "acting"},
                     touched : SUBSET Windows]
    BY <1>1 DEF IInv, Shape, HandShape
  <2>3. /\ armed \in Keys
        /\ monitor \in [at : {"idle", "read", "take", "send", "report"}, new : BOOLEAN,
                        key : Keys, wasDown : BOOLEAN, reported : BOOLEAN,
                        by : {"up", "user", "agent"}]
    BY <1>1 DEF IInv, Shape, MonitorShape
  <2>4. pending \subseteq Calls
    BY <1>1 DEF IInv, Shape, TableShape
  <2> QED
    BY <2>1, <2>2, <2>3, <2>4 DEF IInv, Shape, ServerShape, TableShape, MonitorShape, WInv, Sizes, TypeOK
<1> QED
  BY IInvHolds, WInvHolds, <1>2, PTL

(* "Esc to cancel" is true: while it is shown and nothing is in hand, the    *)
(* monitor watches for its turn, or has a stop of it, or it is over.         *)
THEOREM EscWorks == Spec => []EscIsWatched
<1>1. IInv /\ WInv => EscIsWatched
  BY DEF WInv, AllWatched, Watched, Guard, EscIsWatched
<1> QED
  BY IInvHolds, WInvHolds, <1>1, PTL
=============================================================================
