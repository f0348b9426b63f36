-------------------------- MODULE TurnLifecycleProofs --------------------------
(***************************************************************************)
(* Proofs about TurnLifecycle, for every capacity and every bound.         *)
(*                                                                         *)
(* The retry banner is kept right by the reducer: in whatever order the    *)
(* events come, it is that of the active turn, with a model and messages   *)
(* to retry with (Right).  That no retry is offered once the assistant has *)
(* been heard needs the order of the events as well: the record of a turn  *)
(* is answered before any word of the turn is read, and both go through    *)
(* one queue (HeardInv).                                                   *)
(*                                                                         *)
(* What the user writes is kept by all the parts together, through two     *)
(* bounded queues and two copies of the messages of a turn.  The events    *)
(* that are on their way tell, in order, what is left between the messages *)
(* the timeline would retry with and those of the turn of which no event   *)
(* was missed (LogInv); a retry is asked for with a prefix of these        *)
(* (RetriesInv).  The backend's entry has all the messages of its turn, or *)
(* nothing (TurnsInv), and someone who can ask for a retry of the turn     *)
(* that runs finds it, unless an earlier retry took it or it overflowed    *)
(* (EntryInv), for only the end of the turn ends it otherwise (NotesInv).  *)
(* A turn that is sent again has ended and does not run any more, so that  *)
(* what it has accepted stays as it was (BusyInv, ForksInv).  A submission *)
(* that fails is found again with the backend, among the events or in the  *)
(* composer, unless the code drops it, and a draft is overwritten only by  *)
(* messages of its own generation (PromptInv, SentInv).                    *)
(*                                                                         *)
(* The turn that the chat shows is known through three rows: the events,   *)
(* the answers still to be emitted and the notices still to be read.  Each *)
(* of them is read as a walk over the places where the chat can stand; in  *)
(* every state the three walks, one behind the other, lead from what is    *)
(* shown to the turn that runs (PathInv).  An answer can overtake notices, *)
(* so the last walk is kept for any turn it may start from: a start tells  *)
(* its turn whatever was thought before, an end only that of its own       *)
(* turn (Settled, WalkFromAnother).  The answer to an earlier request for  *)
(* the runtime is told by its generation (GenInv), and what a connection   *)
(* said that is gone ends in a chat that is not loaded (LinkInv, LiveInv). *)
(***************************************************************************)
EXTENDS TurnLifecycle, WellFoundedInduction, TLAPS

Turn0   == {0} \cup Turns
Message == Messages \ {{}}
Batch   == {s \in Seq(Message) : Len(s) \in 1..MaxMessages}

Banners == [turn : Turn0, model : BOOLEAN, available : BOOLEAN, dismissed : BOOLEAN,
            pending : BOOLEAN]
Timelines == [active : Turn0, stopping : BOOLEAN, retry : Batch \cup {<<>>}, banner : Banners,
              ready : BOOLEAN, generation : Nat, heard : SUBSET Turns]

Events ==
    [kind : {"started", "ended", "stopFailed", "created", "lost", "connected"}, turn : Turn0]
    \cup [kind : {"spoke"}, turn : Turns]
    \cup [kind : {"buffering"}, turn : Turn0, show : BOOLEAN, model : BOOLEAN]
    \cup [kind : {"recorded"}, turn : Turn0, messages : Batch]
    \cup [kind : {"steered"}, turn : Turn0, message : Message]
    \cup [kind : {"runtime"}, turn : Turn0, generation : Nat]
    \cup [kind : {"submissionFailed"}, draft : Nat, message : Messages]
    \cup [kind : {"retryFailed"}, turn : Turn0, restore : {"none", "here", "fork"},
          message : Messages]

Commands == [kind : Kinds, turn : Turn0, message : Messages, messages : Batch \cup {<<>>},
             draft : Nat]

(* What a command of its kind carries. *)
Carries(kind, c) ==
    /\ kind \in {"start", "steer"} => c.message # {}
    /\ kind = "steer" => c.turn # 0
    /\ kind \in {"retry", "check", "fork", "restart"} => c.turn # 0 /\ c.messages # <<>>

UiInv ==
    /\ composer \subseteq Pieces /\ draft \in Nat /\ selected \in {"here", "fork", "other"}
    /\ tl \in Timelines /\ online \in BOOLEAN /\ typed \in 0..MaxPieces
    /\ holes \subseteq {"refused", "offline", "missed"}

CommandsInv ==
    /\ commands \in Seq(Commands) /\ Len(commands) <= CommandCapacity
    /\ \A i \in 1..Len(commands) : Carries(commands[i].kind, commands[i])

EventsInv == events \in Seq(Events) /\ Len(events) <= EventCapacity

AtInv ==
    /\ backend \in [at : {"idle", "check", "fork", "restart", "emit", "signal"} \cup Kinds,
                    cmd : Commands, cached : BOOLEAN, out : Seq(Events),
                    then : {"idle", "restart"}]
    /\ backend.at = "emit" => backend.out # <<>>
    /\ Carries(backend.at, backend.cmd) /\ Carries(backend.then, backend.cmd)

BackendInv ==
    /\ AtInv
    /\ connected \in BOOLEAN
    /\ cache = NoEntry \/ cache \in [turn : Turns, messages : Batch]

ServerInv ==
    /\ server \in [alive : BOOLEAN, running : Turn0, turns : Turn0, halting : BOOLEAN,
                   spoke : BOOLEAN]
    /\ notes \in Seq(Events)

TypeInv == UiInv /\ CommandsInv /\ EventsInv /\ BackendInv /\ ServerInv

-----------------------------------------------------------------------------
(* What follows from the kind of an event. *)
LEMMA EventFields ==
    ASSUME NEW e \in Events
    PROVE  /\ e.kind \in EventKinds
           /\ e.kind # "submissionFailed" => e.turn \in Turn0
           /\ e.kind = "spoke" => e.turn \in Turns
           /\ e.kind = "buffering" => {e.show, e.model} \subseteq BOOLEAN
           /\ e.kind = "recorded" => e.messages \in Batch
           /\ e.kind = "steered" => e.message \in Message
           /\ e.kind = "runtime" => e.generation \in Nat
           /\ e.kind \in {"submissionFailed", "retryFailed"} => e.message \in Messages
           /\ e.kind = "submissionFailed" => e.draft \in Nat
<1>1. CASE e \in [kind : {"started", "ended", "stopFailed", "created", "lost", "connected"},
                  turn : Turn0]
  BY <1>1 DEF EventKinds
<1>2. CASE e \in [kind : {"spoke"}, turn : Turns]
  BY <1>2 DEF EventKinds, Turn0
<1>3. CASE e \in [kind : {"buffering"}, turn : Turn0, show : BOOLEAN, model : BOOLEAN]
  BY <1>3 DEF EventKinds
<1>4. CASE e \in [kind : {"recorded"}, turn : Turn0, messages : Batch]
  BY <1>4 DEF EventKinds
<1>5. CASE e \in [kind : {"steered"}, turn : Turn0, message : Message]
  BY <1>5 DEF EventKinds
<1>6. CASE e \in [kind : {"runtime"}, turn : Turn0, generation : Nat]
  BY <1>6 DEF EventKinds
<1>7. CASE e \in [kind : {"submissionFailed"}, draft : Nat, message : Messages]
  BY <1>7 DEF EventKinds
<1>8. CASE e \in [kind : {"retryFailed"}, turn : Turn0, restore : {"none", "here", "fork"},
                  message : Messages]
  BY <1>8 DEF EventKinds
<1> QED
  BY <1>1, <1>2, <1>3, <1>4, <1>5, <1>6, <1>7, <1>8 DEF Events

(* One message is a batch. *)
LEMMA Single ==
    ASSUME NEW m \in Message
    PROVE  <<m>> \in Batch /\ <<m>> # <<>>
  BY LimitsAssumption DEF Batch

(* At the start everything is empty. *)
LEMMA InitTypes == Init => TypeInv
<1> SUFFICES ASSUME Init PROVE TypeInv
  OBVIOUS
<1>1. <<>> \in Seq(Commands) /\ Len(<<>>) = 0 /\ <<>> \in Seq(Events)
  OBVIOUS
<1>2. UiInv
  BY LimitsAssumption
  DEF Init, UiInv, Timelines, Banners, NoBanner, Turn0
<1>3. CommandsInv /\ EventsInv
  BY <1>1, LimitsAssumption DEF Init, CommandsInv, EventsInv
<1>4. BackendInv
  BY <1>1 DEF Init, BackendInv, AtInv, Idle, NoCommand, NoEntry, Commands, Kinds, Turn0, Messages,
              Carries
<1>5. ServerInv
  BY <1>1 DEF Init, ServerInv, Turn0
<1> QED
  BY <1>2, <1>3, <1>4, <1>5 DEF TypeInv

-----------------------------------------------------------------------------
(* The user. *)

(* Appending to a sequence of a set. *)
LEMMA AppendTypes ==
    ASSUME NEW S, NEW s \in Seq(S), NEW x \in S
    PROVE  /\ Append(s, x) \in Seq(S) /\ Len(Append(s, x)) = Len(s) + 1
           /\ Append(s, x)[Len(s) + 1] = x
           /\ \A i \in 1..Len(s) : Append(s, x)[i] = s[i]
  OBVIOUS

(* Taking the head off a sequence of a set. *)
LEMMA TailTypes ==
    ASSUME NEW S, NEW s \in Seq(S), s # <<>>
    PROVE  /\ Head(s) \in S /\ Head(s) = s[1] /\ 1 \in 1..Len(s)
           /\ Tail(s) \in Seq(S) /\ Len(Tail(s)) = Len(s) - 1 /\ Len(s) \in Nat
           /\ \A i \in 1..Len(Tail(s)) : Tail(s)[i] = s[i + 1] /\ i + 1 \in 1..Len(s)
  OBVIOUS

(* Of several, something is left behind the head. *)
LEMMA TailLeft ==
    ASSUME NEW S, NEW s \in Seq(S), Len(s) > 1
    PROVE  Tail(s) # <<>>
<1>1. Tail(s) \in Seq(S) /\ Len(Tail(s)) = Len(s) - 1 /\ Len(s) \in Nat
  OBVIOUS
<1>2. Len(<<>>) = 0
  OBVIOUS
<1>3. Len(Tail(s)) # 0
  BY <1>1
<1> QED
  BY <1>2, <1>3

(* A command that is dispatched is queued or leaves a hole. *)
LEMMA DispatchTypes ==
    ASSUME UiInv, CommandsInv, NEW c \in Commands, Carries(c.kind, c), Dispatch(c)
    PROVE  CommandsInv' /\ holes' \subseteq {"refused", "offline", "missed"}
<1>1. CASE Len(commands) < CommandCapacity
  <2>1. /\ commands' = Append(commands, c) /\ holes' = holes
        /\ Append(commands, c) \in Seq(Commands)
        /\ Len(Append(commands, c)) = Len(commands) + 1
        /\ Append(commands, c)[Len(commands) + 1] = c
        /\ \A i \in 1..Len(commands) : Append(commands, c)[i] = commands[i]
        /\ Len(commands) \in Nat
    BY <1>1, AppendTypes DEF Dispatch, CommandsInv
  <2>2. Len(commands') <= CommandCapacity
    BY <1>1, <2>1, LimitsAssumption
  <2>3. ASSUME NEW i \in 1..Len(commands') PROVE Carries(commands'[i].kind, commands'[i])
    <3>1. CASE i = Len(commands) + 1
      BY <3>1, <2>1
    <3>2. CASE i \in 1..Len(commands)
      BY <3>2, <2>1 DEF CommandsInv
    <3> QED
      BY <2>1, <3>1, <3>2
  <2> QED
    BY <2>1, <2>2, <2>3 DEF CommandsInv, UiInv
<1>2. CASE ~(Len(commands) < CommandCapacity)
  BY <1>2 DEF Dispatch, Hole, CommandsInv, UiInv
<1> QED
  BY <1>1, <1>2

(* The queues and the other threads do not change. *)
LEMMA Elsewhere ==
    /\ UNCHANGED <<events, backend, connected, cache, serverVars>> /\ EventsInv /\ BackendInv
       /\ ServerInv => EventsInv' /\ BackendInv' /\ ServerInv'
    /\ UNCHANGED commands /\ CommandsInv => CommandsInv'
  BY DEF EventsInv, BackendInv, AtInv, ServerInv, CommandsInv, serverVars

(* A draft that is cleared. *)
LEMMA ClearTypes ==
    ASSUME UiInv, ClearDraft
    PROVE  composer' \subseteq Pieces /\ draft' \in Nat
  BY DEF UiInv, ClearDraft

(* A chat that is asked for. *)
LEMMA AskTypes ==
    ASSUME UiInv, CommandsInv, AskRuntime
    PROVE  tl' \in Timelines /\ CommandsInv' /\ holes' \subseteq {"refused", "offline", "missed"}
<1>0. tl \in Timelines /\ tl.generation + 1 \in Nat
  BY DEF UiInv, Timelines
<1>1. tl' \in Timelines
  BY <1>0 DEF AskRuntime, Timelines
<1>2. Resume \in Commands /\ Carries(Resume.kind, Resume)
  BY <1>0 DEF Resume, NoCommand, Commands, Carries, Kinds, Turn0, Messages, UiInv, Timelines
<1> QED
  BY <1>1, <1>2, DispatchTypes DEF AskRuntime

(* What the user does keeps the types. *)
LEMMA UserTypes == TypeInv /\ User => TypeInv'
<1> SUFFICES ASSUME TypeInv, User PROVE TypeInv'
  OBVIOUS
<1> USE DEF TypeInv
<1>1. EventsInv' /\ BackendInv' /\ ServerInv' /\ online' = online
  BY Elsewhere DEF User, Type, Submit, Stop, Retry, DismissBanner, Select, notUser
<1>2. CASE Type
  <2>1. CommandsInv'
    BY <1>2, Elsewhere DEF Type
  <2>2. typed + 1 \in Pieces
    BY <1>2, LimitsAssumption DEF Type, UiInv, Pieces
  <2>3. UiInv'
    BY <1>1, <1>2, <2>2, LimitsAssumption DEF Type, UiInv, Pieces
  <2> QED
    BY <1>1, <2>1, <2>3
<1>3. CASE Submit
  <2> DEFINE c == [NoCommand EXCEPT !.kind = IF tl.active = 0 THEN "start" ELSE "steer",
                                    !.turn = tl.active, !.message = composer, !.draft = draft]
  <2>1. c \in Commands /\ Carries(c.kind, c)
    BY <1>3 DEF Submit, NoCommand, Commands, Carries, Kinds, Messages, UiInv, Timelines
  <2>2. CommandsInv' /\ holes' \subseteq {"refused", "offline", "missed"}
    BY <1>3, <2>1, DispatchTypes DEF Submit
  <2>3. UiInv'
    BY <1>1, <1>3, <2>2 DEF Submit, UiInv, counters
  <2> QED
    BY <1>1, <2>2, <2>3
<1>4. CASE Stop
  <2> DEFINE c == [NoCommand EXCEPT !.kind = "stop", !.turn = tl.active]
  <2>1. c \in Commands /\ Carries(c.kind, c)
    BY DEF NoCommand, Commands, Carries, Kinds, Messages, UiInv, Timelines
  <2>2. CommandsInv' /\ holes' \subseteq {"refused", "offline", "missed"}
    BY <1>4, <2>1, DispatchTypes DEF Stop
  <2>3. UiInv'
    BY <1>1, <1>4, <2>2 DEF Stop, UiInv, Timelines
  <2> QED
    BY <1>1, <2>2, <2>3
<1>5. CASE Retry
  <2> DEFINE c == [NoCommand EXCEPT !.kind = "retry", !.turn = tl.active, !.messages = tl.retry]
  <2>1. c \in Commands /\ Carries(c.kind, c)
    BY <1>5 DEF Retry, NoCommand, Commands, Carries, Kinds, Messages, UiInv, Timelines
  <2>2. CommandsInv' /\ holes' \subseteq {"refused", "offline", "missed"}
    BY <1>5, <2>1, DispatchTypes DEF Retry
  <2>3. UiInv'
    BY <1>1, <1>5, <2>2 DEF Retry, UiInv, Timelines, Banners, counters
  <2> QED
    BY <1>1, <2>2, <2>3
<1>6. CASE DismissBanner
  <2>1. CommandsInv'
    BY <1>6, Elsewhere DEF DismissBanner
  <2>2. UiInv'
    BY <1>1, <1>6 DEF DismissBanner, UiInv, Timelines, Banners
  <2> QED
    BY <1>1, <2>1, <2>2
<1>7. ASSUME NEW chat \in {"here", "other"}, Select(chat) PROVE TypeInv'
  <2>1. composer' \subseteq Pieces /\ draft' \in Nat
    BY <1>7, ClearTypes DEF Select, UiInv
  <2>2. tl' \in Timelines /\ CommandsInv' /\ holes' \subseteq {"refused", "offline", "missed"}
    <3>1. CASE chat = "here"
      BY <1>7, <3>1, AskTypes DEF Select
    <3>2. CASE chat # "here"
      BY <1>7, <3>2, Elsewhere DEF Select, UiInv
    <3> QED
      BY <3>1, <3>2
  <2>3. UiInv'
    BY <1>1, <1>7, <2>1, <2>2 DEF Select, UiInv
  <2> QED
    BY <1>1, <2>2, <2>3
<1> QED
  BY <1>2, <1>3, <1>4, <1>5, <1>6, <1>7 DEF User

-----------------------------------------------------------------------------
(* The reducer. *)

(* The event that is reduced leaves the queue; the backend does not move.    *)
LEMMA NextTypes ==
    ASSUME TypeInv, NEW kind, NextIs(kind)
    PROVE  /\ Said \in Events /\ Said.kind = kind
           /\ EventsInv' /\ BackendInv' /\ ServerInv' /\ typed' = typed
<1>1. Said \in Events /\ Tail(events) \in Seq(Events) /\ Len(Tail(events)) = Len(events) - 1
      /\ Len(events) \in Nat
  BY TailTypes DEF TypeInv, EventsInv, NextIs, Said
<1>2. EventsInv'
  BY <1>1, LimitsAssumption DEF TypeInv, EventsInv, NextIs
<1> QED
  BY <1>1, <1>2 DEF NextIs, Said, TypeInv, BackendInv, AtInv, ServerInv, serverVars, counters

(* A timeline that is made quiet. *)
LEMMA QuietTypes ==
    ASSUME NEW t \in Timelines
    PROVE  /\ Quiet(t) \in Timelines
           /\ Quiet(t) = [t EXCEPT !.retry = <<>>, !.banner = NoBanner]
  BY DEF Quiet, Timelines, Banners, NoBanner, Turn0

(* A banner whose availability is set. *)
LEMMA AvailableTypes ==
    ASSUME NEW b \in Banners, NEW now \in BOOLEAN
    PROVE  /\ Available(b, now) \in Banners /\ Available(b, now).available = now
           /\ Available(b, now).turn = b.turn /\ Available(b, now).model = b.model
  BY DEF Available, Banners

(* Only the timeline changes. *)
LEMMA TimelineTypes ==
    ASSUME TypeInv, NEW kind, NextIs(kind), NEW new \in Timelines, Timeline(new) \/ Same
    PROVE  TypeInv'
  BY NextTypes, Elsewhere
  DEF TypeInv, UiInv, Timeline, Same, Draft

(* What the reducer does keeps the types. *)
LEMMA ReduceTypes == TypeInv /\ Reduce => TypeInv'
<1> SUFFICES ASSUME TypeInv, Reduce PROVE TypeInv'
  OBVIOUS
<1>0. tl \in Timelines /\ tl.banner \in Banners
  BY DEF TypeInv, UiInv, Timelines
<1>1. CASE ReduceStarted
  <2>1. Said.turn \in Turn0
    BY <1>1, NextTypes, EventFields DEF ReduceStarted
  <2>2. [IF IsActive THEN tl ELSE Quiet(tl) EXCEPT !.active = Said.turn, !.stopping = FALSE]
           \in Timelines
    BY <1>0, <2>1, QuietTypes DEF Timelines
  <2> QED
    BY <1>1, <2>2, TimelineTypes DEF ReduceStarted
<1>2. CASE ReduceRecorded
  <2>1. Said.messages \in Batch
    BY <1>2, NextTypes, EventFields DEF ReduceRecorded
  <2>2. Available(tl.banner, tl.banner.model) \in Banners
    BY <1>0, AvailableTypes DEF Banners
  <2>3. [tl EXCEPT !.retry = Said.messages,
                   !.banner = IF @.turn = Said.turn THEN Available(@, @.model) ELSE @]
           \in Timelines
    BY <1>0, <2>1, <2>2 DEF Timelines
  <2> QED
    BY <1>2, <1>0, <2>3, TimelineTypes DEF ReduceRecorded
<1>3. CASE ReduceSteered
  <2>1. Said.message \in Message
    BY <1>3, NextTypes, EventFields DEF ReduceSteered
  <2>2. Available(tl.banner, FALSE) \in Banners
    BY <1>0, AvailableTypes
  <2>3. Len(tl.retry) \in 1..(MaxMessages - 1) => Append(tl.retry, Said.message) \in Batch
    <3>0. <<>> \in Seq(Message) /\ tl.retry \in Batch \cup {<<>>}
      BY <1>0 DEF Timelines
    <3>1. tl.retry \in Seq(Message)
      BY <3>0 DEF Batch
    <3> QED
      BY <2>1, <3>1, AppendTypes, LimitsAssumption DEF Batch
  <2>4. Len(tl.retry) \in 1..(MaxMessages - 1) =>
          [tl EXCEPT !.retry = Append(@, Said.message)] \in Timelines
    BY <1>0, <2>3 DEF Timelines
  <2>5. [tl EXCEPT !.retry = <<>>,
                   !.banner = IF @.turn = Said.turn THEN Available(@, FALSE) ELSE @]
           \in Timelines
    BY <1>0, <2>2 DEF Timelines
  <2> QED
    BY <1>3, <1>0, <2>4, <2>5, TimelineTypes DEF ReduceSteered
<1>4. CASE ReduceEnded
  <2>1. [tl EXCEPT !.active = 0, !.stopping = FALSE, !.retry = IF IsActive THEN <<>> ELSE @,
                   !.banner = IF @.turn = Said.turn THEN NoBanner ELSE @] \in Timelines
    BY <1>0 DEF Timelines, Banners, NoBanner, Turn0
  <2> QED
    BY <1>4, <1>0, <2>1, TimelineTypes DEF ReduceEnded
<1>5. CASE ReduceStopFailed
  <2>1. [tl EXCEPT !.stopping = FALSE] \in Timelines
    BY <1>0 DEF Timelines
  <2> QED
    BY <1>5, <2>1, TimelineTypes DEF ReduceStopFailed
<1>6. CASE ReduceBuffering
  <2> DEFINE t == Said.turn
             can == Said.model /\ tl.retry # <<>>
             old == IF tl.banner.turn = t THEN tl.banner
                    ELSE [NoBanner EXCEPT !.turn = t, !.available = can]
  <2>1. t \in Turn0 /\ can \in BOOLEAN /\ Said.model \in BOOLEAN
    BY <1>6, NextTypes, EventFields DEF ReduceBuffering
  <2>2. old \in Banners
    BY <1>0, <2>1 DEF NoBanner, Banners
  <2>3. [Available(old, can) EXCEPT !.model = Said.model] \in Banners
    <3>1. Available(old, can) \in Banners
      BY <2>1, <2>2, AvailableTypes
    <3> QED
      BY <2>1, <3>1 DEF Banners
  <2>4. NoBanner \in Banners
    BY DEF NoBanner, Banners, Turn0
  <2>5. \A b \in Banners : [tl EXCEPT !.banner = b] \in Timelines
    BY <1>0 DEF Timelines
  <2>6. [tl EXCEPT !.banner = IF @.turn = t THEN NoBanner ELSE @] \in Timelines
    BY <1>0, <2>4 DEF Timelines
  <2> QED
    BY <1>6, <1>0, <2>3, <2>4, <2>5, <2>6, TimelineTypes DEF ReduceBuffering
<1>7. CASE ReduceSpoke
  <2>1. Said.turn \in Turns
    BY <1>7, NextTypes, EventFields DEF ReduceSpoke
  <2>2. [IF IsActive THEN Quiet(tl) ELSE tl EXCEPT !.heard = @ \cup {Said.turn}] \in Timelines
    BY <1>0, <2>1, QuietTypes DEF Timelines
  <2> QED
    BY <1>7, <2>2, TimelineTypes DEF ReduceSpoke
<1>8. CASE ReduceRuntime
  <2>1. Said.turn \in Turn0
    BY <1>8, NextTypes, EventFields DEF ReduceRuntime
  <2> DEFINE loaded == [tl EXCEPT !.ready = TRUE, !.active = Said.turn,
                                  !.banner = IF @.turn = Said.turn THEN @ ELSE NoBanner]
  <2>2. loaded \in Timelines
    BY <1>0, <2>1 DEF Timelines, Banners, NoBanner, Turn0
  <2>3. [Quiet(loaded) EXCEPT !.stopping = FALSE] \in Timelines
    <3> HIDE DEF loaded
    <3> QED
      BY <2>2, QuietTypes DEF Timelines
  <2> QED
    BY <1>8, <1>0, <2>2, <2>3, TimelineTypes DEF ReduceRuntime
<1>9. CASE ReduceSubmissionFailed
  <2>1. Said.message \subseteq Pieces
    BY <1>9, NextTypes, EventFields DEF ReduceSubmissionFailed, Messages
  <2> QED
    BY <1>9, <2>1, NextTypes, Elsewhere DEF ReduceSubmissionFailed, Restore, TypeInv, UiInv
<1>10. CASE ReduceRetryFailed
  <2>1. Said.message \subseteq Pieces
    BY <1>10, NextTypes, EventFields DEF ReduceRetryFailed, Messages
  <2>2. tl' \in Timelines
    BY <1>0, <1>10 DEF ReduceRetryFailed, Timelines, Banners
  <2> QED
    BY <1>10, <2>1, <2>2, NextTypes, Elsewhere DEF ReduceRetryFailed, Restore, TypeInv, UiInv
<1>11. CASE ReduceCreated
  <2>1. composer' \subseteq Pieces /\ draft' \in Nat
    BY <1>11, ClearTypes DEF ReduceCreated, TypeInv
  <2> QED
    BY <1>11, <2>1, NextTypes, Elsewhere DEF ReduceCreated, TypeInv, UiInv
<1>12. CASE ReduceLost
  <2>1. CASE ~online
    BY <1>12, <1>0, <2>1, TimelineTypes DEF ReduceLost
  <2>2. CASE online
    <3> DEFINE b == [tl.banner EXCEPT !.pending = FALSE, !.dismissed = FALSE]
    <3>0. b \in Banners
      BY <1>0 DEF Banners
    <3>1. tl' \in Timelines
      BY <1>0, <1>12, <2>2, <3>0 DEF ReduceLost, Timelines
    <3> QED
      BY <1>12, <2>2, <3>1, NextTypes, Elsewhere DEF ReduceLost, Draft, TypeInv, UiInv
  <2> QED
    BY <2>1, <2>2
<1>13. CASE ReduceConnected
  <2>1. tl' \in Timelines /\ CommandsInv' /\ holes' \subseteq {"refused", "offline", "missed"}
    BY <1>13, AskTypes, Elsewhere DEF ReduceConnected, TypeInv, UiInv
  <2> QED
    BY <1>13, <2>1, NextTypes DEF ReduceConnected, Draft, TypeInv, UiInv
<1> QED
  BY <1>1, <1>2, <1>3, <1>4, <1>5, <1>6, <1>7, <1>8, <1>9, <1>10, <1>11, <1>12, <1>13
  DEF Reduce

-----------------------------------------------------------------------------
(* The banner. *)

(* A timeline whose banner is right. *)
Right(t) ==
    t.banner.turn # 0 =>
        /\ t.banner.turn = t.active
        /\ t.banner.available => t.banner.model /\ t.retry # <<>>

(* Without a banner, there is nothing to say. *)
LEMMA NoBannerIsRight == ASSUME NEW t, t.banner = NoBanner PROVE Right(t)
  BY DEF Right, NoBanner

(* What the user does, other than sending commands, hides the banner at most. *)
LEMMA UserKeepsBanner == TypeInv /\ Right(tl) /\ User => Right(tl')
<1> SUFFICES ASSUME TypeInv, Right(tl), User PROVE Right(tl')
  OBVIOUS
<1>0. tl \in Timelines
  BY DEF TypeInv, UiInv
<1>1. CASE Stop
  BY <1>0, <1>1 DEF Stop, Right, Timelines
<1>2. CASE Retry
  BY <1>0, <1>2 DEF Retry, Right, Timelines, Banners
<1>3. CASE DismissBanner
  BY <1>0, <1>3 DEF DismissBanner, Right, Timelines, Banners
<1>4. ASSUME NEW chat \in {"here", "other"}, Select(chat) PROVE Right(tl')
  BY <1>0, <1>4 DEF Select, AskRuntime, Right, Timelines
<1>5. CASE Type \/ Submit
  BY <1>5 DEF Type, Submit, Right
<1> QED
  BY <1>1, <1>2, <1>3, <1>4, <1>5 DEF User

(* Whatever the order of the events, the reducer keeps the banner right. *)
LEMMA ReduceKeepsBanner == TypeInv /\ Right(tl) /\ Reduce => Right(tl')
<1> SUFFICES ASSUME TypeInv, Right(tl), Reduce PROVE Right(tl')
  OBVIOUS
<1>0. tl \in Timelines /\ tl.banner \in Banners
  BY DEF TypeInv, UiInv, Timelines
<1>1. CASE ReduceStarted
  <2>1. CASE IsActive
    BY <1>0, <1>1, <2>1 DEF ReduceStarted, Timeline, IsActive, Right, Timelines
  <2>2. CASE ~IsActive
    <3>1. tl'.banner = NoBanner
      BY <1>0, <1>1, <2>2, QuietTypes DEF ReduceStarted, Timeline, Timelines
    <3> QED
      BY <3>1, NoBannerIsRight
  <2> QED
    BY <2>1, <2>2
<1>2. CASE ReduceRecorded
  <2>1. Said.messages # <<>>
    BY <1>2, NextTypes, EventFields, LimitsAssumption DEF ReduceRecorded, Batch
  <2>2. LET b == Available(tl.banner, tl.banner.model)
        IN  b \in Banners /\ b.available = tl.banner.model /\ b.turn = tl.banner.turn
            /\ b.model = tl.banner.model
    BY <1>0, AvailableTypes DEF Banners
  <2> QED
    BY <1>0, <1>2, <2>1, <2>2 DEF ReduceRecorded, Timeline, Same, IsActive, Right, Timelines
<1>3. CASE ReduceSteered
  <2>1. LET b == Available(tl.banner, FALSE)
        IN  b \in Banners /\ b.available = FALSE /\ b.turn = tl.banner.turn
    BY <1>0, AvailableTypes
  <2>2. Len(tl.retry) \in 1..(MaxMessages - 1) => Append(tl.retry, Said.message) # <<>>
    <3>0. <<>> \in Seq(Message) /\ tl.retry \in Batch \cup {<<>>}
      BY <1>0 DEF Timelines
    <3>1. tl.retry \in Seq(Message) /\ Said.message \in Message
      BY <1>3, <3>0, NextTypes, EventFields DEF Batch, ReduceSteered
    <3> QED
      BY <3>1, AppendTypes
  <2> QED
    BY <1>0, <1>3, <2>1, <2>2
    DEF ReduceSteered, Timeline, Same, IsActive, Right, Timelines
<1>4. CASE ReduceEnded
  <2>1. CASE tl.active \notin {0, Said.turn}
    BY <1>4, <2>1 DEF ReduceEnded, Same
  <2>2. CASE tl.active \in {0, Said.turn}
    <3>1. /\ tl'.active = 0
          /\ tl'.banner = IF tl.banner.turn = Said.turn THEN NoBanner ELSE tl.banner
      BY <1>0, <1>4, <2>2 DEF ReduceEnded, Timeline, Timelines
    <3>2. CASE tl.banner.turn = Said.turn
      BY <3>1, <3>2, NoBannerIsRight
    <3>3. CASE tl.banner.turn # Said.turn
      BY <2>2, <3>1, <3>3 DEF Right
    <3> QED
      BY <3>2, <3>3
  <2> QED
    BY <2>1, <2>2
<1>5. CASE ReduceStopFailed
  BY <1>0, <1>5 DEF ReduceStopFailed, Timeline, Right, Timelines
<1>6. CASE ReduceBuffering
  <2> DEFINE t == Said.turn
             can == Said.model /\ tl.retry # <<>>
             old == IF tl.banner.turn = t THEN tl.banner
                    ELSE [NoBanner EXCEPT !.turn = t, !.available = can]
             new == [Available(old, can) EXCEPT !.model = Said.model]
  <2>1. t \in Turn0 /\ can \in BOOLEAN /\ Said.model \in BOOLEAN
    BY <1>6, NextTypes, EventFields DEF ReduceBuffering
  <2>2. old \in Banners /\ old.turn = t
    BY <1>0, <2>1 DEF NoBanner, Banners
  <2>3. new.turn = t /\ new.available = can /\ new.model = Said.model
    <3>1. LET b == Available(old, can) IN b \in Banners /\ b.available = can /\ b.turn = t
      BY <2>1, <2>2, AvailableTypes
    <3> HIDE DEF old
    <3> QED
      BY <3>1 DEF Banners
  <2>4. CASE ~IsActive
    BY <1>6, <2>4 DEF ReduceBuffering, Same
  <2>5. CASE IsActive /\ ~Said.show
    BY <1>0, <1>6, <2>5 DEF ReduceBuffering, Timeline, Right, Timelines, NoBanner
  <2>6. CASE IsActive /\ Said.show /\ tl' = [tl EXCEPT !.banner = NoBanner]
    BY <1>0, <2>6, NoBannerIsRight DEF Timelines
  <2>7. CASE IsActive /\ Said.show /\ tl' = [tl EXCEPT !.banner = new]
    <3>1. tl' = [tl EXCEPT !.banner = new]
      BY <2>7
    <3>2. tl'.banner = new /\ tl'.active = tl.active /\ tl'.retry = tl.retry
      <4> HIDE DEF new
      <4> QED
        BY <1>0, <3>1 DEF Timelines
    <3> QED
      BY <2>3, <2>7, <3>2 DEF Right, IsActive
  <2> QED
    BY <1>6, <2>4, <2>5, <2>6, <2>7 DEF ReduceBuffering, Timeline
<1>7. CASE ReduceSpoke
  <2>1. CASE IsActive
    <3>1. tl'.banner = NoBanner
      BY <1>0, <1>7, <2>1, QuietTypes DEF ReduceSpoke, Timeline, Timelines
    <3> QED
      BY <3>1, NoBannerIsRight
  <2>2. CASE ~IsActive
    BY <1>0, <1>7, <2>2 DEF ReduceSpoke, Timeline, IsActive, Right, Timelines
  <2> QED
    BY <2>1, <2>2
<1>8. CASE ReduceRuntime
  <2> DEFINE loaded == [tl EXCEPT !.ready = TRUE, !.active = Said.turn,
                                  !.banner = IF @.turn = Said.turn THEN @ ELSE NoBanner]
  <2>0. Said.turn \in Turn0
    BY <1>8, NextTypes, EventFields DEF ReduceRuntime
  <2>1. CASE Said.generation # tl.generation
    BY <1>8, <2>1 DEF ReduceRuntime, Same
  <2>2. CASE Said.generation = tl.generation /\ IsActive
    <3>1. /\ tl'.active = tl.active /\ tl'.retry = tl.retry
          /\ tl'.banner = IF tl.banner.turn = tl.active THEN tl.banner ELSE NoBanner
      BY <1>0, <1>8, <2>2 DEF ReduceRuntime, Timeline, IsActive, Timelines
    <3>2. CASE tl.banner.turn = tl.active
      BY <3>1, <3>2 DEF Right
    <3>3. CASE tl.banner.turn # tl.active
      BY <3>1, <3>3, NoBannerIsRight
    <3> QED
      BY <3>2, <3>3
  <2>3. CASE Said.generation = tl.generation /\ ~IsActive
    <3>1. tl' = [Quiet(loaded) EXCEPT !.stopping = FALSE]
      BY <1>8, <2>3 DEF ReduceRuntime, Timeline
    <3>2. loaded \in Timelines
      BY <1>0, <2>0 DEF Timelines, Banners, NoBanner, Turn0
    <3>3. tl'.banner = NoBanner
      <4> HIDE DEF loaded
      <4> QED
        BY <3>1, <3>2, QuietTypes DEF Timelines
    <3> QED
      BY <3>3, NoBannerIsRight
  <2> QED
    BY <2>1, <2>2, <2>3
<1>9. CASE ReduceSubmissionFailed \/ ReduceCreated
  BY <1>9 DEF ReduceSubmissionFailed, ReduceCreated, Right
<1>10. CASE ReduceRetryFailed
  BY <1>0, <1>10 DEF ReduceRetryFailed, Right, Timelines, Banners
<1>11. CASE ReduceLost
  <2>1. CASE online
    <3> DEFINE b == [tl.banner EXCEPT !.pending = FALSE, !.dismissed = FALSE]
    <3>0. b \in Banners /\ b.turn = tl.banner.turn /\ b.model = tl.banner.model
          /\ b.available = tl.banner.available
      BY <1>0 DEF Banners
    <3> QED
      BY <1>0, <1>11, <2>1, <3>0 DEF ReduceLost, Right, Timelines
  <2>2. CASE ~online
    BY <1>11, <2>2 DEF ReduceLost, Same
  <2> QED
    BY <2>1, <2>2
<1>12. CASE ReduceConnected
  BY <1>0, <1>12 DEF ReduceConnected, AskRuntime, Right, Timelines
<1> QED
  BY <1>1, <1>2, <1>3, <1>4, <1>5, <1>6, <1>7, <1>8, <1>9, <1>10, <1>11, <1>12 DEF Reduce

-----------------------------------------------------------------------------
(* The backend. *)

(* What is not the backend's stays. *)
LEMMA UiElsewhere ==
    ASSUME UiInv, UNCHANGED notBackend, UNCHANGED holes \/ Hole("missed") \/ Hole("offline")
    PROVE  UiInv'
  BY DEF UiInv, notBackend, uiVars, Hole

(* The command in hand is done. *)
LEMMA DoneTypes == ASSUME Done PROVE AtInv'
<1>1. <<>> \in Seq(Events)
  OBVIOUS
<1> QED
  BY <1>1 DEF Done, AtInv, Idle, NoCommand, Commands, Kinds, Turn0, Messages, Carries

(* Actions are to be emitted. *)
LEMMA ReplyTypes ==
    ASSUME NEW out \in Seq(Events), out # <<>>, Reply(out)
    PROVE  AtInv'
  BY DEF Reply, AtInv, Idle, NoCommand, Commands, Kinds, Turn0, Messages, Carries

(* One action is to be emitted, because of an error. *)
LEMMA FailTypes ==
    ASSUME BackendInv, NEW a \in Events, Fail(a), UNCHANGED connected
    PROVE  BackendInv'
<1>1. <<a>> \in Seq(Events) /\ <<a>> # <<>>
  OBVIOUS
<1> QED
  BY <1>1, ReplyTypes DEF Fail, BackendInv

(* A retry goes on to its next request. *)
LEMMA GotoTypes ==
    ASSUME BackendInv, NEW at \in {"check", "fork", "signal"}, Goto(at),
           Carries(at, backend.cmd), UNCHANGED <<connected, cache>>
    PROVE  BackendInv'
  BY DEF Goto, BackendInv, AtInv, Carries

(* The actions that tell of turns. *)
LEMMA NoteTypes ==
    ASSUME NEW t \in Turn0
    PROVE  /\ \A kind \in {"started", "ended", "stopFailed", "created", "lost", "connected"} :
                Note(kind, t) \in Events
           /\ t # 0 => Note("spoke", t) \in Events
           /\ \A show, model \in BOOLEAN : Buffering(t, show, model) \in Events
           /\ \A g \in Nat : Runtime(t, g) \in Events
           /\ \A m \in Message : Steered(t, m) \in Events
           /\ \A batch \in Batch : Recorded(t, batch) \in Events
           /\ \A m \in Messages : \A chat \in {"none", "here", "fork"} :
                RetryFailed(t, chat, m) \in Events
<1> USE DEF Events
<1>1. \A kind \in {"started", "ended", "stopFailed", "created", "lost", "connected"} :
                Note(kind, t) \in Events
  BY DEF Note
<1>2. t # 0 => Note("spoke", t) \in Events
  BY DEF Note, Turn0
<1>3. \A show, model \in BOOLEAN : Buffering(t, show, model) \in Events
  BY DEF Buffering
<1>4. \A g \in Nat : Runtime(t, g) \in Events
  BY DEF Runtime
<1>5. \A m \in Message : Steered(t, m) \in Events
  BY DEF Steered
<1>6. \A batch \in Batch : Recorded(t, batch) \in Events
  BY DEF Recorded
<1>7. \A m \in Messages : \A chat \in {"none", "here", "fork"} :
                RetryFailed(t, chat, m) \in Events
  BY DEF RetryFailed
<1> QED
  BY <1>1, <1>2, <1>3, <1>4, <1>5, <1>6, <1>7

(* The commands in hand. *)
LEMMA CmdTypes ==
    ASSUME BackendInv
    PROVE  /\ Cmd \in Commands /\ Carries(backend.at, Cmd)
           /\ SubmissionFailed(Cmd) \in Events
<1>1. Cmd \in Commands /\ Carries(backend.at, Cmd)
  BY DEF BackendInv, AtInv, Cmd
<1>2. Cmd.draft \in Nat /\ Cmd.message \in Messages
  BY <1>1 DEF Commands
<1>3. SubmissionFailed(Cmd) \in
        [kind : {"submissionFailed"}, draft : Nat, message : Messages]
  BY <1>2 DEF SubmissionFailed
<1> QED
  BY <1>1, <1>3 DEF Events

(* A command is taken off the queue, perhaps with the entry it is about. *)
LEMMA TakeTypes == TypeInv /\ (Take \/ TakeOffline) => TypeInv'
<1> SUFFICES ASSUME TypeInv, Take \/ TakeOffline PROVE TypeInv'
  OBVIOUS
<1> USE DEF TypeInv
<1>0. commands # <<>> /\ commands' = Tail(commands)
  BY DEF Take, TakeOffline
<1>1. /\ Head(commands) \in Commands /\ Head(commands) = commands[1] /\ 1 \in 1..Len(commands)
      /\ Tail(commands) \in Seq(Commands) /\ Len(Tail(commands)) = Len(commands) - 1
      /\ Len(commands) \in Nat
      /\ \A i \in 1..Len(Tail(commands)) :
           Tail(commands)[i] = commands[i + 1] /\ i + 1 \in 1..Len(commands)
  BY <1>0, TailTypes DEF CommandsInv
<1>2. CommandsInv'
  BY <1>0, <1>1, LimitsAssumption DEF CommandsInv
<1>3. Carries(Head(commands).kind, Head(commands))
  BY <1>1 DEF CommandsInv
<1>4. EventsInv' /\ ServerInv' /\ UiInv'
  BY UiElsewhere DEF Take, TakeOffline, EventsInv, ServerInv, serverVars
<1>5. CASE Take
  <2> DEFINE cmd == Head(commands)
             held == [cmd EXCEPT !.messages = cache.messages]
  <2>0. <<>> \in Seq(Events) /\ cmd.kind \in Kinds
    BY <1>1 DEF Commands
  <2>1. CASE cmd.kind = "retry" /\ cache.turn = cmd.turn
    <3>1. cmd.turn # 0
      BY <1>3, <2>1 DEF Carries
    <3>2. cache.messages \in Batch /\ cache.messages # <<>>
      BY <2>1, <3>1, LimitsAssumption DEF BackendInv, NoEntry, Batch
    <3>3. /\ held \in Commands /\ held.messages = cache.messages /\ held.kind = "retry"
          /\ held.turn = cmd.turn
      BY <1>1, <2>1, <3>2 DEF Commands
    <3>4. backend' = [Idle EXCEPT !.at = "retry", !.cached = TRUE, !.cmd = held]
          /\ cache' = NoEntry /\ connected' = connected
      BY <1>5, <2>1 DEF Take
    <3>5. AtInv'
      <4> HIDE DEF held
      <4> QED
        BY <2>0, <3>1, <3>2, <3>3, <3>4 DEF AtInv, Idle, Carries, Kinds
    <3> QED
      BY <1>2, <1>4, <3>4, <3>5 DEF BackendInv
  <2>2. CASE ~(cmd.kind = "retry" /\ cache.turn = cmd.turn)
    <3>1. backend' = [Idle EXCEPT !.at = cmd.kind, !.cmd = cmd]
          /\ cache' = cache /\ connected' = connected
      BY <1>5, <2>2 DEF Take
    <3>2. AtInv'
      BY <1>1, <1>3, <2>0, <3>1 DEF AtInv, Idle, Carries, Kinds
    <3> QED
      BY <1>2, <1>4, <3>1, <3>2 DEF BackendInv
  <2> QED
    BY <2>1, <2>2
<1>6. CASE TakeOffline
  <2>1. <<Note("lost", 0)>> \in Seq(Events) /\ <<Note("lost", 0)>> # <<>>
    BY NoteTypes DEF Turn0
  <2> QED
    BY <1>2, <1>4, <1>6, <2>1, ReplyTypes DEF TakeOffline, BackendInv
<1> QED
  BY <1>5, <1>6

(* The requests of the backend: what they change of the app-server and of    *)
(* the entry, and what they reply.                                           *)
LEMMA RequestTypes ==
    TypeInv /\ (RunStart \/ RunSteer \/ RunStop \/ RunResume) => TypeInv'
<1> SUFFICES ASSUME TypeInv, RunStart \/ RunSteer \/ RunStop \/ RunResume PROVE TypeInv'
  OBVIOUS
<1> USE DEF TypeInv
<1>0. /\ UiInv' /\ CommandsInv' /\ EventsInv' /\ connected' = connected
      /\ UNCHANGED serverVars => ServerInv'
  BY UiElsewhere, Elsewhere
  DEF RunStart, RunSteer, RunStop, RunResume, Asks, EventsInv, ServerInv, serverVars
<1>1. Cmd \in Commands /\ Carries(backend.at, Cmd) /\ SubmissionFailed(Cmd) \in Events
  BY CmdTypes
<1>2. 0 \in Turn0
  BY DEF Turn0
<1>3. CASE RunStart
  <2> DEFINE t == server.turns + 1
             batch == <<Cmd.message>>
             out == <<Note("started", t), Recorded(t, batch)>>
  <2>1. Cmd.message \in Message
    BY <1>1, <1>3 DEF RunStart, Asks, Carries, Commands, Message
  <2>2. batch \in Batch
    BY <2>1, Single
  <2>3. CASE /\ t \in Turns
             /\ server' = [server EXCEPT !.running = t, !.turns = t, !.halting = FALSE,
                                         !.spoke = FALSE]
             /\ notes' = Append(notes, Note("started", t))
    <3>1. t \in Turn0
      BY <2>3 DEF Turn0
    <3>2. Note("started", t) \in Events /\ Recorded(t, batch) \in Events
      BY <2>2, <3>1, NoteTypes
    <3>3. server' \in [alive : BOOLEAN, running : Turn0, turns : Turn0, halting : BOOLEAN,
                       spoke : BOOLEAN]
      <4> HIDE DEF t
      <4> QED
        BY <2>3, <3>1 DEF ServerInv
    <3>4. ServerInv'
      <4> HIDE DEF t
      <4> QED
        BY <2>3, <3>2, <3>3, AppendTypes DEF ServerInv
    <3>5. out \in Seq(Events) /\ out # <<>>
      BY <3>2
    <3>6. ASSUME cache' = [turn |-> t, messages |-> batch], Reply(out)
          PROVE  BackendInv'
      <4> HIDE DEF t, batch, out
      <4> QED
        BY <1>0, <2>2, <2>3, <3>5, <3>6, ReplyTypes DEF BackendInv
    <3>7. ASSUME Fail(SubmissionFailed(Cmd)) PROVE BackendInv'
      BY <1>0, <1>1, <3>7, FailTypes
    <3> QED
      BY <1>0, <1>3, <3>4, <3>6, <3>7, <1>1, FailTypes DEF RunStart, Ask
  <2>4. CASE UNCHANGED serverVars /\ Fail(SubmissionFailed(Cmd))
    BY <1>0, <1>1, <2>4, FailTypes
  <2> QED
    BY <1>3, <2>3, <2>4 DEF RunStart, Ask
<1>4. CASE RunSteer
  <2>1. Cmd.message \in Message /\ Cmd.turn \in Turn0
    BY <1>1, <1>4 DEF RunSteer, Asks, Carries, Commands, Message
  <2>2. ServerInv'
    BY <1>0, <1>4 DEF RunSteer, Ask, serverVars
  <2>3. CASE Fail(SubmissionFailed(Cmd))
    BY <1>0, <1>1, <2>2, <2>3, FailTypes
  <2>4. CASE RecordSteer /\ Reply(<<Steered(Cmd.turn, Cmd.message)>>)
    <3>1. Steered(Cmd.turn, Cmd.message) \in Events
      BY <2>1, NoteTypes
    <3>2. <<Steered(Cmd.turn, Cmd.message)>> \in Seq(Events)
          /\ <<Steered(Cmd.turn, Cmd.message)>> # <<>>
      BY <3>1
    <3>3. cache \in [turn : Turns, messages : Batch] /\ Len(cache.messages) # MaxMessages
            => Append(cache.messages, Cmd.message) \in Batch
      <4> SUFFICES ASSUME cache.messages \in Batch, Len(cache.messages) # MaxMessages
                   PROVE  Append(cache.messages, Cmd.message) \in Batch
        OBVIOUS
      <4>1. cache.messages \in Seq(Message) /\ Len(cache.messages) \in 1..MaxMessages
        BY DEF Batch
      <4> QED
        BY <4>1, <2>1, AppendTypes, LimitsAssumption DEF Batch
    <3>4. cache = NoEntry => cache.messages = <<>> /\ cache.turn = 0
      BY DEF NoEntry
    <3>5. cache' = NoEntry \/ cache' \in [turn : Turns, messages : Batch]
      <4>1. CASE cache = NoEntry
        <5>1. Cmd.turn # 0
          BY <1>1, <1>4 DEF RunSteer, Asks, Carries
        <5> QED
          BY <2>4, <3>4, <4>1, <5>1 DEF RecordSteer
      <4>2. CASE cache \in [turn : Turns, messages : Batch]
        BY <2>4, <3>3, <4>2 DEF RecordSteer
      <4> QED
        BY <4>1, <4>2 DEF BackendInv
    <3>6. BackendInv'
      BY <1>0, <2>4, <3>2, <3>5, ReplyTypes DEF BackendInv
    <3> QED
      BY <1>0, <2>2, <3>6
  <2> QED
    BY <1>4, <2>3, <2>4 DEF RunSteer, Ask
<1>5. CASE RunStop
  <2>1. ServerInv'
    <3>1. CASE Halt
      BY <3>1 DEF Halt, ServerInv
    <3>2. CASE UNCHANGED serverVars
      BY <1>0, <3>2
    <3> QED
      BY <1>5, <3>1, <3>2 DEF RunStop
  <2>2. <<Note("stopFailed", 0)>> \in Seq(Events) /\ <<Note("stopFailed", 0)>> # <<>>
    BY <1>2, NoteTypes
  <2>3. AtInv'
    BY <1>5, <2>2, ReplyTypes, DoneTypes DEF RunStop
  <2> QED
    BY <1>0, <1>5, <2>1, <2>3 DEF RunStop, BackendInv
<1>6. CASE RunResume
  <2>1. Runtime(server.running, Cmd.draft) \in Events
    BY <1>1, NoteTypes DEF ServerInv, Commands
  <2>2. <<Runtime(server.running, Cmd.draft)>> \in Seq(Events)
        /\ <<Runtime(server.running, Cmd.draft)>> # <<>>
    BY <2>1
  <2>3. AtInv'
    BY <1>6, <2>2, ReplyTypes, DoneTypes DEF RunResume
  <2> QED
    BY <1>0, <1>6, <2>3 DEF RunResume, BackendInv
<1> QED
  BY <1>3, <1>4, <1>5, <1>6

(* The four requests of a retry. *)
LEMMA RetryTypes ==
    TypeInv /\ (RetryInterrupt \/ RetryCheck \/ RetryFork \/ RetryRestart) => TypeInv'
<1> SUFFICES ASSUME TypeInv, RetryInterrupt \/ RetryCheck \/ RetryFork \/ RetryRestart
             PROVE  TypeInv'
  OBVIOUS
<1> USE DEF TypeInv
<1>0. /\ UiInv' /\ CommandsInv' /\ EventsInv' /\ connected' = connected
      /\ UNCHANGED serverVars => ServerInv'
  BY UiElsewhere, Elsewhere
  DEF RetryInterrupt, RetryCheck, RetryFork, RetryRestart, Asks, EventsInv, ServerInv,
      serverVars
<1>1. /\ Cmd \in Commands /\ Cmd.messages # <<>> /\ Cmd.turn \in Turn0 /\ Cmd.turn # 0
      /\ Cmd.messages \in Batch
  BY CmdTypes DEF RetryInterrupt, RetryCheck, RetryFork, RetryRestart, Asks, Carries, Commands
<1>2. Head(Cmd.messages) \in Messages /\ {} \in Messages
  BY <1>1, TailTypes DEF Batch, Message, Messages
<1>3. /\ RetryFailed(Cmd.turn, "none", {}) \in Events
      /\ \A chat \in {"here", "fork"} :
           RetryFailed(Cmd.turn, chat, Head(Cmd.messages)) \in Events
  BY <1>1, <1>2, NoteTypes
<1>4. ServerInv'
  <2>1. CASE Halt
    BY <2>1 DEF Halt, ServerInv
  <2>2. CASE UNCHANGED serverVars
    BY <1>0, <2>2
  <2> QED
    BY <2>1, <2>2 DEF RetryInterrupt, RetryCheck, RetryFork, RetryRestart, Ask
<1>5. CASE RetryInterrupt
  <2>1. CASE Goto("check") /\ UNCHANGED <<cache, acked>>
    BY <1>0, <1>1, <1>4, <2>1, GotoTypes DEF Carries, Cmd
  <2>2. CASE Fail(RetryFailed(Cmd.turn, "none", {}))
    BY <1>0, <1>3, <1>4, <2>2, FailTypes
  <2> QED
    BY <1>5, <2>1, <2>2 DEF RetryInterrupt, Ask
<1>6. ASSUME NEW chat \in {"here", "fork"}, GiveUp(chat) PROVE TypeInv'
  BY <1>0, <1>3, <1>4, <1>6, FailTypes DEF GiveUp
<1>7. CASE RetryCheck
  <2>1. CASE Goto("fork") /\ UNCHANGED <<cache, acked, extras>>
    BY <1>0, <1>1, <1>4, <2>1, GotoTypes DEF Carries, Cmd
  <2> QED
    BY <1>6, <1>7, <2>1 DEF RetryCheck
<1>8. CASE RetryFork
  <2> DEFINE out == <<Note("created", 0)>>
  <2>1. CASE /\ backend' = [backend EXCEPT !.at = "emit", !.out = out, !.then = "restart"]
             /\ UNCHANGED cache
    <3>1. out \in Seq(Events) /\ out # <<>>
      BY NoteTypes DEF Turn0
    <3>2. AtInv'
      <4> HIDE DEF out
      <4> QED
        BY <1>1, <2>1, <3>1 DEF BackendInv, AtInv, Carries, Cmd
    <3> QED
      BY <1>0, <1>4, <2>1, <3>2 DEF BackendInv
  <2> QED
    BY <1>6, <1>8, <2>1 DEF RetryFork
<1>9. CASE RetryRestart
  <2>1. CASE Done /\ UNCHANGED <<cache, acked>>
    BY <1>0, <1>4, <2>1, DoneTypes DEF BackendInv
  <2> QED
    BY <1>6, <1>9, <2>1 DEF RetryRestart, Ask
<1> QED
  BY <1>5, <1>7, <1>8, <1>9

(* An event that there is room for. *)
LEMMA EventTypes ==
    ASSUME EventsInv, EventRoom, NEW e \in Events, events' = Append(events, e)
    PROVE  EventsInv'
<1>1. Append(events, e) \in Seq(Events) /\ Len(Append(events, e)) = Len(events) + 1
      /\ Len(events) \in Nat
  BY AppendTypes DEF EventsInv
<1> QED
  BY <1>1, LimitsAssumption DEF EventsInv, EventRoom

(* An empty sequence of events. *)
LEMMA NothingToSay == <<>> \in Seq(Events)
  OBVIOUS

(* Emitting, losing the connection and getting it back. *)
LEMMA EmitTypes == TypeInv /\ (Emit \/ Signal \/ Reconnect) => TypeInv'
<1> SUFFICES ASSUME TypeInv, Emit \/ Signal \/ Reconnect PROVE TypeInv'
  OBVIOUS
<1> USE DEF TypeInv
<1>0. UiInv' /\ CommandsInv'
  BY UiElsewhere, Elsewhere DEF Emit, Signal, Reconnect
<1>1. Note("lost", 0) \in Events /\ Note("connected", 0) \in Events
  BY NoteTypes DEF Turn0
<1>2. CASE Emit
  <2>1. /\ backend.out \in Seq(Events) /\ backend.out # <<>> /\ Head(backend.out) \in Events
        /\ Tail(backend.out) \in Seq(Events) /\ Len(Tail(backend.out)) = Len(backend.out) - 1
        /\ Len(backend.out) \in Nat
    BY <1>2, TailTypes DEF Emit, BackendInv, AtInv
  <2>2. EventsInv'
    BY <1>2, <2>1, EventTypes DEF Emit, EventsInv
  <2>3. Len(backend.out) > 1 => Tail(backend.out) # <<>>
    BY <2>1, TailLeft
  <2>4. AtInv'
    BY <1>2, <2>1, <2>3, NothingToSay DEF Emit, BackendInv, AtInv, Carries
  <2> QED
    BY <1>0, <1>2, <2>2, <2>4 DEF Emit, BackendInv, ServerInv, serverVars
<1>3. CASE Signal
  BY <1>0, <1>1, <1>3, EventTypes, DoneTypes DEF Signal, BackendInv, ServerInv, serverVars
<1>4. CASE Reconnect
  <2>1. <<Note("connected", 0)>> \in Seq(Events) /\ <<Note("connected", 0)>> # <<>>
    BY <1>1
  <2> QED
    BY <1>0, <1>4, <2>1, ReplyTypes DEF Reconnect, BackendInv, EventsInv, ServerInv
<1> QED
  BY <1>2, <1>3, <1>4

(* What the app-server says, and how the backend takes it. *)
LEMMA ServerTypes == TypeInv /\ (Drain \/ Server) => TypeInv'
<1> SUFFICES ASSUME TypeInv, Drain \/ Server PROVE TypeInv'
  OBVIOUS
<1> USE DEF TypeInv
<1>1. UiInv' /\ CommandsInv'
  BY UiElsewhere, Elsewhere
  DEF Drain, Server, Speak, Buffer, Finish, Die, notServer, counters, UiInv, uiVars
<1>2. CASE Drain
  <2>0. notes # <<>>
    BY <1>2 DEF Drain
  <2>1. Head(notes) \in Events /\ Tail(notes) \in Seq(Events)
    BY <2>0, TailTypes DEF ServerInv
  <2>2. CASE Lose
    <3>1. BackendInv'
      BY <2>2 DEF Lose, Goto, BackendInv, AtInv, Carries
    <3> QED
      BY <1>1, <2>2, <3>1, NothingToSay DEF Lose, EventsInv, ServerInv, Turn0
  <2>3. CASE ~Lose
    <3>1. /\ events' = IF EventRoom THEN Append(events, Head(notes)) ELSE events
          /\ notes' = Tail(notes)
          /\ cache' = cache \/ cache' = NoEntry
          /\ UNCHANGED <<server, connected, backend>>
      BY <1>2, <2>3 DEF Drain
    <3>2. EventsInv'
      BY <2>1, <3>1, EventTypes DEF EventsInv
    <3> QED
      BY <1>1, <2>1, <3>1, <3>2 DEF BackendInv, AtInv, ServerInv
  <2> QED
    BY <2>2, <2>3
<1>3. CASE Server
  <2>1. EventsInv' /\ BackendInv'
    BY <1>3 DEF Server, Speak, Buffer, Finish, Die, notServer, EventsInv, BackendInv, AtInv
  <2>2. server.running \in Turn0 /\ 0 \in Turn0
    BY DEF ServerInv, Turn0
  <2>3. PICK note \in Events : Says(note)
    <3>1. CASE Speak
      BY <2>2, <3>1, NoteTypes DEF Speak
    <3>2. CASE Buffer
      BY <2>2, <3>2, NoteTypes DEF Buffer
    <3>3. CASE Finish
      BY <2>2, <3>3, NoteTypes DEF Finish
    <3>4. CASE Die
      BY <2>2, <3>4, NoteTypes DEF Die
    <3> QED
      BY <1>3, <3>1, <3>2, <3>3, <3>4 DEF Server
  <2>4. notes' \in Seq(Events)
    BY <2>3, AppendTypes DEF Says, ServerInv
  <2>5. server' \in [alive : BOOLEAN, running : Turn0, turns : Turn0, halting : BOOLEAN,
                     spoke : BOOLEAN]
    BY <1>3, <2>2 DEF Server, Speak, Buffer, Finish, Die, ServerInv
  <2> QED
    BY <1>1, <2>1, <2>4, <2>5 DEF ServerInv
<1> QED
  BY <1>2, <1>3

(* Every step keeps the types. *)
LEMMA StepTypes == TypeInv /\ [Next]_vars => TypeInv'
<1>1. TypeInv /\ UNCHANGED vars => TypeInv'
  BY DEF vars, uiVars, serverVars, history, counters, TypeInv, UiInv, CommandsInv, EventsInv,
         BackendInv, AtInv, ServerInv
<1> QED
  BY <1>1, UserTypes, ReduceTypes, TakeTypes, RequestTypes, RetryTypes, EmitTypes, ServerTypes
  DEF Next, Backend, Rest

(* The invariant implies the types that the runs check. *)
LEMMA TypesSuffice == TypeInv => TypeOK
<1> SUFFICES ASSUME TypeInv PROVE TypeOK
  OBVIOUS
<1> USE DEF TypeInv
<1>1. /\ composer \subseteq Pieces /\ draft \in Nat /\ selected \in {"here", "fork", "other"}
      /\ tl.active \in {0} \cup Turns /\ {tl.stopping, tl.ready, online, connected} \subseteq BOOLEAN
      /\ tl.generation \in Nat /\ tl.heard \subseteq Turns
      /\ tl.banner \in [turn : {0} \cup Turns, model : BOOLEAN, available : BOOLEAN,
                        dismissed : BOOLEAN, pending : BOOLEAN]
      /\ holes \subseteq {"refused", "offline", "missed"}
  BY DEF UiInv, Timelines, Banners, Turn0, BackendInv
<1>2. ASSUME NEW messages \in {tl.retry, cache.messages}
      PROVE  /\ Len(messages) <= MaxMessages
             /\ \A i \in DOMAIN messages : messages[i] \in Messages \ {{}}
  <2>1. messages \in Batch \cup {<<>>}
    BY DEF UiInv, Timelines, BackendInv, NoEntry
  <2>2. CASE messages = <<>>
    BY <2>2, LimitsAssumption
  <2>3. CASE messages \in Batch
    BY <2>3, LimitsAssumption DEF Batch, Message
  <2> QED
    BY <2>1, <2>2, <2>3
<1>3. Len(commands) <= CommandCapacity /\ \A i \in DOMAIN commands : commands[i].kind \in Kinds
  <2>1. \A i \in 1..Len(commands) : commands[i] \in Commands
    BY DEF CommandsInv
  <2>2. DOMAIN commands = 1..Len(commands)
    BY DEF CommandsInv
  <2> QED
    BY <2>1, <2>2 DEF CommandsInv, Commands
<1>4. Len(events) <= EventCapacity /\ \A i \in DOMAIN events : events[i].kind \in EventKinds
  <2>1. \A i \in 1..Len(events) : events[i] \in Events
    BY DEF EventsInv
  <2>2. DOMAIN events = 1..Len(events)
    BY DEF EventsInv
  <2> QED
    BY <2>1, <2>2, EventFields DEF EventsInv
<1>5. /\ backend.at \in {"idle", "check", "fork", "restart", "emit", "signal"} \cup Kinds
      /\ cache.turn \in {0} \cup Turns
      /\ server.running \in {0} \cup Turns /\ server.turns \in {0} \cup Turns
  BY DEF BackendInv, AtInv, ServerInv, Turn0, NoEntry
<1> QED
  BY <1>1, <1>2, <1>3, <1>4, <1>5 DEF TypeOK

(* Messages, snapshots and commands have their shapes, and the queues and    *)
(* the retry entries keep to their limits (lib.rs:12385, backend.rs:9815).   *)
THEOREM TypesHold == Spec => []TypeOK
  BY InitTypes, StepTypes, TypesSuffice, PTL DEF Spec

(* Only the user and the reducer touch the timeline. *)
LEMMA StepKeepsBanner == TypeInv /\ Right(tl) /\ [Next]_vars => Right(tl')
<1> SUFFICES ASSUME TypeInv, Right(tl), [Next]_vars PROVE Right(tl')
  OBVIOUS
<1>1. CASE User
  BY <1>1, UserKeepsBanner
<1>2. CASE Reduce
  BY <1>2, ReduceKeepsBanner
<1>3. CASE Backend \/ Drain \/ Server \/ Rest \/ UNCHANGED vars
  <2>1. tl' = tl
    BY <1>3
    DEF Backend, Take, TakeOffline, RunStart, RunSteer, RunStop, RunResume, RetryInterrupt,
        RetryCheck, RetryFork, RetryRestart, Emit, Signal, Reconnect, Drain, Server, Speak,
        Buffer, Finish, Die, Rest, Asks, notBackend, notServer, uiVars, vars
  <2> QED
    BY <2>1
<1> QED
  BY <1>1, <1>2, <1>3 DEF Next

-----------------------------------------------------------------------------
(* What is in the queues was sent: drafts and messages come from the composer. *)

(* A draft's generation is not ahead, and while it is the composer's own the *)
(* composer holds what has been sent already.                                *)
Timely == {d \in 0..draft : d = draft => composer \subseteq sent}

SentCommands == {c \in Commands : /\ c.message \subseteq sent /\ c.messages \in Seq(SUBSET sent)
                                  /\ c.kind \in {"start", "steer"} => c.draft \in Timely}
SentEvents ==
    {e \in Events : /\ e.kind \in {"steered", "submissionFailed", "retryFailed"}
                         => e.message \subseteq sent
                    /\ e.kind = "recorded" => e.messages \in Seq(SUBSET sent)
                    /\ e.kind = "submissionFailed" => e.draft \in Timely}

HandSent ==
    /\ backend.out \in Seq(SentEvents)
    /\ backend.cmd.message \subseteq sent /\ backend.cmd.messages \in Seq(SUBSET sent)
    /\ backend.at \in {"start", "steer"} => backend.cmd.draft \in Timely

(* Whatever message is queued, kept or in hand was sent; what may restore a draft *)
(* knows the generation it was taken at.                                          *)
SentInv ==
    /\ commands \in Seq(SentCommands) /\ events \in Seq(SentEvents)
    /\ HandSent /\ notes \in Seq(SentEvents)
    /\ cache.messages \in Seq(SUBSET sent) /\ tl.retry \in Seq(SUBSET sent)

(* A sequence of a set is one of a larger set. *)
LEMMA SeqGrows ==
    ASSUME NEW S, NEW T, S \subseteq T, NEW s \in Seq(S)
    PROVE  s \in Seq(T)
  OBVIOUS

(* The draft changes its generation when it grows by what was never sent. *)
Calm == /\ sent \subseteq sent' /\ draft' \in Nat /\ draft' >= draft
        /\ draft' = draft => composer' \subseteq composer \cup sent'

(* What has been sent stays sent, and what was timely stays so. *)
LEMMA SentGrows ==
    ASSUME TypeInv, Calm
    PROVE  /\ SentCommands \subseteq SentCommands' /\ SentEvents \subseteq SentEvents'
           /\ SUBSET sent \subseteq SUBSET sent'
           /\ Timely \subseteq Timely'
<1>0. draft \in Nat
  BY DEF TypeInv, UiInv
<1>1. Timely \subseteq Timely'
  <2> SUFFICES ASSUME NEW d \in Timely PROVE d \in Timely'
    OBVIOUS
  <2>1. d \in 0..draft' /\ (d = draft' => d = draft /\ draft' = draft)
    BY <1>0 DEF Timely, Calm
  <2>2. d = draft' => composer' \subseteq sent'
    BY <2>1 DEF Timely, Calm
  <2> QED
    BY <2>1, <2>2 DEF Timely
<1>2. SUBSET sent \subseteq SUBSET sent'
  BY DEF Calm
<1>3. \A s : s \in Seq(SUBSET sent) => s \in Seq(SUBSET sent')
  BY <1>2, SeqGrows
<1>4. SentCommands \subseteq SentCommands'
  <2> SUFFICES ASSUME NEW c \in SentCommands PROVE c \in SentCommands'
    OBVIOUS
  <2>1. /\ c \in Commands /\ c.draft \in Nat /\ c.message \subseteq sent
        /\ c.messages \in Seq(SUBSET sent)
        /\ c.kind \in {"start", "steer"} => c.draft \in Timely
    BY DEF SentCommands, Commands
  <2>2. c.kind \in {"start", "steer"} => c.draft \in Timely'
    BY <1>1, <2>1
  <2> QED
    BY <1>3, <2>1, <2>2 DEF SentCommands, Calm
<1>5. SentEvents \subseteq SentEvents'
  <2> SUFFICES ASSUME NEW e \in SentEvents PROVE e \in SentEvents'
    OBVIOUS
  <2>1. /\ e \in Events
        /\ e.kind \in {"steered", "submissionFailed", "retryFailed"} => e.message \subseteq sent
        /\ e.kind = "recorded" => e.messages \in Seq(SUBSET sent)
        /\ e.kind = "submissionFailed" => e.draft \in Timely
    BY DEF SentEvents
  <2>2. e.kind = "submissionFailed" => e.draft \in Timely'
    BY <1>1, <2>1, EventFields
  <2> QED
    BY <1>3, <2>1, <2>2 DEF SentEvents, Calm
<1> QED
  BY <1>1, <1>2, <1>4, <1>5

(* What stays where it was. *)
SentStays ==
    /\ commands \in Seq(SentCommands') /\ events \in Seq(SentEvents')
    /\ backend.out \in Seq(SentEvents') /\ notes \in Seq(SentEvents')
    /\ backend.cmd.message \subseteq sent' /\ backend.cmd.messages \in Seq(SUBSET sent')
    /\ backend.at \in {"start", "steer"} => backend.cmd.draft \in Timely'
    /\ cache.messages \in Seq(SUBSET sent') /\ tl.retry \in Seq(SUBSET sent')

(* A step that sends nothing, leaves the draft and only drops what is queued. *)
LEMMA SentKeeps == ASSUME TypeInv, SentInv, Calm PROVE SentStays
<1>1. /\ SentCommands \subseteq SentCommands' /\ SentEvents \subseteq SentEvents'
      /\ SUBSET sent \subseteq SUBSET sent'
      /\ Timely \subseteq Timely'
  BY SentGrows
<1>2. backend.cmd.draft \in Nat
  BY DEF TypeInv, BackendInv, AtInv, Commands
<1>3. backend.at \in {"start", "steer"} => backend.cmd.draft \in Timely'
  BY <1>1, <1>2 DEF SentInv, HandSent
<1>4. backend.cmd.message \subseteq sent'
  BY DEF SentInv, HandSent, Calm
<1> QED
  BY <1>1, <1>3, <1>4, SeqGrows DEF SentInv, HandSent, SentStays

(* A command that is dispatched. *)
LEMMA DispatchSends ==
    ASSUME SentStays, NEW c \in SentCommands', Dispatch(c)
    PROVE  commands' \in Seq(SentCommands')
  BY AppendTypes DEF SentStays, Dispatch

(* Nothing is written in a command to stop or to resume. *)
LEMMA AskSends ==
    ASSUME TypeInv, SentStays, AskRuntime
    PROVE  commands' \in Seq(SentCommands')
<1>0. tl \in Timelines /\ tl.generation + 1 \in Nat
  BY DEF TypeInv, UiInv, Timelines
<1>1. Resume \in Commands /\ Resume.message = {} /\ Resume.messages = <<>>
      /\ Resume.kind = "resume"
  BY <1>0 DEF Resume, NoCommand, Commands, Kinds, Turn0, Messages
<1>2. <<>> \in Seq(SUBSET sent')
  OBVIOUS
<1>3. Resume \in SentCommands'
  BY <1>1, <1>2 DEF SentCommands
<1> QED
  BY <1>3, DispatchSends DEF AskRuntime

(* What the user does. *)
LEMMA UserSends == TypeInv /\ SentInv /\ User => SentInv'
<1> SUFFICES ASSUME TypeInv, SentInv, User PROVE SentInv'
  OBVIOUS
<1>0. /\ composer \subseteq Pieces /\ draft \in Nat /\ tl \in Timelines
      /\ UNCHANGED <<events, backend, cache, notes>>
      /\ <<>> \in Seq(SUBSET sent')
  BY DEF TypeInv, UiInv, User, Type, Submit, Stop, Retry, DismissBanner, Select, notUser, serverVars
<1>1. Calm
  BY <1>0 DEF User, Type, Submit, Stop, Retry, DismissBanner, Select, ClearDraft, Calm, history
<1>2. SentStays
  BY <1>1, SentKeeps
<1>3. tl'.retry = tl.retry
  BY <1>0 DEF User, Type, Submit, Stop, Retry, DismissBanner, Select, AskRuntime, Timelines
<1>4. commands' \in Seq(SentCommands')
  <2>1. CASE Submit
    <3> DEFINE c == [NoCommand EXCEPT !.kind = IF tl.active = 0 THEN "start" ELSE "steer",
                                      !.turn = tl.active, !.message = composer, !.draft = draft]
    <3>1. c \in Commands
      BY <1>0 DEF NoCommand, Commands, Kinds, Messages, Timelines
    <3>2. c.message \subseteq sent' /\ c.draft \in Timely' /\ c.messages = <<>>
      BY <1>0, <2>1 DEF Submit, NoCommand, Timely
    <3>3. c \in SentCommands'
      <4> HIDE DEF c
      <4> QED
        BY <1>0, <3>1, <3>2 DEF SentCommands
    <3> QED
      BY <1>2, <2>1, <3>3, DispatchSends DEF Submit
  <2>2. CASE Stop
    <3> DEFINE c == [NoCommand EXCEPT !.kind = "stop", !.turn = tl.active]
    <3>1. c \in Commands /\ c.message = {} /\ c.messages = <<>> /\ c.kind = "stop"
      BY <1>0 DEF NoCommand, Commands, Kinds, Messages, Timelines
    <3>2. c \in SentCommands'
      <4> HIDE DEF c
      <4> QED
        BY <1>0, <3>1 DEF SentCommands
    <3> QED
      BY <1>2, <2>2, <3>2, DispatchSends DEF Stop
  <2>3. CASE Retry
    <3> DEFINE c == [NoCommand EXCEPT !.kind = "retry", !.turn = tl.active, !.messages = tl.retry]
    <3>1. c \in Commands /\ c.message = {} /\ c.messages = tl.retry /\ c.kind = "retry"
      BY <1>0 DEF NoCommand, Commands, Kinds, Messages, Timelines
    <3>2. c \in SentCommands'
      <4> HIDE DEF c
      <4> QED
        BY <1>2, <3>1 DEF SentCommands, SentStays
    <3> QED
      BY <1>2, <2>3, <3>2, DispatchSends DEF Retry
  <2>4. CASE Type \/ DismissBanner
    BY <1>2, <2>4 DEF Type, DismissBanner, SentStays
  <2>5. ASSUME NEW chat \in {"here", "other"}, Select(chat)
        PROVE  commands' \in Seq(SentCommands')
    BY <1>2, <2>5, AskSends DEF Select, SentStays
  <2> QED
    BY <2>1, <2>2, <2>3, <2>4, <2>5 DEF User
<1> QED
  BY <1>0, <1>2, <1>3, <1>4 DEF SentStays, SentInv, HandSent

(* What the reducer does to the messages that a retry would send. *)
LEMMA RetryMoves ==
    ASSUME TypeInv, Reduce
    PROVE  /\ Said \in Events /\ events # <<>> /\ events' = Tail(events) /\ holes \subseteq holes'
           /\ \/ tl'.retry = <<>>
              \/ /\ tl'.retry = tl.retry /\ tl'.active \in {0, tl.active}
                 /\ ~(Said.kind \in {"recorded", "steered"} /\ IsActive)
              \/ /\ IsActive /\ tl'.active = tl.active
                 /\ Said.kind = "recorded" /\ tl'.retry = Said.messages
              \/ /\ IsActive /\ tl'.active = tl.active /\ tl.retry # <<>>
                 /\ Said.kind = "steered" /\ tl'.retry = Append(tl.retry, Said.message)
<1> DEFINE Moved ==
             \/ tl'.retry = <<>>
             \/ /\ tl'.retry = tl.retry /\ tl'.active \in {0, tl.active}
                /\ ~(Said.kind \in {"recorded", "steered"} /\ IsActive)
             \/ /\ IsActive /\ tl'.active = tl.active
                /\ Said.kind = "recorded" /\ tl'.retry = Said.messages
             \/ /\ IsActive /\ tl'.active = tl.active /\ tl.retry # <<>>
                /\ Said.kind = "steered" /\ tl'.retry = Append(tl.retry, Said.message)
<1>0. tl \in Timelines
  BY DEF TypeInv, UiInv
<1>1. PICK kind : NextIs(kind)
  BY DEF Reduce, ReduceStarted, ReduceRecorded, ReduceSteered, ReduceEnded, ReduceStopFailed,
         ReduceBuffering, ReduceSpoke, ReduceRuntime, ReduceSubmissionFailed, ReduceRetryFailed,
         ReduceCreated, ReduceLost, ReduceConnected
<1>2. Said \in Events /\ events # <<>> /\ events' = Tail(events) /\ Said.kind = kind
  BY <1>1, NextTypes DEF NextIs
<1>3. holes \subseteq holes'
  BY DEF Reduce, ReduceStarted, ReduceRecorded, ReduceSteered, ReduceEnded, ReduceStopFailed,
         ReduceBuffering, ReduceSpoke, ReduceRuntime, ReduceSubmissionFailed, ReduceRetryFailed,
         ReduceCreated, ReduceLost, ReduceConnected, Timeline, Same, AskRuntime, Dispatch, Hole
<1>k. /\ ReduceRecorded => kind = "recorded"
      /\ ReduceSteered => kind = "steered"
      /\ ~ReduceRecorded /\ ~ReduceSteered => kind \notin {"recorded", "steered"}
  BY <1>1 DEF Reduce, ReduceStarted, ReduceRecorded, ReduceSteered, ReduceEnded, ReduceStopFailed,
         ReduceBuffering, ReduceSpoke, ReduceRuntime, ReduceSubmissionFailed, ReduceRetryFailed,
         ReduceCreated, ReduceLost, ReduceConnected, NextIs
<1>5. ASSUME ReduceRecorded PROVE Moved
  BY <1>0, <1>2, <1>5, <1>k DEF ReduceRecorded, Timeline, Same, Timelines
<1>6. ASSUME ReduceSteered PROVE Moved
  <2>1. Len(tl.retry) \in 1..(MaxMessages - 1) => tl.retry # <<>>
    OBVIOUS
  <2> QED
    BY <1>0, <1>2, <1>6, <1>k, <2>1 DEF ReduceSteered, Timeline, Same, Timelines
<1>q. Quiet(tl) \in Timelines /\ Quiet(tl).retry = <<>>
  BY <1>0, QuietTypes DEF Timelines
<1> HIDE DEF Moved
<1> DEFINE Kept == tl'.retry = <<>> \/ (tl'.retry = tl.retry /\ tl'.active \in {0, tl.active})
<1>7. ASSUME ~ReduceRecorded, ~ReduceSteered,
             \/ tl'.retry = <<>>
             \/ tl'.retry = tl.retry /\ tl'.active \in {0, tl.active}
      PROVE  Moved
  BY <1>2, <1>7, <1>k DEF Moved
<1>8. ASSUME ReduceStarted PROVE Kept
  <2>1. CASE IsActive
    BY <1>0, <1>8, <2>1 DEF ReduceStarted, Timeline, IsActive, Timelines
  <2>2. CASE ~IsActive
    BY <1>8, <1>q, <2>2 DEF ReduceStarted, Timeline, Timelines
  <2> QED
    BY <2>1, <2>2
<1>9. ASSUME ReduceEnded PROVE Kept
  BY <1>0, <1>9 DEF ReduceEnded, Timeline, Same, Timelines
<1>10. ASSUME ReduceStopFailed PROVE Kept
  BY <1>0, <1>10 DEF ReduceStopFailed, Timeline, Timelines
<1>11. ASSUME ReduceBuffering PROVE Kept
  <2>1. tl'.retry = tl.retry /\ tl'.active = tl.active
    BY <1>0, <1>11 DEF ReduceBuffering, Timeline, Same, Timelines
  <2> QED
    BY <2>1
<1>12. ASSUME ReduceSpoke PROVE Kept
  <2>1. CASE IsActive
    BY <1>12, <1>q, <2>1 DEF ReduceSpoke, Timeline, Timelines
  <2>2. CASE ~IsActive
    BY <1>0, <1>12, <2>2 DEF ReduceSpoke, Timeline, Timelines
  <2> QED
    BY <2>1, <2>2
<1>13. ASSUME ReduceRuntime PROVE Kept
  <2> DEFINE loaded == [tl EXCEPT !.ready = TRUE, !.active = Said.turn,
                                  !.banner = IF @.turn = Said.turn THEN @ ELSE NoBanner]
             quieted == [Quiet(loaded) EXCEPT !.stopping = FALSE]
  <2>1. Said.turn \in Turn0
    BY <1>13, NextTypes, EventFields DEF ReduceRuntime
  <2>2. loaded \in Timelines /\ loaded.retry = tl.retry /\ loaded.active = Said.turn
    BY <1>0, <2>1 DEF Timelines, Banners, NoBanner, Turn0
  <2>3. quieted.retry = <<>>
    <3> HIDE DEF loaded
    <3> DEFINE q == Quiet(loaded)
    <3>1. q \in Timelines /\ q = [loaded EXCEPT !.retry = <<>>, !.banner = NoBanner]
      BY <2>2, QuietTypes
    <3>2. q.retry = <<>>
      BY <2>2, <3>1 DEF Timelines
    <3> HIDE DEF q
    <3>3. [q EXCEPT !.stopping = FALSE].retry = <<>>
      BY <3>1, <3>2 DEF Timelines
    <3> QED
      BY <3>3 DEF q
  <2>4. tl' = tl \/ tl' = quieted \/ (tl' = loaded /\ IsActive)
    BY <1>13 DEF ReduceRuntime, Timeline, Same
  <2> HIDE DEF loaded, quieted
  <2>5. CASE tl' = tl
    BY <2>5
  <2>6. CASE tl' = quieted
    BY <2>3, <2>6
  <2>7. CASE tl' = loaded /\ IsActive
    BY <2>2, <2>7 DEF IsActive
  <2> QED
    BY <2>4, <2>5, <2>6, <2>7
<1>14. ASSUME ReduceSubmissionFailed \/ ReduceCreated PROVE Kept
  BY <1>14 DEF ReduceSubmissionFailed, ReduceCreated
<1>15. ASSUME ReduceRetryFailed PROVE Kept
  BY <1>0, <1>15 DEF ReduceRetryFailed, Timelines
<1>a. ASSUME ReduceLost PROVE Kept
  BY <1>0, <1>a DEF ReduceLost, Same, Timelines
<1>b. ASSUME ReduceConnected PROVE Kept
  BY <1>0, <1>b DEF ReduceConnected, AskRuntime, Timelines
<1>16. Moved
  <2>1. CASE ReduceRecorded \/ ReduceSteered
    BY <1>5, <1>6, <2>1
  <2>2. CASE ~ReduceRecorded /\ ~ReduceSteered
    <3>1. Kept
      BY <1>8, <1>9, <1>10, <1>11, <1>12, <1>13, <1>14, <1>15, <1>a, <1>b, <2>2 DEF Reduce
    <3> QED
      BY <1>7, <2>2, <3>1
  <2> QED
    BY <2>1, <2>2
<1> QED
  BY <1>2, <1>3, <1>16 DEF Moved

(* What the reducer does. *)
LEMMA ReduceSends == TypeInv /\ SentInv /\ Reduce => SentInv'
<1> SUFFICES ASSUME TypeInv, SentInv, Reduce PROVE SentInv'
  OBVIOUS
<1>0. composer \subseteq Pieces /\ draft \in Nat /\ tl \in Timelines
  BY DEF TypeInv, UiInv
<1>1. UNCHANGED <<backend, cache, notes, sent>>
  BY DEF Reduce, ReduceStarted, ReduceRecorded, ReduceSteered, ReduceEnded, ReduceStopFailed,
         ReduceBuffering, ReduceSpoke, ReduceRuntime, ReduceSubmissionFailed, ReduceRetryFailed,
         ReduceCreated, ReduceLost, ReduceConnected, NextIs, serverVars
<1>2. Said \in SentEvents /\ Tail(events) \in Seq(SentEvents) /\ Said \in Events
  <2>1. events # <<>>
    BY RetryMoves
  <2> QED
    BY <2>1, RetryMoves, TailTypes DEF SentInv, Said
<1>3. Calm
  <2>1. CASE ReduceSubmissionFailed \/ ReduceRetryFailed
    <3>1. Said.message \subseteq sent
      BY <1>2, <2>1 DEF ReduceSubmissionFailed, ReduceRetryFailed, NextIs, Said, SentEvents
    <3> QED
      BY <1>0, <1>1, <2>1, <3>1 DEF ReduceSubmissionFailed, ReduceRetryFailed, Restore, Calm
  <2>2. CASE ReduceCreated
    BY <1>0, <1>1, <2>2 DEF ReduceCreated, ClearDraft, Calm
  <2>3. CASE UNCHANGED <<composer, draft>>
    BY <1>0, <1>1, <2>3 DEF Calm
  <2> QED
    BY <2>1, <2>2, <2>3
    DEF Reduce, ReduceStarted, ReduceRecorded, ReduceSteered, ReduceEnded, ReduceStopFailed,
        ReduceBuffering, ReduceSpoke, ReduceRuntime, ReduceLost, ReduceConnected, Timeline, Same,
        Draft
<1>4. SentStays
  BY <1>3, SentKeeps
<1>5. events' \in Seq(SentEvents')
  <2>1. SentEvents \subseteq SentEvents'
    BY <1>3, SentGrows
  <2> QED
    BY <1>2, <2>1, RetryMoves, SeqGrows
<1>6. tl'.retry \in Seq(SUBSET sent')
  <2>1. <<>> \in Seq(SUBSET sent')
    OBVIOUS
  <2>2. tl.retry \in Seq(SUBSET sent')
    BY <1>4 DEF SentStays
  <2>3. Said.kind = "recorded" => Said.messages \in Seq(SUBSET sent')
    BY <1>1, <1>2 DEF SentEvents
  <2>4. Said.kind = "steered" => Said.message \in SUBSET sent'
    BY <1>1, <1>2 DEF SentEvents
  <2>5. Said.kind = "steered" => Append(tl.retry, Said.message) \in Seq(SUBSET sent')
    BY <2>2, <2>4, AppendTypes
  <2> QED
    BY <2>1, <2>2, <2>3, <2>5, RetryMoves
<1>7. commands' \in Seq(SentCommands')
  <2>1. CASE ReduceConnected /\ selected = "here"
    BY <1>4, <2>1, AskSends DEF ReduceConnected
  <2>2. CASE commands' = commands
    BY <1>4, <2>2 DEF SentStays
  <2> QED
    BY <2>1, <2>2
    DEF Reduce, ReduceStarted, ReduceRecorded, ReduceSteered, ReduceEnded, ReduceStopFailed,
        ReduceBuffering, ReduceSpoke, ReduceRuntime, ReduceSubmissionFailed, ReduceRetryFailed,
        ReduceCreated, ReduceLost, ReduceConnected, Timeline, Same
<1> QED
  BY <1>1, <1>4, <1>5, <1>6, <1>7 DEF SentStays, SentInv, HandSent

(* The backend changes nothing of the user's and of what is behind it. *)
LEMMA BackendCalm ==
    ASSUME TypeInv, SentInv, UNCHANGED <<notBackend, sent>>
    PROVE  /\ SentStays /\ Timely' = Timely /\ sent' = sent /\ tl' = tl
           /\ SentEvents' = SentEvents /\ SentCommands' = SentCommands
<1>1. UNCHANGED <<composer, draft, sent, tl>> /\ draft \in Nat
  BY DEF notBackend, uiVars, TypeInv, UiInv
<1>2. Calm
  BY <1>1 DEF Calm
<1> QED
  BY <1>1, <1>2, SentKeeps DEF Timely, SentEvents, SentCommands

(* What is done or replied holds nothing that was not sent. *)
LEMMA ReplySends ==
    ASSUME NEW out \in Seq(SentEvents'), Reply(out) \/ (Done /\ out = <<>>)
    PROVE  HandSent'
<1>1. <<>> \in Seq(SUBSET sent')
  OBVIOUS
<1>2. CASE Reply(out)
  BY <1>1, <1>2 DEF Reply, Idle, NoCommand, HandSent
<1>3. CASE Done /\ out = <<>>
  BY <1>1, <1>3 DEF Done, Idle, NoCommand, HandSent
<1> QED
  BY <1>2, <1>3

(* The actions of the backend, and the entry with them. *)
LEMMA FailSends ==
    ASSUME SentStays, NEW a \in SentEvents', Fail(a)
    PROVE  HandSent' /\ cache'.messages \in Seq(SUBSET sent')
<1>1. <<a>> \in Seq(SentEvents')
  OBVIOUS
<1> QED
  BY <1>1, ReplySends DEF Fail, SentStays

(* A notice holds no message. *)
LEMMA NotesSend ==
    ASSUME NEW e \in Events,
           e.kind \notin {"steered", "submissionFailed", "retryFailed", "recorded"}
    PROVE  e \in SentEvents
  BY DEF SentEvents

(* A command is taken off the queue. *)
LEMMA TakeSends == TypeInv /\ SentInv /\ (Take \/ TakeOffline) => SentInv'
<1> SUFFICES ASSUME TypeInv, SentInv, Take \/ TakeOffline PROVE SentInv'
  OBVIOUS
<1>1. /\ SentStays /\ Timely' = Timely /\ sent' = sent /\ tl' = tl
      /\ SentEvents' = SentEvents /\ SentCommands' = SentCommands
  BY BackendCalm DEF Take, TakeOffline, history
<1>2. /\ commands # <<>> /\ commands' = Tail(commands)
      /\ UNCHANGED <<events, notes>>
  BY DEF Take, TakeOffline, serverVars
<1>3. Head(commands) \in SentCommands /\ Tail(commands) \in Seq(SentCommands)
  BY <1>2, TailTypes DEF SentInv
<1>4. <<>> \in Seq(SUBSET sent') /\ <<>> \in Seq(SentEvents')
  OBVIOUS
<1>5. ASSUME HandSent', cache'.messages \in Seq(SUBSET sent') PROVE SentInv'
  BY <1>1, <1>2, <1>3, <1>5 DEF SentInv, SentStays
<1>6. CASE Take
  <2> DEFINE cmd == Head(commands)
             held == [cmd EXCEPT !.messages = cache.messages]
  <2>0. /\ cmd \in Commands /\ cmd.message \subseteq sent /\ cmd.messages \in Seq(SUBSET sent)
        /\ cmd.kind \in {"start", "steer"} => cmd.draft \in Timely
    BY <1>3 DEF SentCommands
  <2>1. CASE cmd.kind = "retry" /\ cache.turn = cmd.turn
    <3>1. held.message = cmd.message /\ held.messages = cache.messages
      BY <2>0 DEF Commands
    <3>2. backend' = [Idle EXCEPT !.at = "retry", !.cached = TRUE, !.cmd = held]
          /\ cache' = NoEntry
      BY <1>6, <2>1 DEF Take
    <3>3. HandSent'
      <4> HIDE DEF cmd, held
      <4> QED
        BY <1>1, <1>4, <2>0, <3>1, <3>2 DEF HandSent, Idle, SentStays
    <3> QED
      BY <1>4, <1>5, <3>2, <3>3 DEF NoEntry
  <2>2. CASE ~(cmd.kind = "retry" /\ cache.turn = cmd.turn)
    <3>1. backend' = [Idle EXCEPT !.at = cmd.kind, !.cmd = cmd] /\ cache' = cache
      BY <1>6, <2>2 DEF Take
    <3>2. HandSent'
      <4> HIDE DEF cmd
      <4> QED
        BY <1>1, <1>4, <2>0, <3>1 DEF HandSent, Idle
    <3> QED
      BY <1>1, <1>5, <3>1, <3>2 DEF SentStays
  <2> QED
    BY <2>1, <2>2
<1>7. CASE TakeOffline
  <2>1. Note("lost", 0) \in SentEvents'
    BY <1>1, NoteTypes, NotesSend DEF Turn0, Note
  <2>2. <<Note("lost", 0)>> \in Seq(SentEvents')
    BY <2>1
  <2>3. HandSent'
    BY <1>7, <2>2, ReplySends DEF TakeOffline
  <2> QED
    BY <1>1, <1>5, <1>7, <2>3 DEF TakeOffline, SentStays
<1> QED
  BY <1>6, <1>7

(* The requests of the backend for a turn of the chat. *)
LEMMA RequestSends ==
    TypeInv /\ SentInv /\ (RunStart \/ RunSteer \/ RunStop \/ RunResume) => SentInv'
<1> SUFFICES ASSUME TypeInv, SentInv, RunStart \/ RunSteer \/ RunStop \/ RunResume
             PROVE  SentInv'
  OBVIOUS
<1>1. /\ SentStays /\ Timely' = Timely /\ sent' = sent /\ tl' = tl
      /\ SentEvents' = SentEvents /\ SentCommands' = SentCommands
  BY BackendCalm DEF RunStart, RunSteer, RunStop, RunResume, Asks
<1>2. UNCHANGED <<commands, events>>
  BY DEF RunStart, RunSteer, RunStop, RunResume, Asks
<1>3. /\ Cmd \in Commands /\ Carries(backend.at, Cmd) /\ SubmissionFailed(Cmd) \in Events
      /\ Cmd.message \subseteq sent /\ Cmd.turn \in Turn0 /\ server.turns \in Turn0
      /\ server.running \in Turn0
  BY CmdTypes DEF TypeInv, SentInv, HandSent, Cmd, Commands, ServerInv
<1>4. ASSUME HandSent', cache'.messages \in Seq(SUBSET sent'), notes' \in Seq(SentEvents')
      PROVE  SentInv'
  BY <1>1, <1>2, <1>4 DEF SentInv, SentStays
<1>5. /\ notes \in Seq(SentEvents') /\ cache.messages \in Seq(SUBSET sent')
      /\ UNCHANGED serverVars => notes' \in Seq(SentEvents')
  BY <1>1 DEF SentStays, serverVars
<1>6. backend.at \in {"start", "steer"} => SubmissionFailed(Cmd) \in SentEvents'
  BY <1>1, <1>3 DEF SentEvents, SubmissionFailed, SentInv, HandSent, Cmd
<1>7. ASSUME Fail(SubmissionFailed(Cmd)), notes' \in Seq(SentEvents'),
             backend.at \in {"start", "steer"}
      PROVE  SentInv'
  BY <1>1, <1>4, <1>6, <1>7, FailSends
<1>8. CASE RunStart
  <2> DEFINE t == server.turns + 1
             batch == <<Cmd.message>>
             started == Note("started", t)
             recorded == Recorded(t, batch)
  <2>0. /\ backend.at = "start" /\ Cmd.message \in Message /\ batch \in Batch
        /\ batch \in Seq(SUBSET sent')
    <3>1. backend.at = "start" /\ Cmd.message \in Message /\ Cmd.message \in SUBSET sent'
      BY <1>1, <1>3, <1>8 DEF RunStart, Asks, Carries, Commands, Message
    <3> QED
      BY <3>1, Single
  <2>1. CASE UNCHANGED serverVars /\ Fail(SubmissionFailed(Cmd))
    BY <1>5, <1>7, <2>0, <2>1
  <2>2. CASE t \in Turns /\ notes' = Append(notes, started)
    <3>1. t \in Turn0
      BY <2>2 DEF Turn0
    <3>2. started \in SentEvents'
      <4>1. started \in Events /\ started.kind = "started"
        BY <3>1, NoteTypes DEF Note
      <4> QED
        BY <1>1, <4>1, NotesSend
    <3>3. recorded \in SentEvents'
      <4>1. recorded \in Events
        BY <2>0, <3>1, NoteTypes
      <4>2. recorded.kind = "recorded" /\ recorded.messages = batch
        BY DEF Recorded
      <4> HIDE DEF recorded, batch
      <4> QED
        BY <2>0, <4>1, <4>2 DEF SentEvents
    <3>4. notes' \in Seq(SentEvents')
      <4> HIDE DEF started
      <4> QED
        BY <1>5, <2>2, <3>2, AppendTypes
    <3>5. ASSUME cache' = [turn |-> t, messages |-> batch], Reply(<<started, recorded>>)
          PROVE  SentInv'
      <4>1. <<started, recorded>> \in Seq(SentEvents')
        BY <3>2, <3>3
      <4>2. HandSent'
        BY <3>5, <4>1, ReplySends
      <4>3. cache'.messages = batch
        BY <3>5
      <4> QED
        BY <1>4, <2>0, <3>4, <4>2, <4>3
    <3> QED
      BY <1>7, <1>8, <2>0, <3>4, <3>5, <2>1 DEF RunStart, Ask
  <2> QED
    BY <1>8, <2>1, <2>2 DEF RunStart, Ask
<1>9. CASE RunSteer
  <2>0. backend.at = "steer" /\ Cmd.message \in Message /\ Cmd.message \in SUBSET sent'
    BY <1>1, <1>3, <1>9 DEF RunSteer, Asks, Carries, Commands, Message
  <2>1. notes' \in Seq(SentEvents')
    BY <1>5, <1>9 DEF RunSteer, Ask
  <2>2. CASE Fail(SubmissionFailed(Cmd))
    BY <1>7, <2>0, <2>1, <2>2
  <2>3. CASE RecordSteer /\ Reply(<<Steered(Cmd.turn, Cmd.message)>>)
    <3>1. Steered(Cmd.turn, Cmd.message) \in SentEvents'
      <4>1. Steered(Cmd.turn, Cmd.message) \in Events
        BY <1>3, <2>0, NoteTypes
      <4> QED
        BY <2>0, <4>1 DEF SentEvents, Steered
    <3>2. <<Steered(Cmd.turn, Cmd.message)>> \in Seq(SentEvents')
      BY <3>1
    <3>3. HandSent'
      BY <2>3, <3>2, ReplySends
    <3>4. Append(cache.messages, Cmd.message) \in Seq(SUBSET sent')
      BY <1>5, <2>0, AppendTypes
    <3>5. cache'.messages \in {cache.messages, <<>>, Append(cache.messages, Cmd.message)}
      <4>1. cache = NoEntry \/ cache \in [turn : Turns, messages : Batch]
        BY DEF TypeInv, BackendInv
      <4> QED
        BY <2>3, <4>1 DEF RecordSteer, NoEntry
    <3>6. <<>> \in Seq(SUBSET sent')
      OBVIOUS
    <3>7. cache'.messages \in Seq(SUBSET sent')
      BY <1>5, <3>4, <3>5, <3>6
    <3> QED
      BY <1>4, <2>1, <3>3, <3>7
  <2> QED
    BY <1>9, <2>2, <2>3 DEF RunSteer, Ask
<1>10. CASE RunStop
  <2>1. Note("stopFailed", 0) \in SentEvents'
    BY <1>1, NoteTypes, NotesSend DEF Turn0, Note
  <2>2. <<Note("stopFailed", 0)>> \in Seq(SentEvents') /\ <<>> \in Seq(SentEvents')
    BY <2>1
  <2>3. HandSent'
    BY <1>10, <2>2, ReplySends DEF RunStop
  <2>4. notes' \in Seq(SentEvents')
    BY <1>5, <1>10 DEF RunStop, Halt
  <2> QED
    BY <1>4, <1>5, <1>10, <2>3, <2>4 DEF RunStop
<1>11. CASE RunResume
  <2>1. Runtime(server.running, Cmd.draft) \in SentEvents'
    <3>1. Cmd.draft \in Nat
      BY <1>3 DEF Commands
    <3>2. Runtime(server.running, Cmd.draft) \in Events
      BY <1>3, <3>1, NoteTypes
    <3> QED
      BY <1>1, <3>2, NotesSend DEF Runtime
  <2>2. <<Runtime(server.running, Cmd.draft)>> \in Seq(SentEvents') /\ <<>> \in Seq(SentEvents')
    BY <2>1
  <2>3. HandSent'
    BY <1>11, <2>2, ReplySends DEF RunResume
  <2> QED
    BY <1>4, <1>5, <1>11, <2>3 DEF RunResume
<1> QED
  BY <1>8, <1>9, <1>10, <1>11

(* The requests of a retry. *)
LEMMA RetrySends ==
    TypeInv /\ SentInv /\ (RetryInterrupt \/ RetryCheck \/ RetryFork \/ RetryRestart) => SentInv'
<1> SUFFICES ASSUME TypeInv, SentInv, RetryInterrupt \/ RetryCheck \/ RetryFork \/ RetryRestart
             PROVE  SentInv'
  OBVIOUS
<1>1. /\ SentStays /\ Timely' = Timely /\ sent' = sent /\ tl' = tl
      /\ SentEvents' = SentEvents /\ SentCommands' = SentCommands
  BY BackendCalm DEF RetryInterrupt, RetryCheck, RetryFork, RetryRestart, Asks
<1>2. /\ UNCHANGED <<commands, events, notes>>
  BY DEF RetryInterrupt, RetryCheck, RetryFork, RetryRestart, Asks, Ask, Halt, serverVars
<1>3. ASSUME HandSent', cache'.messages \in Seq(SUBSET sent') PROVE SentInv'
  BY <1>1, <1>2, <1>3 DEF SentInv, SentStays
<1>4. /\ Cmd.turn \in Turn0 /\ Cmd.messages # <<>> /\ Cmd.messages \in Batch
      /\ Cmd.messages \in Seq(SUBSET sent)
  BY CmdTypes
  DEF RetryInterrupt, RetryCheck, RetryFork, RetryRestart, Asks, Carries, Commands, TypeInv,
      SentInv, HandSent, Cmd
<1>5. Head(Cmd.messages) \in Messages /\ Head(Cmd.messages) \subseteq sent
  <2>1. Head(Cmd.messages) \in SUBSET sent
    BY <1>4, TailTypes
  <2>2. Head(Cmd.messages) \in Message
    BY <1>4, TailTypes DEF Batch
  <2> QED
    BY <2>1, <2>2 DEF Message
<1>6. ASSUME NEW chat \in {"none", "here", "fork"}, NEW m \in {{}, Head(Cmd.messages)},
             Fail(RetryFailed(Cmd.turn, chat, m))
      PROVE  SentInv'
  <2>1. m \in Messages /\ m \subseteq sent
    BY <1>5 DEF Messages
  <2>2. RetryFailed(Cmd.turn, chat, m) \in Events
    BY <1>4, <2>1, NoteTypes
  <2>3. RetryFailed(Cmd.turn, chat, m) \in SentEvents'
    BY <1>1, <2>1, <2>2 DEF SentEvents, RetryFailed
  <2> QED
    BY <1>1, <1>3, <1>6, <2>3, FailSends
<1>7. CASE UNCHANGED cache /\ (Goto("check") \/ Goto("fork"))
  <2>1. /\ backend'.out = backend.out /\ backend'.cmd = backend.cmd
        /\ backend'.at \in {"check", "fork"}
    BY <1>7 DEF Goto, TypeInv, BackendInv, AtInv
  <2>2. HandSent'
    BY <1>1, <2>1 DEF SentStays, HandSent
  <2> QED
    BY <1>1, <1>3, <1>7, <2>2 DEF SentStays
<1>8. CASE UNCHANGED cache /\ Done
  <2>1. <<>> \in Seq(SentEvents')
    OBVIOUS
  <2>2. HandSent'
    BY <1>8, <2>1, ReplySends
  <2> QED
    BY <1>1, <1>3, <1>8, <2>2 DEF SentStays
<1>9. CASE /\ UNCHANGED cache
           /\ backend' = [backend EXCEPT !.at = "emit", !.out = <<Note("created", 0)>>,
                                         !.then = "restart"]
  <2>1. Note("created", 0) \in SentEvents'
    BY <1>1, NoteTypes, NotesSend DEF Turn0, Note
  <2> DEFINE out == <<Note("created", 0)>>
  <2>2. out \in Seq(SentEvents')
    BY <2>1
  <2> HIDE DEF out
  <2>3. backend' = [backend EXCEPT !.at = "emit", !.out = out, !.then = "restart"]
    BY <1>9 DEF out
  <2>4. backend'.out = out /\ backend'.cmd = backend.cmd /\ backend'.at = "emit"
    BY <2>3 DEF TypeInv, BackendInv, AtInv
  <2>5. HandSent'
    BY <1>1, <2>2, <2>4 DEF SentStays, HandSent
  <2> QED
    BY <1>1, <1>3, <1>9, <2>5 DEF SentStays
<1> QED
  BY <1>6, <1>7, <1>8, <1>9 DEF RetryInterrupt, RetryCheck, RetryFork, RetryRestart, Ask, GiveUp

(* Emitting, losing the connection and getting it back. *)
LEMMA EmitSends == TypeInv /\ SentInv /\ (Emit \/ Signal \/ Reconnect) => SentInv'
<1> SUFFICES ASSUME TypeInv, SentInv, Emit \/ Signal \/ Reconnect PROVE SentInv'
  OBVIOUS
<1>1. /\ SentStays /\ Timely' = Timely /\ sent' = sent /\ tl' = tl
      /\ SentEvents' = SentEvents /\ SentCommands' = SentCommands
  BY BackendCalm DEF Emit, Signal, Reconnect, history
<1>2. UNCHANGED <<commands, cache, notes>>
  BY DEF Emit, Signal, Reconnect, serverVars
<1>3. ASSUME HandSent', events' \in Seq(SentEvents') PROVE SentInv'
  BY <1>1, <1>2, <1>3 DEF SentInv, SentStays
<1>4. CASE Emit
  <2>1. /\ backend.out # <<>> /\ backend.out \in Seq(SentEvents')
    BY <1>1, <1>4 DEF Emit, TypeInv, BackendInv, AtInv, SentStays
  <2>2. Head(backend.out) \in SentEvents' /\ Tail(backend.out) \in Seq(SentEvents')
        /\ <<>> \in Seq(SentEvents')
    BY <2>1, TailTypes
  <2>3. events' \in Seq(SentEvents')
    <3>1. events \in Seq(SentEvents')
      BY <1>1 DEF SentStays
    <3> QED
      BY <1>4, <2>2, <3>1, AppendTypes DEF Emit
  <2>4. /\ backend'.out \in {Tail(backend.out), <<>>} /\ backend'.cmd = backend.cmd
        /\ backend'.at \in {"emit", "idle", "restart"}
    BY <1>4 DEF Emit, TypeInv, BackendInv, AtInv
  <2>5. HandSent'
    BY <1>1, <2>2, <2>4 DEF SentStays, HandSent
  <2> QED
    BY <1>3, <2>3, <2>5
<1>5. CASE Signal
  <2>1. Note("lost", 0) \in SentEvents'
    BY <1>1, NoteTypes, NotesSend DEF Turn0, Note
  <2>2. events' \in Seq(SentEvents')
    BY <1>1, <1>5, <2>1, AppendTypes DEF Signal, SentStays
  <2>3. <<>> \in Seq(SentEvents')
    OBVIOUS
  <2> QED
    BY <1>3, <1>5, <2>2, <2>3, ReplySends DEF Signal
<1>6. CASE Reconnect
  <2>1. Note("connected", 0) \in SentEvents'
    BY <1>1, NoteTypes, NotesSend DEF Turn0, Note
  <2>2. <<Note("connected", 0)>> \in Seq(SentEvents')
    BY <2>1
  <2> QED
    BY <1>1, <1>3, <1>6, <2>2, ReplySends DEF Reconnect, SentStays
<1> QED
  BY <1>4, <1>5, <1>6

(* What the app-server says, and how the backend takes it. *)
LEMMA ServerSends == TypeInv /\ SentInv /\ (Drain \/ Server) => SentInv'
<1> SUFFICES ASSUME TypeInv, SentInv, Drain \/ Server PROVE SentInv'
  OBVIOUS
<1>1. CASE Drain
  <2>1. /\ SentStays /\ Timely' = Timely /\ sent' = sent /\ tl' = tl
        /\ SentEvents' = SentEvents /\ SentCommands' = SentCommands
    BY <1>1, BackendCalm DEF Drain, history
  <2>2. notes # <<>> /\ commands' = commands
    BY <1>1 DEF Drain
  <2>3. Head(notes) \in SentEvents' /\ Tail(notes) \in Seq(SentEvents')
    BY <2>1, <2>2, TailTypes DEF SentStays
  <2>4. <<>> \in Seq(SentEvents') /\ <<>> \in Seq(SUBSET sent')
    OBVIOUS
  <2>5. Append(events, Head(notes)) \in Seq(SentEvents') /\ events \in Seq(SentEvents')
    BY <2>1, <2>3, AppendTypes DEF SentStays
  <2>6. /\ backend' = backend \/ Goto("signal")
        /\ notes' \in {Tail(notes), <<>>} /\ cache' \in {cache, NoEntry}
        /\ events' \in {events, Append(events, Head(notes))}
    BY <1>1 DEF Drain, Lose
  <2>7. HandSent'
    <3>1. CASE backend' = backend
      BY <2>1, <3>1 DEF SentStays, HandSent
    <3>2. CASE Goto("signal")
      <4>1. backend'.out = backend.out /\ backend'.cmd = backend.cmd /\ backend'.at = "signal"
        BY <3>2 DEF Goto, TypeInv, BackendInv, AtInv
      <4> QED
        BY <2>1, <4>1 DEF SentStays, HandSent
    <3> QED
      BY <2>6, <3>1, <3>2
  <2>8. cache'.messages \in Seq(SUBSET sent')
    <3>1. cache'.messages \in {cache.messages, <<>>}
      BY <2>6 DEF NoEntry
    <3> QED
      BY <2>1, <2>4, <3>1 DEF SentStays
  <2>9. notes' \in Seq(SentEvents') /\ events' \in Seq(SentEvents')
    BY <2>3, <2>4, <2>5, <2>6
  <2> QED
    BY <2>1, <2>2, <2>7, <2>8, <2>9 DEF SentInv, SentStays
<1>2. CASE Server
  <2>0. UNCHANGED <<notBackend, sent, commands, events, backend, cache>> \/
        UNCHANGED <<uiVars, sent, commands, events, backend, cache>>
    BY <1>2 DEF Server, Speak, Buffer, Finish, Die, notServer, history
  <2>1. UNCHANGED <<composer, draft, tl, sent, commands, events, backend, cache>>
    BY <2>0 DEF notBackend, uiVars
  <2>2. Timely' = Timely /\ SentEvents' = SentEvents /\ SentCommands' = SentCommands
    BY <2>1 DEF Timely, SentEvents, SentCommands
  <2>3. server.running \in Turn0 /\ 0 \in Turn0
    BY DEF TypeInv, ServerInv, Turn0
  <2>4. PICK note \in SentEvents : Says(note)
    <3>1. CASE Speak
      <4>1. Note("spoke", server.running) \in SentEvents
        BY <2>3, <3>1, NoteTypes, NotesSend DEF Speak, Note
      <4> QED
        BY <3>1, <4>1 DEF Speak
    <3>2. CASE Buffer
      <4>1. \A show, model \in BOOLEAN : Buffering(server.running, show, model) \in SentEvents
        BY <2>3, <3>2, NoteTypes, NotesSend DEF Buffering
      <4> QED
        BY <3>2, <4>1 DEF Buffer
    <3>3. CASE Finish
      <4>1. Note("ended", server.running) \in SentEvents
        BY <2>3, <3>3, NoteTypes, NotesSend DEF Note
      <4> QED
        BY <3>3, <4>1 DEF Finish
    <3>4. CASE Die
      <4>1. Note("lost", 0) \in SentEvents
        BY <2>3, NoteTypes, NotesSend DEF Note
      <4> QED
        BY <3>4, <4>1 DEF Die
    <3> QED
      BY <1>2, <3>1, <3>2, <3>3, <3>4 DEF Server
  <2>5. notes' \in Seq(SentEvents)
    BY <2>4, AppendTypes DEF Says, SentInv
  <2> QED
    BY <2>1, <2>2, <2>5 DEF SentInv, HandSent
<1> QED
  BY <1>1, <1>2

(* Every step keeps it. *)
LEMMA StepSends == TypeInv /\ SentInv /\ [Next]_vars => SentInv'
<1>1. TypeInv /\ SentInv /\ UNCHANGED vars => SentInv'
  <2> SUFFICES ASSUME SentInv, UNCHANGED vars PROVE SentInv'
    OBVIOUS
  <2>1. UNCHANGED <<composer, draft, tl, sent, commands, events, notes, backend, cache>>
    BY DEF vars, uiVars, serverVars, history
  <2>2. Timely' = Timely /\ SentEvents' = SentEvents /\ SentCommands' = SentCommands
    BY <2>1 DEF Timely, SentEvents, SentCommands
  <2> QED
    BY <2>1, <2>2 DEF SentInv, HandSent
<1> QED
  BY <1>1, UserSends, ReduceSends, TakeSends, RequestSends, RetrySends, EmitSends, ServerSends
  DEF Next, Backend, Rest

(* Nothing is queued at the start. *)
LEMMA InitSends == Init => SentInv
<1> SUFFICES ASSUME Init PROVE SentInv
  OBVIOUS
<1>1. /\ <<>> \in Seq(SentCommands) /\ <<>> \in Seq(SentEvents) /\ <<>> \in Seq(SUBSET sent)
  OBVIOUS
<1> QED
  BY <1>1 DEF Init, SentInv, HandSent, Idle, NoCommand, NoEntry

(* A failed submission does not touch what was not sent. *)
LEMMA DraftStays == TypeInv /\ SentInv /\ [Next]_vars => DraftIsKept
<1> SUFFICES ASSUME TypeInv, SentInv, [Next]_vars, Reduced("submissionFailed"),
                    composer' # composer
             PROVE  composer \subseteq sent
  BY DEF DraftIsKept
<1>1. events # <<>> /\ Head(events).kind = "submissionFailed" /\ events' = Tail(events)
  BY DEF Reduced
<1>2. events' # events
  <2>1. Len(Tail(events)) = Len(events) - 1 /\ Len(events) \in Nat
    BY <1>1, TailTypes DEF TypeInv, EventsInv
  <2>2. Tail(events) # events
    BY <2>1
  <2> QED
    BY <1>1, <2>2
<1>3. Reduce
  <2>1. User => UNCHANGED events
    BY DEF User, Type, Submit, Stop, Retry, DismissBanner, Select, notUser
  <2>2. Backend \/ Drain \/ Server \/ Rest \/ UNCHANGED vars => UNCHANGED composer
    BY DEF Backend, Take, TakeOffline, RunStart, RunSteer, RunStop, RunResume, RetryInterrupt,
        RetryCheck, RetryFork, RetryRestart, Emit, Signal, Reconnect, Drain, Server, Speak,
        Buffer, Finish, Die, Rest, Asks, notBackend, notServer, uiVars, vars
  <2> QED
    BY <1>2, <2>1, <2>2 DEF Next
<1>4. ReduceSubmissionFailed
  BY <1>1, <1>3
  DEF Reduce, ReduceStarted, ReduceRecorded, ReduceSteered, ReduceEnded, ReduceStopFailed,
      ReduceBuffering, ReduceSpoke, ReduceRuntime, ReduceSubmissionFailed, ReduceRetryFailed,
      ReduceCreated, ReduceLost, ReduceConnected, NextIs
<1>5. Said \in SentEvents /\ Said.kind = "submissionFailed" /\ Said.draft = draft
  <2>1. Said \in SentEvents /\ Said.kind = "submissionFailed"
    BY <1>1, TailTypes DEF SentInv, Said
  <2>2. Said.draft = draft
    BY <1>4 DEF ReduceSubmissionFailed
  <2> QED
    BY <2>1, <2>2
<1> QED
  BY <1>5 DEF SentEvents, Timely

-----------------------------------------------------------------------------
(* A failed submission is with the backend, on its way back or in the composer. *)

(* What is in a sequence. *)
Elements(s) == {s[i] : i \in 1..Len(s)}

(* What is pushed is in the queue, next to what was there. *)
LEMMA ElementsAppend ==
    ASSUME NEW S, NEW s \in Seq(S), NEW x \in S
    PROVE  Elements(Append(s, x)) = Elements(s) \cup {x}
<1> DEFINE b == Append(s, x)
<1>1. /\ b \in Seq(S) /\ Len(b) = Len(s) + 1 /\ b[Len(s) + 1] = x
      /\ \A i \in 1..Len(s) : b[i] = s[i]
      /\ Len(s) \in Nat
  BY AppendTypes
<1> HIDE DEF b
<1>2. Elements(b) = {b[i] : i \in 1..(Len(s) + 1)}
  BY <1>1 DEF Elements
<1>3. 1..(Len(s) + 1) = (1..Len(s)) \cup {Len(s) + 1}
  BY <1>1
<1>4. ASSUME NEW y \in Elements(b) PROVE y \in Elements(s) \cup {x}
  BY <1>1, <1>2, <1>3, <1>4 DEF Elements
<1>5. ASSUME NEW y \in Elements(s) \cup {x} PROVE y \in Elements(b)
  <2>1. CASE y = x
    BY <1>1, <1>2, <1>3, <2>1
  <2>2. CASE y # x
    <3>1. PICK i \in 1..Len(s) : y = s[i]
      BY <1>5, <2>2 DEF Elements
    <3> QED
      BY <1>1, <1>2, <1>3, <3>1
  <2> QED
    BY <2>1, <2>2
<1>6. Elements(b) = Elements(s) \cup {x}
  BY <1>4, <1>5
<1> QED
  BY <1>6 DEF b

(* What is left of a queue was in it. *)
LEMMA ElementsTail ==
    ASSUME NEW S, NEW s \in Seq(S), s # <<>>
    PROVE  Elements(s) = {Head(s)} \cup Elements(Tail(s))
<1> DEFINE r == Tail(s)
           h == Head(s)
<1>1. /\ h = s[1] /\ 1 \in 1..Len(s) /\ Len(r) = Len(s) - 1 /\ Len(s) \in Nat
      /\ \A i \in 1..Len(r) : r[i] = s[i + 1] /\ i + 1 \in 1..Len(s)
  BY TailTypes
<1> HIDE DEF r, h
<1>2. ASSUME NEW y \in Elements(s) PROVE y \in {h} \cup Elements(r)
  <2>1. PICK i \in 1..Len(s) : y = s[i]
    BY DEF Elements
  <2>2. CASE i = 1
    BY <1>1, <2>1, <2>2
  <2>3. CASE i # 1
    <3>1. i - 1 \in 1..Len(r) /\ (i - 1) + 1 = i
      BY <1>1, <2>3
    <3>2. r[i - 1] = s[i]
      BY <1>1, <3>1
    <3> QED
      BY <2>1, <3>1, <3>2 DEF Elements
  <2> QED
    BY <2>2, <2>3
<1>3. ASSUME NEW y \in {h} \cup Elements(r) PROVE y \in Elements(s)
  BY <1>1 DEF Elements
<1>4. Elements(s) = {h} \cup Elements(r)
  BY <1>2, <1>3
<1> QED
  BY <1>4 DEF r, h

(* What is in a row of none or one. *)
LEMMA ElementsFew ==
    /\ Elements(<<>>) = {}
    /\ \A a : Elements(<<a>>) = {a}
<1>1. Elements(<<>>) = {}
  BY DEF Elements
<1>2. ASSUME NEW a PROVE Elements(<<a>>) = {a}
  BY DEF Elements
<1> QED
  BY <1>1, <1>2

-----------------------------------------------------------------------------
(* Between two commands nothing is left to be emitted. *)
OutInv == backend.at # "emit" => backend.out = <<>> /\ backend.then = "idle"

(* No step leaves an event behind that is not to be emitted. *)
LEMMA StepQuiet == TypeInv /\ OutInv /\ [Next]_vars => OutInv'
<1> SUFFICES ASSUME TypeInv, OutInv, [Next]_vars PROVE OutInv'
  OBVIOUS
<1>0. backend \in [at : {"idle", "check", "fork", "restart", "emit", "signal"} \cup Kinds,
                   cmd : Commands, cached : BOOLEAN, out : Seq(Events),
                   then : {"idle", "restart"}]
  BY DEF TypeInv, BackendInv, AtInv
<1>1. CASE UNCHANGED backend
  BY <1>1 DEF OutInv
<1>2. ASSUME NEW out, Reply(out) PROVE OutInv'
  BY <1>2 DEF Reply, Idle, OutInv
<1>3. CASE Done
  BY <1>3 DEF Done, Idle, OutInv
<1>4. ASSUME NEW at, Goto(at), backend.at # "emit" PROVE OutInv'
  BY <1>0, <1>4 DEF Goto, OutInv
<1>5. CASE Take
  BY <1>5 DEF Take, Idle, OutInv
<1>6. CASE Emit
  <2>1. CASE Len(backend.out) > 1
    <3>1. backend' = [backend EXCEPT !.out = Tail(@)]
      BY <1>6, <2>1 DEF Emit
    <3>2. backend'.at = "emit"
      BY <1>0, <1>6, <3>1 DEF Emit
    <3> QED
      BY <3>2 DEF OutInv
  <2>2. CASE ~(Len(backend.out) > 1)
    <3>1. backend' = [backend EXCEPT !.at = backend.then, !.out = <<>>, !.then = "idle"]
      BY <1>6, <2>2 DEF Emit
    <3> QED
      BY <1>0, <3>1 DEF OutInv
  <2> QED
    BY <2>1, <2>2
<1>7. CASE RetryFork
  BY <1>0, <1>2, <1>7 DEF RetryFork, OutInv, GiveUp, Fail
<1>8. User \/ Reduce \/ Server \/ Rest \/ UNCHANGED vars => UNCHANGED backend
  BY DEF User, Type, Submit, Stop, Retry, DismissBanner, Select, notUser,
         Reduce, ReduceStarted, ReduceRecorded, ReduceSteered, ReduceEnded, ReduceStopFailed,
         ReduceBuffering, ReduceSpoke, ReduceRuntime, ReduceSubmissionFailed, ReduceRetryFailed,
         ReduceCreated, ReduceLost, ReduceConnected, NextIs,
         Server, Speak, Buffer, Finish, Die, notServer, Rest, vars
<1>9. CASE TakeOffline \/ Signal \/ Reconnect \/ Drain
  BY <1>1, <1>2, <1>3, <1>4, <1>9 DEF TakeOffline, Signal, Reconnect, Drain, Lose
<1>10. CASE RunStart \/ RunSteer \/ RunStop \/ RunResume
  BY <1>2, <1>3, <1>10 DEF RunStart, RunSteer, RunStop, RunResume, Ask, Fail
<1>11. CASE RetryInterrupt \/ RetryCheck \/ RetryRestart
  BY <1>2, <1>3, <1>4, <1>11 DEF RetryInterrupt, RetryCheck, RetryRestart, Asks, Ask, Fail, GiveUp
<1> QED
  BY <1>1, <1>5, <1>6, <1>7, <1>8, <1>9, <1>10, <1>11 DEF Next, Backend

(* The backend has nothing to say at the start. *)
LEMMA InitQuiet == Init => OutInv
  BY DEF Init, Idle, OutInv

(* Of two answers the first tells the start of a turn. *)
PairInv ==
    Len(backend.out) > 1 => Len(backend.out) = 2 /\ Head(backend.out).kind = "started"

(* Only the answer to a start is a pair. *)
LEMMA StepPair == TypeInv /\ PairInv /\ [Next]_vars => PairInv'
<1> SUFFICES ASSUME TypeInv, PairInv, [Next]_vars PROVE PairInv'
  OBVIOUS
<1>0. backend \in [at : {"idle", "check", "fork", "restart", "emit", "signal"} \cup Kinds,
                   cmd : Commands, cached : BOOLEAN, out : Seq(Events),
                   then : {"idle", "restart"}]
  BY DEF TypeInv, BackendInv, AtInv
<1>1. CASE backend'.out = backend.out
  BY <1>1 DEF PairInv
<1>2. ASSUME NEW e, backend'.out = <<e>> PROVE PairInv'
  BY <1>2 DEF PairInv
<1>3. ASSUME NEW e, Reply(<<e>>) PROVE PairInv'
  BY <1>2, <1>3 DEF Reply, Idle
<1>4. CASE backend'.out = <<>>
  BY <1>4 DEF PairInv
<1>5. CASE Done
  BY <1>4, <1>5 DEF Done, Idle
<1>6. ASSUME NEW at, Goto(at) PROVE PairInv'
  BY <1>0, <1>1, <1>6 DEF Goto
<1>7. CASE Take
  BY <1>4, <1>7 DEF Take, Idle
<1>8. CASE Emit
  <2>1. Len(backend'.out) <= 1
    <3>1. CASE Len(backend.out) > 1
      <4>1. backend' = [backend EXCEPT !.out = Tail(@)] /\ Len(backend.out) = 2
        BY <1>8, <3>1 DEF Emit, PairInv
      <4>2. backend'.out = Tail(backend.out)
        BY <1>0, <4>1
      <4> QED
        BY <1>0, <4>1, <4>2
    <3>2. CASE ~(Len(backend.out) > 1)
      <4>1. backend'.out = <<>>
        BY <1>0, <1>8, <3>2 DEF Emit
      <4> QED
        BY <4>1
    <3> QED
      BY <3>1, <3>2
  <2>2. backend'.out \in Seq(Events)
    BY <1>8, StepTypes DEF TypeInv, BackendInv, AtInv
  <2> QED
    BY <2>1, <2>2 DEF PairInv
<1>9. CASE RetryFork
  <2> DEFINE e == Note("created", 0)
  <2>1. CASE backend' = [backend EXCEPT !.at = "emit", !.out = <<e>>, !.then = "restart"]
    <3> HIDE DEF e
    <3>1. backend'.out = <<e>>
      BY <1>0, <2>1
    <3> QED
      BY <1>2, <3>1
  <2> QED
    BY <1>3, <1>9, <2>1 DEF RetryFork, GiveUp, Fail
<1>10. CASE User \/ Reduce \/ Server \/ Rest \/ UNCHANGED vars
  <2>1. UNCHANGED backend
    BY <1>10
    DEF User, Type, Submit, Stop, Retry, DismissBanner, Select, notUser,
         Reduce, ReduceStarted, ReduceRecorded, ReduceSteered, ReduceEnded, ReduceStopFailed,
         ReduceBuffering, ReduceSpoke, ReduceRuntime, ReduceSubmissionFailed, ReduceRetryFailed,
         ReduceCreated, ReduceLost, ReduceConnected, NextIs,
         Server, Speak, Buffer, Finish, Die, notServer, Rest, vars
  <2> QED
    BY <1>1, <2>1
<1>11. CASE TakeOffline \/ Signal \/ Reconnect \/ Drain
  BY <1>1, <1>3, <1>5, <1>6, <1>11 DEF TakeOffline, Signal, Reconnect, Drain, Lose
<1>12. CASE RunSteer \/ RunStop \/ RunResume
  BY <1>3, <1>5, <1>12 DEF RunSteer, RunStop, RunResume, Ask, Fail
<1>13. CASE RunStart
  <2>1. ASSUME NEW t, NEW f, Reply(<<Note("started", t), f>>) PROVE PairInv'
    <3> DEFINE e == Note("started", t)
    <3>1. e.kind = "started"
      BY DEF Note
    <3> HIDE DEF e
    <3>2. backend'.out = <<e, f>>
      BY <2>1 DEF Reply, Idle, e
    <3> QED
      BY <3>1, <3>2 DEF PairInv
  <2> QED
    BY <1>3, <1>13, <2>1 DEF RunStart, Ask, Fail
<1>14. CASE RetryInterrupt \/ RetryCheck \/ RetryRestart
  BY <1>3, <1>5, <1>6, <1>14 DEF RetryInterrupt, RetryCheck, RetryRestart, Ask, Fail, GiveUp
<1> QED
  BY <1>7, <1>8, <1>9, <1>10, <1>11, <1>12, <1>13, <1>14 DEF Next, Backend

(* There is no answer at the start. *)
LEMMA InitPair == Init => PairInv
  BY DEF Init, Idle, PairInv

-----------------------------------------------------------------------------
(* Where a piece can be that has not reached the app-server, for the         *)
(* composer to get it back: in a command that is queued or in hand, or in    *)
(* the report of its failure.                                                *)
Queued  == {p \in Pieces : \E c \in Elements(commands) :
               c.kind \in {"start", "steer"} /\ p \in c.message /\ c.draft = draft}
InHand  == {p \in Pieces : /\ backend.at \in {"start", "steer"}
                           /\ p \in backend.cmd.message /\ backend.cmd.draft = draft}
Telling == {p \in Pieces : \E e \in Elements(backend.out) :
               e.kind = "submissionFailed" /\ p \in e.message /\ e.draft = draft}
Told    == {p \in Pieces : \E e \in Elements(events) :
               e.kind = "submissionFailed" /\ p \in e.message /\ e.draft = draft}

PromptInv ==
    /\ owed \subseteq Pieces
    /\ owed # {} => selected = "here"
    /\ owed \subseteq composer \cup Queued \cup InHand \cup Telling \cup Told

(* A command that is dispatched joins the others, if there is room. *)
LEMMA DispatchQueues ==
    ASSUME TypeInv, NEW c \in Commands, Dispatch(c)
    PROVE  /\ Elements(commands) \subseteq Elements(commands')
           /\ Len(commands) < CommandCapacity => c \in Elements(commands')
<1>1. commands' = Append(commands, c) \/ (commands' = commands /\ ~(Len(commands) < CommandCapacity))
  BY DEF Dispatch
<1>2. commands \in Seq(Commands)
  BY DEF TypeInv, CommandsInv
<1>3. Elements(Append(commands, c)) = Elements(commands) \cup {c}
  BY <1>2, ElementsAppend
<1> QED
  BY <1>1, <1>3

(* Asking for the runtime takes no command away. *)
LEMMA AskQueues ==
    ASSUME TypeInv, AskRuntime
    PROVE  Elements(commands) \subseteq Elements(commands')
<1>0. tl \in Timelines /\ tl.generation + 1 \in Nat
  BY DEF TypeInv, UiInv, Timelines
<1>1. Resume \in Commands
  BY <1>0 DEF Resume, NoCommand, Commands, Kinds, Turn0, Messages
<1> QED
  BY <1>1, DispatchQueues DEF AskRuntime

(* A hole is never closed. *)
LEMMA HolesStay == User \/ Reduce => holes \subseteq holes'
  BY DEF User, Type, Submit, Stop, Retry, DismissBanner, Select,
         Reduce, ReduceStarted, ReduceRecorded, ReduceSteered, ReduceEnded, ReduceStopFailed,
         ReduceBuffering, ReduceSpoke, ReduceRuntime, ReduceSubmissionFailed, ReduceRetryFailed,
         ReduceCreated, ReduceLost, ReduceConnected, Timeline, Same, AskRuntime, Dispatch, Hole

(* What the user does. *)
LEMMA UserPrompts == TypeInv /\ PromptInv /\ User => PromptInv'
<1> SUFFICES ASSUME TypeInv, PromptInv, User PROVE PromptInv'
  OBVIOUS
<1>0. /\ composer \subseteq Pieces /\ draft \in Nat /\ tl \in Timelines
      /\ UNCHANGED <<events, backend>>
  BY DEF TypeInv, UiInv, User, Type, Submit, Stop, Retry, DismissBanner, Select, notUser
<1>1. ASSUME UNCHANGED <<composer, draft, selected, owed>>,
             Elements(commands) \subseteq Elements(commands')
      PROVE  PromptInv'
  <2>1. InHand' = InHand /\ Telling' = Telling /\ Told' = Told
    BY <1>0, <1>1 DEF InHand, Telling, Told
  <2>2. Queued \subseteq Queued'
    BY <1>1 DEF Queued
  <2> QED
    BY <1>0, <1>1, <2>1, <2>2 DEF PromptInv
<1>2. CASE owed' = {}
  BY <1>2 DEF PromptInv
<1>3. CASE Submit
  <2> DEFINE c == [NoCommand EXCEPT !.kind = IF tl.active = 0 THEN "start" ELSE "steer",
                                    !.turn = tl.active, !.message = composer, !.draft = draft]
  <2>1. c \in Commands
    BY <1>0 DEF NoCommand, Commands, Kinds, Messages, Timelines
  <2>2. c.kind \in {"start", "steer"} /\ c.message = composer /\ c.draft = draft
    BY DEF NoCommand
  <2>3. /\ Dispatch(c) /\ draft' = draft /\ selected' = "here"
        /\ owed' = IF Len(commands) < CommandCapacity THEN composer ELSE {}
    BY <1>3 DEF Submit
  <2> HIDE DEF c
  <2>4. CASE Len(commands) < CommandCapacity
    <3>1. c \in Elements(commands')
      BY <2>1, <2>3, <2>4, DispatchQueues
    <3>2. owed' \subseteq Queued'
      BY <1>0, <2>2, <2>3, <2>4, <3>1 DEF Queued
    <3> QED
      BY <1>0, <2>3, <2>4, <3>2 DEF PromptInv
  <2> QED
    BY <1>2, <2>3, <2>4
<1>4. CASE Stop
  <2> DEFINE c == [NoCommand EXCEPT !.kind = "stop", !.turn = tl.active]
  <2>1. c \in Commands
    BY <1>0 DEF NoCommand, Commands, Kinds, Messages, Timelines
  <2> QED
    BY <1>1, <1>4, <2>1, DispatchQueues DEF Stop, history
<1>5. CASE Retry
  <2> DEFINE c == [NoCommand EXCEPT !.kind = "retry", !.turn = tl.active, !.messages = tl.retry]
  <2>1. c \in Commands
    BY <1>0 DEF NoCommand, Commands, Kinds, Messages, Timelines
  <2> QED
    BY <1>1, <1>5, <2>1, DispatchQueues DEF Retry, history
<1>6. CASE DismissBanner
  BY <1>1, <1>6 DEF DismissBanner, history
<1>7. ASSUME NEW chat \in {"here", "other"}, Select(chat) PROVE PromptInv'
  <2>1. CASE chat = "here" /\ selected = "here"
    BY <1>1, <1>7, <2>1, AskQueues DEF Select
  <2>2. CASE ~(chat = "here" /\ selected = "here")
    BY <1>2, <1>7, <2>2 DEF Select, PromptInv
  <2> QED
    BY <2>1, <2>2
<1> QED
  BY <1>2, <1>3, <1>4, <1>5, <1>6, <1>7 DEF User, Type

(* What the reducer does: a failure that is told is a draft that is back. *)
LEMMA ReducePrompts == TypeInv /\ PromptInv /\ Reduce => PromptInv'
<1> SUFFICES ASSUME TypeInv, PromptInv, Reduce PROVE PromptInv'
  OBVIOUS
<1>0. UNCHANGED backend
  BY DEF Reduce, ReduceStarted, ReduceRecorded, ReduceSteered, ReduceEnded, ReduceStopFailed,
      ReduceBuffering, ReduceSpoke, ReduceRuntime, ReduceSubmissionFailed, ReduceRetryFailed,
      ReduceCreated, ReduceLost, ReduceConnected, NextIs
<1>1. CASE ReduceCreated
  BY <1>1 DEF ReduceCreated, NextIs, PromptInv
<1>2. CASE ~ReduceCreated
  <2>1. /\ UNCHANGED <<draft, selected, owed>> /\ composer \subseteq composer'
        /\ ReduceSubmissionFailed \/ Said.kind # "submissionFailed"
    BY <1>2
    DEF Reduce, ReduceStarted, ReduceRecorded, ReduceSteered, ReduceEnded, ReduceStopFailed,
      ReduceBuffering, ReduceSpoke, ReduceRuntime, ReduceSubmissionFailed, ReduceRetryFailed,
      ReduceLost, ReduceConnected, NextIs, Timeline, Same, Draft, Restore, Said
  <2>2. Elements(commands) \subseteq Elements(commands')
    <3>1. CASE ReduceConnected /\ selected = "here"
      BY <3>1, AskQueues DEF ReduceConnected
    <3>2. CASE commands' = commands
      BY <3>2
    <3> QED
      BY <1>2, <3>1, <3>2
      DEF Reduce, ReduceStarted, ReduceRecorded, ReduceSteered, ReduceEnded, ReduceStopFailed,
        ReduceBuffering, ReduceSpoke, ReduceRuntime, ReduceSubmissionFailed, ReduceRetryFailed,
        ReduceLost, ReduceConnected, Timeline, Same
  <2>3. Queued \subseteq Queued'
    BY <2>1, <2>2 DEF Queued
  <2>4. InHand' = InHand /\ Telling' = Telling
    BY <1>0, <2>1 DEF InHand, Telling
  <2>5. Elements(events) = {Said} \cup Elements(events')
    BY RetryMoves, ElementsTail DEF TypeInv, EventsInv, Said
  <2>6. ASSUME NEW p \in Told, p \in owed PROVE p \in composer' \cup Told'
    <3>1. PICK e \in Elements(events) :
             e.kind = "submissionFailed" /\ p \in e.message /\ e.draft = draft
      BY DEF Told
    <3>2. CASE e = Said
      BY <2>1, <2>6, <3>1, <3>2 DEF ReduceSubmissionFailed, Restore, PromptInv
    <3>3. CASE e \in Elements(events')
      BY <2>1, <2>6, <3>1, <3>3 DEF Told
    <3> QED
      BY <2>5, <3>2, <3>3
  <2> QED
    BY <1>0, <2>1, <2>3, <2>4, <2>6 DEF PromptInv
<1> QED
  BY <1>1, <1>2

(* A command is taken off the queue. *)
LEMMA TakePrompts == TypeInv /\ OutInv /\ PromptInv /\ (Take \/ TakeOffline) => PromptInv'
<1> SUFFICES ASSUME TypeInv, OutInv, PromptInv, Take \/ TakeOffline PROVE PromptInv'
  OBVIOUS
<1> DEFINE cmd == Head(commands)
<1>1. /\ UNCHANGED <<composer, draft, selected, events>>
      /\ commands # <<>> /\ commands' = Tail(commands) /\ backend.at = "idle"
  BY DEF Take, TakeOffline, notBackend, uiVars
<1>2. Elements(commands) = {cmd} \cup Elements(commands') /\ cmd \in Commands
  BY <1>1, ElementsTail, TailTypes DEF TypeInv, CommandsInv
<1>3. InHand = {} /\ Telling = {} /\ Told' = Told
  BY <1>1, ElementsFew DEF InHand, Telling, Told, OutInv
<1>4. owed' \subseteq owed
  BY DEF Take, TakeOffline, Settle
<1>5. Take /\ cmd.kind \in {"start", "steer"} => backend'.at = cmd.kind /\ backend'.cmd = cmd
  <2>1. Take /\ cmd.kind \in {"start", "steer"}
        => backend' = [Idle EXCEPT !.at = cmd.kind, !.cmd = cmd]
    BY DEF Take
  <2> HIDE DEF cmd
  <2> QED
    BY <2>1 DEF Idle
<1>6. TakeOffline => owed' = owed \ cmd.message
  BY DEF TakeOffline, Settle
<1> HIDE DEF cmd
<1>7. ASSUME NEW p \in Queued, p \in owed' PROVE p \in Queued' \cup InHand'
  <2>1. PICK c \in Elements(commands) :
           c.kind \in {"start", "steer"} /\ p \in c.message /\ c.draft = draft
    BY DEF Queued
  <2>2. CASE c = cmd
    <3>1. Take
      BY <1>6, <1>7, <2>1, <2>2
    <3> QED
      BY <1>1, <1>5, <2>1, <2>2, <3>1 DEF InHand, Queued
  <2>3. CASE c \in Elements(commands')
    BY <1>1, <2>1, <2>3 DEF Queued
  <2> QED
    BY <1>2, <2>2, <2>3
<1> QED
  BY <1>1, <1>3, <1>4, <1>7 DEF PromptInv

(* A request: its message reaches the app-server, or its failure is told. *)
LEMMA RequestPrompts ==
    TypeInv /\ OutInv /\ PromptInv /\ (RunStart \/ RunSteer) => PromptInv'
<1> SUFFICES ASSUME TypeInv, OutInv, PromptInv, RunStart \/ RunSteer PROVE PromptInv'
  OBVIOUS
<1>1. /\ UNCHANGED <<composer, draft, selected, events, commands, holes>>
      /\ backend.at \in {"start", "steer"}
  BY DEF RunStart, RunSteer, Asks, notBackend, uiVars
<1>2. Telling = {} /\ Told' = Told /\ Queued' = Queued
  BY <1>1, ElementsFew DEF Telling, Told, OutInv, Queued
<1>3. owed' = owed \ Cmd.message \/ (owed' = owed /\ Fail(SubmissionFailed(Cmd)))
      \/ (owed' = owed \ Cmd.message /\ Fail(SubmissionFailed(Cmd)))
  BY DEF RunStart, RunSteer, Ask, Settle
<1>4. CASE owed' = owed \ Cmd.message
  <2>1. owed' \cap InHand = {}
    BY <1>4 DEF InHand, Cmd
  <2> QED
    BY <1>1, <1>2, <1>4, <2>1 DEF PromptInv
<1>5. CASE owed' = owed /\ Fail(SubmissionFailed(Cmd))
  <2> DEFINE e == SubmissionFailed(Cmd)
  <2>1. e.kind = "submissionFailed" /\ e.message = backend.cmd.message
        /\ e.draft = backend.cmd.draft
    BY DEF SubmissionFailed, Cmd
  <2>2. backend'.out = <<e>>
    BY <1>5 DEF Fail, Reply, Idle
  <2> HIDE DEF e
  <2>3. e \in Elements(backend'.out)
    BY <2>2, ElementsFew
  <2>4. InHand \subseteq Telling'
    BY <1>1, <2>1, <2>3 DEF InHand, Telling
  <2> QED
    BY <1>1, <1>2, <1>5, <2>4 DEF PromptInv
<1> QED
  BY <1>3, <1>4, <1>5

(* The steps of the backend and of the app-server that carry no submission. *)
LEMMA OtherPrompts ==
    ASSUME TypeInv, OutInv, PromptInv,
           UNCHANGED <<composer, draft, selected, owed, commands, holes>>,
           backend.at \notin {"start", "steer", "emit"},
           Elements(events) \subseteq Elements(events')
    PROVE  PromptInv'
<1>1. InHand = {} /\ Telling = {} /\ Queued' = Queued
  BY ElementsFew DEF InHand, Telling, OutInv, Queued
<1>2. Told \subseteq Told'
  BY DEF Told
<1> QED
  BY <1>1, <1>2 DEF PromptInv

(* What is left to emit, and how. *)
LEMMA EmitDoes ==
    ASSUME TypeInv, Emit
    PROVE  /\ backend.at = "emit" /\ backend.out # <<>> /\ backend.out \in Seq(Events)
           /\ backend'.out = Tail(backend.out) /\ Head(backend.out) \in Events
           /\ events \in Seq(Events)
<1>0. backend \in [at : {"idle", "check", "fork", "restart", "emit", "signal"} \cup Kinds,
                   cmd : Commands, cached : BOOLEAN, out : Seq(Events),
                   then : {"idle", "restart"}]
      /\ backend.out # <<>> /\ events \in Seq(Events) /\ backend.at = "emit"
  BY DEF TypeInv, BackendInv, AtInv, EventsInv, Emit
<1>1. backend'.out = Tail(backend.out)
  <2>1. CASE Len(backend.out) > 1
    <3>1. backend' = [backend EXCEPT !.out = Tail(@)]
      BY <2>1 DEF Emit
    <3> QED
      BY <1>0, <3>1
  <2>2. CASE ~(Len(backend.out) > 1)
    <3>1. backend'.out = <<>>
      BY <1>0, <2>2 DEF Emit
    <3>2. Tail(backend.out) = <<>>
      BY <1>0, <2>2
    <3> QED
      BY <3>1, <3>2
  <2> QED
    BY <2>1, <2>2
<1> QED
  BY <1>0, <1>1, TailTypes

(* What is to be emitted is told, or missed and owed no more. *)
LEMMA EmitPrompts == TypeInv /\ PromptInv /\ Emit => PromptInv'
<1> SUFFICES ASSUME TypeInv, PromptInv, Emit PROVE PromptInv'
  OBVIOUS
<1>1. UNCHANGED <<composer, draft, selected, commands>> /\ backend.at = "emit"
  BY DEF Emit, notBackend, uiVars
<1> DEFINE e == Head(backend.out)
<1>2. e \in Events /\ Elements(backend.out) = {e} \cup Elements(backend'.out)
  BY EmitDoes, ElementsTail
<1>3. \/ /\ events' = Append(events, e) /\ owed' = owed
         /\ Elements(events') = Elements(events) \cup {e}
      \/ events' = events /\ owed' = owed \ Failure(e)
  <2>1. \/ events' = Append(events, e) /\ owed' = owed
        \/ events' = events /\ owed' = owed \ Failure(e)
    BY DEF Emit, Settle
  <2>2. Elements(Append(events, e)) = Elements(events) \cup {e}
    BY <1>2, EmitDoes, ElementsAppend
  <2> QED
    BY <2>1, <2>2
<1> HIDE DEF e
<1>4. Queued' = Queued /\ InHand = {}
  BY <1>1 DEF Queued, InHand
<1>5. Told \subseteq Told'
  BY <1>1, <1>3 DEF Told
<1>6. ASSUME NEW p \in Telling, p \in owed' PROVE p \in Telling' \cup Told'
  <2>1. PICK x \in Elements(backend.out) :
           x.kind = "submissionFailed" /\ p \in x.message /\ x.draft = draft
    BY DEF Telling
  <2>2. CASE x = e
    <3>1. p \in Failure(e)
      BY <2>1, <2>2 DEF Failure
    <3>2. e \in Elements(events')
      BY <1>3, <1>6, <3>1
    <3> QED
      BY <1>1, <2>1, <2>2, <3>2 DEF Told, Telling
  <2>3. CASE x \in Elements(backend'.out)
    BY <1>1, <2>1, <2>3 DEF Telling
  <2> QED
    BY <1>2, <2>2, <2>3
<1>7. owed' \subseteq owed
  BY <1>3
<1> QED
  BY <1>1, <1>4, <1>5, <1>6, <1>7 DEF PromptInv

(* Every step keeps it. *)
LEMMA StepPrompts == TypeInv /\ OutInv /\ PromptInv /\ [Next]_vars => PromptInv'
<1> SUFFICES ASSUME TypeInv, OutInv, PromptInv, [Next]_vars PROVE PromptInv'
  OBVIOUS
<1>1. CASE RunStop \/ RunResume \/ RetryInterrupt \/ RetryCheck \/ RetryFork \/ RetryRestart
  <2>1. UNCHANGED <<composer, draft, selected, owed, commands, holes, events>>
        /\ backend.at \notin {"start", "steer", "emit"}
    BY <1>1
    DEF RunStop, RunResume, RetryInterrupt, RetryCheck, RetryFork, RetryRestart, Asks, Ask, Halt,
        notBackend, uiVars
  <2> QED
    BY <2>1, OtherPrompts
<1>2. CASE Drain \/ Signal \/ Reconnect
  <2>1. UNCHANGED <<composer, draft, selected, owed, commands, holes>>
        /\ backend.at \notin {"start", "steer", "emit"}
    BY <1>2 DEF Drain, Signal, Reconnect, notBackend, uiVars, history
  <2>2. Elements(events) \subseteq Elements(events')
    <3>1. \A e \in Events : Elements(events) \subseteq Elements(Append(events, e))
      BY ElementsAppend DEF TypeInv, EventsInv
    <3>2. Note("lost", 0) \in Events
      BY NoteTypes DEF Turn0
    <3>3. notes # <<>> => Head(notes) \in Events
      BY TailTypes DEF TypeInv, ServerInv
    <3> QED
      BY <1>2, <3>1, <3>2, <3>3 DEF Drain, Lose, Signal, Reconnect
  <2> QED
    BY <2>1, <2>2, OtherPrompts
<1>3. CASE Server \/ Rest \/ UNCHANGED vars
  <2>1. UNCHANGED <<composer, draft, selected, owed, commands, holes, events, backend>>
    BY <1>3 DEF Server, Speak, Buffer, Finish, Die, notServer, history, Rest, vars, uiVars
  <2>2. InHand' = InHand /\ Telling' = Telling /\ Told' = Told /\ Queued' = Queued
    BY <2>1 DEF InHand, Telling, Told, Queued
  <2> QED
    BY <2>1, <2>2 DEF PromptInv
<1> QED
  BY <1>1, <1>2, <1>3, UserPrompts, ReducePrompts, TakePrompts, RequestPrompts, EmitPrompts
  DEF Next, Backend

(* Nothing is owed at the start. *)
LEMMA InitPrompts == Init => PromptInv
  BY DEF Init, PromptInv

(* What the invariant says of where a submission is. *)
LEMMA PromptsSuffice == TypeInv /\ PromptInv => PromptComesBack
<1> SUFFICES ASSUME TypeInv, PromptInv, NEW p \in owed, p \notin composer
             PROVE  p \in OnItsWay
  BY DEF PromptComesBack
<1> DEFINE failures(actions) == UNION {actions[i].message : i \in
                                  {j \in DOMAIN actions : actions[j].kind = "submissionFailed"}}
           queued == UNION {commands[i].message : i \in DOMAIN commands}
           inHand == IF backend.at \in {"start", "steer"} THEN backend.cmd.message ELSE {}
<1>0. OnItsWay = queued \cup inHand \cup failures(backend.out) \cup failures(events)
  BY DEF OnItsWay
<1>1. p \in Queued \cup InHand \cup Telling \cup Told
  BY DEF PromptInv
<1>2. CASE p \in Queued
  <2>1. PICK c \in Elements(commands) : p \in c.message
    BY <1>2 DEF Queued
  <2>2. PICK i \in DOMAIN commands : c = commands[i]
    BY <2>1 DEF Elements, TypeInv, CommandsInv
  <2>3. p \in queued
    BY <2>1, <2>2
  <2> HIDE DEF queued, inHand, failures
  <2> QED
    BY <1>0, <2>3
<1>3. CASE p \in InHand
  <2>1. p \in inHand
    BY <1>3 DEF InHand
  <2> HIDE DEF queued, inHand, failures
  <2> QED
    BY <1>0, <2>1
<1>4. ASSUME NEW s \in Seq(Events), NEW e \in Elements(s), e.kind = "submissionFailed",
             p \in e.message
      PROVE  p \in failures(s)
  BY <1>4 DEF Elements
<1> HIDE DEF queued, inHand, failures
<1>5. failures(backend.out) \cup failures(events) \subseteq OnItsWay
  BY <1>0
<1>6. CASE p \in Telling
  <2>1. PICK e \in Elements(backend.out) : e.kind = "submissionFailed" /\ p \in e.message
    BY <1>6 DEF Telling
  <2>2. backend.out \in Seq(Events)
    BY DEF TypeInv, BackendInv, AtInv
  <2> QED
    BY <1>4, <1>5, <2>1, <2>2
<1>7. CASE p \in Told
  <2>1. PICK e \in Elements(events) : e.kind = "submissionFailed" /\ p \in e.message
    BY <1>7 DEF Told
  <2>2. events \in Seq(Events)
    BY DEF TypeInv, EventsInv
  <2> QED
    BY <1>4, <1>5, <2>1, <2>2
<1> QED
  BY <1>1, <1>2, <1>3, <1>6, <1>7

-----------------------------------------------------------------------------
(* Prefixes of the messages of a turn, and what a row of events tells of them. *)

(* What the events say of the messages of a turn.                            *)
Prefix(a, b) == Len(a) <= Len(b) /\ \A i \in 1..Len(a) : a[i] = b[i]

(* A prefix of a prefix is a prefix. *)
LEMMA PrefixGoesOn ==
    ASSUME NEW a \in Seq(Message), NEW b \in Seq(Message), NEW c \in Seq(Message),
           Prefix(a, b), Prefix(b, c)
    PROVE  Prefix(a, c)
  BY DEF Prefix

(* Messages are a prefix of themselves, and none are of any. *)
LEMMA PrefixOfItself == ASSUME NEW a \in Seq(Message) PROVE Prefix(a, a) /\ Prefix(<<>>, a)
  BY DEF Prefix

(* A prefix stays one when a message is accepted. *)
LEMMA PrefixOfMore ==
    ASSUME NEW a \in Seq(Message), NEW m \in Message
    PROVE  Append(a, m) \in Seq(Message) /\ Prefix(a, Append(a, m))
  BY DEF Prefix

(* Messages that are among themselves, and none that are among any. *)
LEMMA AmongThemselves == ASSUME NEW s \in Seq(Message) PROVE Among(s, s) /\ Among(<<>>, s)
<1>1. Among(s, s)
  <2> DEFINE at == [i \in DOMAIN s |-> i]
  <2>1. at \in [DOMAIN s -> DOMAIN s] /\ \A i \in DOMAIN s : at[i] = i
    OBVIOUS
  <2> HIDE DEF at
  <2> QED
    BY <2>1 DEF Among
<1>2. Among(<<>>, s)
  <2> DEFINE at == [i \in DOMAIN <<>> |-> 1]
  <2>1. DOMAIN <<>> = {}
    OBVIOUS
  <2>2. at \in [DOMAIN <<>> -> DOMAIN s]
    BY <2>1
  <2> HIDE DEF at
  <2> QED
    BY <2>1, <2>2 DEF Among
<1> QED
  BY <1>1, <1>2

(* Nothing is among none. *)
LEMMA AmongNone == ASSUME NEW z \in Seq(Message), Among(z, <<>>) PROVE z = <<>>
<1>1. DOMAIN <<>> = {} /\ DOMAIN z = 1..Len(z) /\ Len(z) \in Nat
  OBVIOUS
<1>2. DOMAIN z = {}
  BY <1>1 DEF Among
<1>3. Len(z) = 0
  BY <1>1, <1>2
<1> QED
  BY <1>3

(* What is among some is among more of them. *)
LEMMA AmongMore ==
    ASSUME NEW z \in Seq(Message), NEW s \in Seq(Message), NEW r \in Seq(Message),
           Among(z, s), Prefix(s, r)
    PROVE  Among(z, r)
<1>1. PICK at \in [DOMAIN z -> DOMAIN s] :
         \A i, j \in DOMAIN z : z[i] = s[at[i]] /\ (i < j => at[i] < at[j])
  BY DEF Among
<1>2. DOMAIN s \subseteq DOMAIN r /\ \A k \in DOMAIN s : s[k] = r[k]
  BY DEF Prefix
<1>3. at \in [DOMAIN z -> DOMAIN r] /\ \A i \in DOMAIN z : s[at[i]] = r[at[i]]
  BY <1>1, <1>2
<1> QED
  BY <1>1, <1>3 DEF Among

(* So is what comes before some point of it. *)
LEMMA AmongBefore ==
    ASSUME NEW a \in Seq(Message), NEW z \in Seq(Message), NEW s \in Seq(Message),
           Prefix(a, z), Among(z, s)
    PROVE  Among(a, s)
<1>1. PICK at \in [DOMAIN z -> DOMAIN s] :
         \A i, j \in DOMAIN z : z[i] = s[at[i]] /\ (i < j => at[i] < at[j])
  BY DEF Among
<1> DEFINE n == Len(a)
           m == Len(z)
<1>2. /\ n \in Nat /\ m \in Nat /\ DOMAIN a = 1..n /\ DOMAIN z = 1..m
      /\ n <= m /\ \A k \in 1..n : a[k] = z[k]
  BY DEF Prefix
<1> HIDE DEF n, m
<1> DEFINE to == [i \in 1..n |-> at[i]]
<1>3. \A i \in 1..n : i \in 1..m
  BY <1>2
<1>4. to \in [1..n -> DOMAIN s] /\ \A i \in 1..n : to[i] = at[i]
  BY <1>2, <1>3
<1> HIDE DEF to
<1>5. \A i, j \in 1..n : a[i] = s[to[i]] /\ (i < j => to[i] < to[j])
  BY <1>1, <1>2, <1>3, <1>4
<1> QED
  BY <1>2, <1>4, <1>5 DEF Among

(* A message that both accept is told after the others. *)
LEMMA AmongAppends ==
    ASSUME NEW z \in Seq(Message), NEW s \in Seq(Message), NEW m \in Message, Among(z, s)
    PROVE  Among(Append(z, m), Append(s, m))
<1> DEFINE y == Append(z, m)
           r == Append(s, m)
           n == Len(z)
           l == Len(s)
<1>1. /\ n \in Nat /\ DOMAIN z = 1..n /\ DOMAIN y = 1..(n + 1) /\ y[n + 1] = m
      /\ \A i \in 1..n : y[i] = z[i]
  BY AppendTypes
<1>2. /\ l \in Nat /\ DOMAIN s = 1..l /\ DOMAIN r = 1..(l + 1) /\ r[l + 1] = m
      /\ \A i \in 1..l : r[i] = s[i]
  BY AppendTypes
<1>3. PICK at \in [DOMAIN z -> DOMAIN s] :
         \A i, j \in DOMAIN z : z[i] = s[at[i]] /\ (i < j => at[i] < at[j])
  BY DEF Among
<1> HIDE DEF y, r, n, l
<1> DEFINE to == [i \in 1..(n + 1) |-> IF i \in 1..n THEN at[i] ELSE l + 1]
<1>4. /\ to \in [1..(n + 1) -> 1..(l + 1)] /\ to[n + 1] = l + 1
      /\ \A i \in 1..n : to[i] = at[i] /\ to[i] \in 1..l
  BY <1>1, <1>2, <1>3
<1> HIDE DEF to
<1>5. \A i \in 1..(n + 1) : i \in 1..n \/ i = n + 1
  BY <1>1
<1>6. ASSUME NEW i \in 1..(n + 1) PROVE y[i] = r[to[i]]
  <2>1. CASE i \in 1..n
    BY <1>1, <1>2, <1>3, <1>4, <2>1
  <2>2. CASE i = n + 1
    BY <1>1, <1>2, <1>4, <2>2
  <2> QED
    BY <1>5, <2>1, <2>2
<1>7. ASSUME NEW i \in 1..(n + 1), NEW j \in 1..(n + 1), i < j PROVE to[i] < to[j]
  <2>1. i \in 1..n
    BY <1>1, <1>5, <1>7
  <2>2. CASE j \in 1..n
    BY <1>1, <1>3, <1>4, <1>7, <2>1, <2>2
  <2>3. CASE j = n + 1
    BY <1>2, <1>4, <2>1, <2>3
  <2> QED
    BY <1>5, <2>2, <2>3
<1>8. Among(y, r)
  BY <1>1, <1>2, <1>4, <1>6, <1>7 DEF Among
<1> QED
  BY <1>8 DEF y, r

(* The messages that are known of turn t, before and after event e. *)
Grow(t, e, a, b) ==
    IF e.kind = "recorded" /\ e.turn = t THEN a = <<>> /\ b = e.messages
    ELSE IF e.kind = "steered" /\ e.turn = t THEN b = Append(a, e.message)
    ELSE b = a

(* Before and after a sequence of events; h[k] is what k of them told.       *)
Tells(s, t, a, b, h) ==
    /\ h \in [0..Len(s) -> Seq(Message)] /\ h[0] = a /\ h[Len(s)] = b
    /\ \A k \in 1..Len(s) : Grow(t, s[k], h[k - 1], h[k])
    /\ \A k \in 0..Len(s) : Prefix(h[k], b)
Log(s, t, a, b) == \E h : Tells(s, t, a, b, h)

(* An event tells of more messages, and takes none back. *)
LEMMA GrowIsPrefix ==
    ASSUME NEW t, NEW e \in Events, NEW a \in Seq(Message), NEW b, Grow(t, e, a, b)
    PROVE  b \in Seq(Message) /\ Prefix(a, b)
<1>1. e.kind = "recorded" => e.messages \in Seq(Message)
  BY EventFields DEF Batch
<1>2. e.kind = "steered" => e.message \in Message
  BY EventFields
<1> QED
  BY <1>1, <1>2, PrefixOfItself, PrefixOfMore DEF Grow

(* No events tell of nothing. *)
LEMMA LogOfNone ==
    ASSUME NEW t, NEW a \in Seq(Message), NEW b
    PROVE  Log(<<>>, t, a, b) <=> a = b
<1>1. ASSUME a = b PROVE Log(<<>>, t, a, b)
  <2> DEFINE h == [k \in 0..0 |-> a]
  <2>1. Tells(<<>>, t, a, b, h)
    BY <1>1, PrefixOfItself DEF Tells
  <2> QED
    BY <2>1 DEF Log
<1>2. ASSUME Log(<<>>, t, a, b) PROVE a = b
  BY <1>2 DEF Log, Tells
<1> QED
  BY <1>1, <1>2

(* What one more event tells comes after what was told. *)
LEMMA LogOfMore ==
    ASSUME NEW t, NEW s \in Seq(Events), NEW e \in Events,
           NEW a \in Seq(Message), NEW b \in Seq(Message), NEW c,
           Log(s, t, a, b), Grow(t, e, b, c)
    PROVE  Log(Append(s, e), t, a, c)
<1> DEFINE r == Append(s, e)
           n == Len(s)
<1>0. /\ n \in Nat /\ Len(r) = n + 1 /\ r[n + 1] = e
      /\ \A k \in 1..n : r[k] = s[k]
  BY AppendTypes
<1>1. PICK h : Tells(s, t, a, b, h)
  BY DEF Log
<1> HIDE DEF r, n
<1>2. /\ h \in [0..n -> Seq(Message)] /\ h[0] = a /\ h[n] = b
      /\ \A k \in 1..n : Grow(t, s[k], h[k - 1], h[k])
      /\ \A k \in 0..n : Prefix(h[k], b)
  BY <1>1 DEF Tells, n
<1>3. c \in Seq(Message) /\ Prefix(b, c)
  BY GrowIsPrefix
<1> DEFINE g == [k \in 0..(n + 1) |-> IF k \in 0..n THEN h[k] ELSE c]
<1>4. /\ g \in [0..(n + 1) -> Seq(Message)] /\ g[n + 1] = c /\ n + 1 \in 1..(n + 1)
      /\ \A k \in 0..n : g[k] = h[k]
  BY <1>0, <1>2, <1>3
<1> HIDE DEF g
<1>5. ASSUME NEW k \in 1..(n + 1) PROVE Grow(t, r[k], g[k - 1], g[k])
  <2>1. CASE k \in 1..n
    <3>0. k \in 0..n /\ k - 1 \in 0..n
      BY <1>0, <2>1
    <3>1. r[k] = s[k] /\ g[k - 1] = h[k - 1] /\ g[k] = h[k]
      BY <1>0, <1>4, <2>1, <3>0
    <3> QED
      BY <1>2, <2>1, <3>1
  <2>2. CASE k = n + 1
    <3>1. r[k] = e /\ g[k - 1] = b /\ g[k] = c
      BY <1>0, <1>2, <1>4, <2>2
    <3> QED
      BY <3>1
  <2> QED
    BY <1>0, <2>1, <2>2
<1>6. ASSUME NEW k \in 0..(n + 1) PROVE Prefix(g[k], c)
  <2>1. CASE k \in 0..n
    <3>1. g[k] = h[k] /\ h[k] \in Seq(Message) /\ Prefix(h[k], b)
      BY <1>2, <1>4, <2>1
    <3> QED
      BY <1>3, <3>1, PrefixGoesOn
  <2>2. CASE k = n + 1
    BY <1>3, <1>4, <2>2, PrefixOfItself
  <2> QED
    BY <1>0, <2>1, <2>2
<1>7. g[0] = a
  BY <1>0, <1>2, <1>4
<1>8. Tells(r, t, a, c, g)
  BY <1>0, <1>4, <1>5, <1>6, <1>7 DEF Tells
<1> QED
  BY <1>8 DEF Log, r

(* The first event tells its part, the others the rest. *)
LEMMA LogOfTail ==
    ASSUME NEW t, NEW s \in Seq(Events), s # <<>>, NEW a \in Seq(Message), NEW b,
           Log(s, t, a, b)
    PROVE  \E c \in Seq(Message) : Grow(t, Head(s), a, c) /\ Log(Tail(s), t, c, b)
<1> DEFINE r == Tail(s)
           n == Len(s)
           e == Head(s)
<1>0. /\ n \in Nat /\ Len(r) = n - 1 /\ 1 \in 1..n /\ e = s[1]
      /\ \A k \in 1..(n - 1) : r[k] = s[k + 1]
  BY TailTypes
<1>1. PICK h : Tells(s, t, a, b, h)
  BY DEF Log
<1> HIDE DEF r, n, e
<1>2. /\ h \in [0..n -> Seq(Message)] /\ h[0] = a /\ h[n] = b
      /\ \A k \in 1..n : Grow(t, s[k], h[k - 1], h[k])
      /\ \A k \in 0..n : Prefix(h[k], b)
  BY <1>1 DEF Tells, n
<1> DEFINE g == [k \in 0..(n - 1) |-> h[k + 1]]
<1>3. /\ g \in [0..(n - 1) -> Seq(Message)]
      /\ \A k \in 0..(n - 1) : g[k] = h[k + 1] /\ k + 1 \in 0..n
  BY <1>0, <1>2
<1> HIDE DEF g
<1>4. g[0] = h[1] /\ g[n - 1] = b /\ g[0] \in Seq(Message)
  BY <1>0, <1>2, <1>3
<1>5. Grow(t, e, a, g[0])
  <2>1. Grow(t, s[1], h[1 - 1], h[1])
    BY <1>0, <1>2
  <2>2. 1 - 1 = 0
    OBVIOUS
  <2> QED
    BY <1>0, <1>2, <1>4, <2>1, <2>2
<1>6. ASSUME NEW k \in 1..(n - 1) PROVE Grow(t, r[k], g[k - 1], g[k])
  <2>1. /\ r[k] = s[k + 1] /\ g[k - 1] = h[k] /\ g[k] = h[k + 1] /\ k + 1 \in 1..n
        /\ (k + 1) - 1 = k
    BY <1>0, <1>3
  <2>2. Grow(t, s[k + 1], h[(k + 1) - 1], h[k + 1])
    BY <1>2, <2>1
  <2> QED
    BY <2>1, <2>2
<1>7. ASSUME NEW k \in 0..(n - 1) PROVE Prefix(g[k], b)
  BY <1>2, <1>3
<1>8. Tells(r, t, g[0], b, g)
  BY <1>0, <1>3, <1>4, <1>6, <1>7 DEF Tells
<1>9. Log(r, t, g[0], b)
  BY <1>8 DEF Log
<1> QED
  BY <1>4, <1>5, <1>9 DEF r, e

(* Events never take a message back. *)
LEMMA LogIsPrefix ==
    ASSUME NEW t, NEW s \in Seq(Events), NEW a, NEW b, Log(s, t, a, b)
    PROVE  Prefix(a, b) /\ a \in Seq(Message) /\ b \in Seq(Message)
<1>1. PICK h : Tells(s, t, a, b, h)
  BY DEF Log
<1>2. 0 \in 0..Len(s) /\ Len(s) \in 0..Len(s)
  OBVIOUS
<1> QED
  BY <1>1, <1>2 DEF Tells

(* What one event tells, or two. *)
LEMMA LogOfFew ==
    ASSUME NEW t, NEW a \in Seq(Message), NEW e \in Events, NEW b, Grow(t, e, a, b)
    PROVE  /\ Log(<<e>>, t, a, b)
           /\ \A f \in Events : \A c : Grow(t, f, b, c) => Log(<<e, f>>, t, a, c)
<1>1. Log(<<>>, t, a, a) /\ <<>> \in Seq(Events)
  BY LogOfNone
<1>2. Append(<<>>, e) = <<e>>
  OBVIOUS
<1>3. Log(<<e>>, t, a, b)
  BY <1>1, <1>2, LogOfMore
<1>4. ASSUME NEW f \in Events, NEW c, Grow(t, f, b, c) PROVE Log(<<e, f>>, t, a, c)
  <2>0. <<e>> \in Seq(Events)
    OBVIOUS
  <2>1. Append(<<e>>, f) = <<e, f>>
    <3> DEFINE x == Append(<<e>>, f)
               y == <<e, f>>
    <3>1. x \in Seq(Events) /\ Len(x) = 2 /\ x[1] = e /\ x[2] = f
      BY <2>0, AppendTypes
    <3>2. y \in Seq(Events) /\ Len(y) = 2 /\ y[1] = e /\ y[2] = f
      OBVIOUS
    <3> HIDE DEF x, y
    <3>3. x \in [1..2 -> Events] /\ y \in [1..2 -> Events] /\ \A i \in 1..2 : x[i] = y[i]
      BY <3>1, <3>2
    <3>4. x = y
      BY <3>3
    <3> QED
      BY <3>4 DEF x, y
  <2>2. b \in Seq(Message)
    BY GrowIsPrefix
  <2> QED
    BY <1>3, <1>4, <2>0, <2>1, <2>2, LogOfMore
<1> QED
  BY <1>3, <1>4

(* Only a record or an accepted steer tells of messages. *)
LEMMA LogOfPlain ==
    ASSUME NEW t, NEW a, NEW e, e.kind \notin {"recorded", "steered"}
    PROVE  Grow(t, e, a, a)
  BY DEF Grow

-----------------------------------------------------------------------------
(* The messages that the turns accept, and the entry of the backend's cache. *)

PlainEvents == {e \in Events : e.kind \notin {"recorded", "steered"}}
Forks == [turn : Turns, messages : Batch, cached : BOOLEAN]

HistInv ==
    /\ acked \in [Turns -> Seq(Message)] /\ forks \in Seq(Forks)
    /\ notes \in Seq(PlainEvents)

(* Turns are numbered in the order of their start; the backend's entry is    *)
(* what the turn has accepted.                                               *)
TurnsInv ==
    /\ server.running <= server.turns
    /\ \A t \in Turns : t > server.turns => acked[t] = <<>>
    /\ cache.turn # 0 => cache.turn <= server.turns /\ cache.messages = acked[cache.turn]

(* What the two requests that deliver a message do. *)
LEMMA StartDoes ==
    ASSUME TypeInv, RunStart
    PROVE  /\ backend.at = "start" /\ Cmd.message \in Message
           /\ UNCHANGED <<tl, commands, events, holes, forks>>
           /\ \/ UNCHANGED <<server, notes, cache, acked>> /\ Fail(SubmissionFailed(Cmd))
              \/ \E t \in Turns :
                   /\ t = server.turns + 1 /\ server.running = 0
                   /\ server'.running = t /\ server'.turns = t
                   /\ notes' = Append(notes, Note("started", t))
                   /\ \/ UNCHANGED <<cache, acked>> /\ Fail(SubmissionFailed(Cmd))
                      \/ /\ cache' = [turn |-> t, messages |-> <<Cmd.message>>]
                         /\ acked' = [acked EXCEPT ![t] = <<Cmd.message>>]
                         /\ Reply(<<Note("started", t), Recorded(t, <<Cmd.message>>)>>)
<1>1. /\ backend.at = "start" /\ Cmd.message \in Message
      /\ UNCHANGED <<tl, commands, events, holes, forks>>
  BY CmdTypes
  DEF TypeInv, RunStart, Asks, Ask, Carries, Commands, Message, notBackend, uiVars
<1> DEFINE t == server.turns + 1
<1>2. CASE UNCHANGED serverVars /\ Fail(SubmissionFailed(Cmd))
  BY <1>1, <1>2 DEF serverVars, Fail
<1>3. CASE /\ server.running = 0 /\ t \in Turns
           /\ server' = [server EXCEPT !.running = t, !.turns = t, !.halting = FALSE,
                                       !.spoke = FALSE]
           /\ notes' = Append(notes, Note("started", t))
  <2> HIDE DEF t
  <2>1. server'.running = t /\ server'.turns = t
    BY <1>3 DEF TypeInv, ServerInv
  <2>2. \/ UNCHANGED <<cache, acked>> /\ Fail(SubmissionFailed(Cmd))
        \/ /\ cache' = [turn |-> t, messages |-> <<Cmd.message>>]
           /\ acked' = [acked EXCEPT ![t] = <<Cmd.message>>]
           /\ Reply(<<Note("started", t), Recorded(t, <<Cmd.message>>)>>)
    BY DEF RunStart, Ask, Fail, t
  <2> QED
    BY <1>1, <1>3, <2>1, <2>2 DEF t
<1> QED
  BY <1>2, <1>3 DEF RunStart, Ask

(* A steer that is answered is recorded, told and no more. *)
LEMMA SteerDoes ==
    ASSUME TypeInv, RunSteer
    PROVE  /\ backend.at = "steer" /\ Cmd.message \in Message /\ Cmd.turn \in Turns
           /\ UNCHANGED <<tl, commands, events, holes, forks, server, notes>>
           /\ \/ UNCHANGED <<cache, acked>> /\ Fail(SubmissionFailed(Cmd))
              \/ /\ server.running = Cmd.turn /\ RecordSteer
                 /\ acked' = [acked EXCEPT ![Cmd.turn] = Append(@, Cmd.message)]
                 /\ Reply(<<Steered(Cmd.turn, Cmd.message)>>)
<1>1. /\ backend.at = "steer" /\ Cmd.message \in Message /\ Cmd.turn \in Turns
      /\ UNCHANGED <<tl, commands, events, holes, forks, server, notes>>
  BY CmdTypes
  DEF TypeInv, RunSteer, Asks, Ask, Carries, Commands, Message, Turn0, notBackend, uiVars,
      serverVars
<1>2. \/ UNCHANGED <<cache, acked>> /\ Fail(SubmissionFailed(Cmd))
      \/ /\ server.running = Cmd.turn /\ RecordSteer
         /\ acked' = [acked EXCEPT ![Cmd.turn] = Append(@, Cmd.message)]
         /\ Reply(<<Steered(Cmd.turn, Cmd.message)>>)
  BY DEF RunSteer, Ask, Fail
<1> QED
  BY <1>1, <1>2

(* No other step delivers a message, starts a turn or fills the entry. *)
LEMMA OthersDeliverNone ==
    ASSUME TypeInv, [Next]_vars, ~RunStart, ~RunSteer
    PROVE  /\ acked' = acked /\ server'.turns = server.turns
           /\ server'.running \in {0, server.running}
           /\ cache' \in {cache, NoEntry}
           /\ RetryRestart \/ forks' = forks
<1>0. server \in [alive : BOOLEAN, running : Turn0, turns : Turn0, halting : BOOLEAN,
                  spoke : BOOLEAN]
  BY DEF TypeInv, ServerInv
<1>1. CASE User
  BY <1>1 DEF User, Type, Submit, Stop, Retry, DismissBanner, Select, notUser, serverVars, history
<1>2. CASE Reduce
  BY <1>2
  DEF Reduce, ReduceStarted, ReduceRecorded, ReduceSteered, ReduceEnded, ReduceStopFailed,
      ReduceBuffering, ReduceSpoke, ReduceRuntime, ReduceSubmissionFailed, ReduceRetryFailed,
      ReduceCreated, ReduceLost, ReduceConnected, NextIs, serverVars
<1>3. CASE Take \/ TakeOffline \/ Emit \/ Signal \/ Rest \/ UNCHANGED vars
  BY <1>3 DEF Take, TakeOffline, Emit, Signal, Rest, vars, serverVars, history
<1>4. CASE Reconnect
  <2>1. server' = [server EXCEPT !.alive = TRUE]
    BY <1>4 DEF Reconnect
  <2> QED
    BY <1>0, <1>4, <2>1 DEF Reconnect, history
<1>5. CASE Drain
  <2>1. server' = [server EXCEPT !.alive = FALSE, !.running = 0, !.halting = FALSE,
                                     !.spoke = FALSE]
        \/ server' = server
    BY <1>5 DEF Drain, Lose
  <2>2. server'.turns = server.turns /\ server'.running \in {0, server.running}
    BY <1>0, <2>1
  <2> QED
    BY <1>5, <2>2 DEF Drain, Lose, history
<1>6. CASE Server
  <2>1. server'.turns = server.turns /\ server'.running \in {0, server.running}
    BY <1>0, <1>6 DEF Server, Speak, Buffer, Finish, Die
  <2> QED
    BY <1>6, <2>1 DEF Server, Speak, Buffer, Finish, Die, notServer, history
<1>7. CASE RunStop \/ RunResume \/ RetryInterrupt \/ RetryCheck \/ RetryFork \/ RetryRestart
  <2>1. server' = server \/ server' = [server EXCEPT !.halting = TRUE]
    BY <1>7
    DEF RunStop, RunResume, RetryInterrupt, RetryCheck, RetryFork, RetryRestart, Ask, Halt,
        serverVars
  <2>2. server'.turns = server.turns /\ server'.running \in {0, server.running}
    BY <1>0, <2>1
  <2> QED
    BY <1>7, <2>2
    DEF RunStop, RunResume, RetryInterrupt, RetryCheck, RetryFork, RetryRestart, Ask, Halt, Fail,
        GiveUp, serverVars
<1> QED
  BY <1>1, <1>2, <1>3, <1>4, <1>5, <1>6, <1>7 DEF Next, Backend

(* What a turn has accepted only grows, and stands still unless it runs. *)
Delivered ==
    /\ acked' \in [Turns -> Seq(Message)]
    /\ \A t \in Turns : /\ Prefix(acked[t], acked'[t])
                        /\ t <= server.turns /\ t # server.running => acked'[t] = acked[t]

(* Every step only adds to what a turn has accepted. *)
LEMMA AckedGrows == TypeInv /\ HistInv /\ TurnsInv /\ [Next]_vars => Delivered
<1> SUFFICES ASSUME TypeInv, HistInv, TurnsInv, [Next]_vars PROVE Delivered
  OBVIOUS
<1>0. acked \in [Turns -> Seq(Message)] /\ server.turns \in Nat
  BY DEF HistInv, TypeInv, ServerInv, Turn0, Turns
<1>1. CASE acked' = acked
  BY <1>0, <1>1, PrefixOfItself DEF Delivered
<1>2. ASSUME NEW t \in Turns, NEW ms \in Seq(Message), acked' = [acked EXCEPT ![t] = ms],
             Prefix(acked[t], ms), t > server.turns \/ t = server.running
      PROVE  Delivered
  <2>1. /\ acked' \in [Turns -> Seq(Message)] /\ acked'[t] = ms
        /\ \A u \in Turns : u # t => acked'[u] = acked[u]
    BY <1>0, <1>2
  <2>2. t \in Nat
    BY DEF Turns
  <2> QED
    BY <1>0, <1>2, <2>1, <2>2, PrefixOfItself DEF Delivered
<1>3. CASE RunStart
  <2>1. CASE acked' # acked
    <3>1. PICK t \in Turns : t = server.turns + 1 /\ acked' = [acked EXCEPT ![t] = <<Cmd.message>>]
      BY <1>3, <2>1, StartDoes
    <3>2. <<Cmd.message>> \in Seq(Message)
      BY <1>3, StartDoes, Single DEF Batch
    <3>3. acked[t] = <<>> /\ t > server.turns
      BY <1>0, <3>1 DEF TurnsInv
    <3>4. Prefix(acked[t], <<Cmd.message>>)
      BY <3>2, <3>3, PrefixOfItself
    <3> QED
      BY <1>2, <3>1, <3>2, <3>3, <3>4
  <2> QED
    BY <1>1, <2>1
<1>4. CASE RunSteer
  <2>1. CASE acked' # acked
    <3> DEFINE t == Cmd.turn
               ms == Append(acked[t], Cmd.message)
    <3>1. /\ t \in Turns /\ server.running = t /\ Cmd.message \in Message
          /\ acked' = [acked EXCEPT ![t] = ms]
      BY <1>4, <2>1, SteerDoes
    <3>2. ms \in Seq(Message) /\ Prefix(acked[t], ms)
      BY <1>0, <3>1, PrefixOfMore
    <3> HIDE DEF t, ms
    <3> QED
      BY <1>2, <3>1, <3>2
  <2> QED
    BY <1>1, <2>1
<1> QED
  BY <1>1, <1>3, <1>4, OthersDeliverNone

(* The history keeps its types. *)
LEMMA StepHistory == TypeInv /\ HistInv /\ TurnsInv /\ [Next]_vars => HistInv'
<1> SUFFICES ASSUME TypeInv, HistInv, TurnsInv, [Next]_vars PROVE HistInv'
  OBVIOUS
<1>1. acked' \in [Turns -> Seq(Message)]
  BY AckedGrows DEF Delivered
<1>2. forks' \in Seq(Forks)
  <2>1. CASE forks' = forks
    BY <2>1 DEF HistInv
  <2>2. CASE RetryRestart
    <3> DEFINE f == [turn |-> Cmd.turn, messages |-> Cmd.messages, cached |-> backend.cached]
    <3>1. Cmd.turn \in Turns /\ Cmd.messages \in Batch
      BY <2>2, CmdTypes
      DEF RetryRestart, Asks, Carries, Commands, TypeInv, Turn0
    <3>2. f \in Forks
      BY <3>1 DEF Forks, TypeInv, BackendInv, AtInv
    <3>3. forks' \in {forks, Append(forks, f)}
      BY <2>2 DEF RetryRestart, Ask
    <3> HIDE DEF f
    <3> QED
      BY <3>2, <3>3, AppendTypes DEF HistInv
  <2> QED
    BY <2>1, <2>2, StartDoes, SteerDoes, OthersDeliverNone
<1>3. notes' \in Seq(PlainEvents)
  <2>0. notes \in Seq(PlainEvents) /\ <<>> \in Seq(PlainEvents)
    BY DEF HistInv
  <2>1. ASSUME NEW e \in Events, e.kind \notin {"recorded", "steered"}, Says(e)
        PROVE  notes' \in Seq(PlainEvents)
    <3>1. e \in PlainEvents
      BY <2>1 DEF PlainEvents
    <3> QED
      BY <2>0, <2>1, <3>1, AppendTypes DEF Says
  <2>2. server.running \in Turn0 /\ 0 \in Turn0
    BY DEF TypeInv, ServerInv, Turn0
  <2>3. CASE RunStart
    <3>1. CASE notes' = notes
      BY <2>0, <3>1
    <3>2. CASE notes' # notes
      <4>1. PICK t \in Turns : notes' = Append(notes, Note("started", t))
        BY <2>3, <3>2, StartDoes
      <4>2. Note("started", t) \in Events
        BY NoteTypes DEF Turn0
      <4> QED
        BY <2>1, <4>1, <4>2 DEF Says, Note
    <3> QED
      BY <3>1, <3>2
  <2>4. CASE RunSteer
    BY <2>0, <2>4, SteerDoes
  <2>5. CASE Speak
    <3>1. Note("spoke", server.running) \in Events /\ Says(Note("spoke", server.running))
      BY <2>2, <2>5, NoteTypes DEF Speak
    <3> QED
      BY <2>1, <3>1 DEF Note
  <2>6. CASE Buffer
    <3>1. PICK show \in BOOLEAN, model \in BOOLEAN : Says(Buffering(server.running, show, model))
      BY <2>6 DEF Buffer
    <3>2. Buffering(server.running, show, model) \in Events
      BY <2>2, NoteTypes
    <3> QED
      BY <2>1, <3>1, <3>2 DEF Buffering
  <2>7. CASE Finish
    <3>1. Note("ended", server.running) \in Events /\ Says(Note("ended", server.running))
      BY <2>2, <2>7, NoteTypes DEF Finish
    <3> QED
      BY <2>1, <3>1 DEF Note
  <2>8. CASE Die
    <3>1. Note("lost", 0) \in Events /\ Says(Note("lost", 0))
      BY <2>2, <2>8, NoteTypes DEF Die
    <3> QED
      BY <2>1, <3>1 DEF Note
  <2>9. CASE Drain
    <3>1. notes # <<>> /\ notes' \in {Tail(notes), <<>>}
      BY <2>9 DEF Drain, Lose
    <3>2. Tail(notes) \in Seq(PlainEvents)
      BY <2>0, <3>1, TailTypes
    <3> QED
      BY <2>0, <3>1, <3>2
  <2>10. CASE User \/ Reduce
    <3>1. notes' = notes
      BY <2>10
      DEF User, Type, Submit, Stop, Retry, DismissBanner, Select, notUser, serverVars,
          Reduce, ReduceStarted, ReduceRecorded, ReduceSteered, ReduceEnded, ReduceStopFailed,
          ReduceBuffering, ReduceSpoke, ReduceRuntime, ReduceSubmissionFailed,
          ReduceRetryFailed, ReduceCreated, ReduceLost, ReduceConnected, NextIs
    <3> QED
      BY <2>0, <3>1
  <2>11. CASE \/ Take \/ TakeOffline \/ Emit \/ Signal \/ Reconnect \/ Rest \/ UNCHANGED vars
              \/ RunStop \/ RunResume \/ RetryInterrupt \/ RetryCheck \/ RetryFork \/ RetryRestart
    <3>1. notes' = notes
      BY <2>11
      DEF Take, TakeOffline, Emit, Signal, Reconnect, Rest, vars, serverVars,
          RunStop, RunResume, RetryInterrupt, RetryCheck, RetryFork, RetryRestart, Ask, Halt
    <3> QED
      BY <2>0, <3>1
  <2> QED
    BY <2>3, <2>4, <2>5, <2>6, <2>7, <2>8, <2>9, <2>10, <2>11 DEF Next, Backend, Server
<1> QED
  BY <1>1, <1>2, <1>3 DEF HistInv

(* The turns and the entry stay right. *)
LEMMA StepTurns == TypeInv /\ HistInv /\ TurnsInv /\ [Next]_vars => TurnsInv'
<1> SUFFICES ASSUME TypeInv, HistInv, TurnsInv, [Next]_vars PROVE TurnsInv'
  OBVIOUS
<1>0. /\ acked \in [Turns -> Seq(Message)] /\ server.turns \in Nat /\ server.running \in Nat
      /\ \A t \in Turns : t \in Nat /\ t # 0
      /\ NoEntry.turn = 0
      /\ cache = NoEntry \/ cache \in [turn : Turns, messages : Batch]
  BY DEF HistInv, TypeInv, ServerInv, BackendInv, Turn0, Turns, NoEntry
<1>1. CASE ~RunStart /\ ~RunSteer
  <2>1. /\ acked' = acked /\ server'.turns = server.turns
        /\ server'.running \in {0, server.running} /\ cache' \in {cache, NoEntry}
    BY <1>1, OthersDeliverNone
  <2> QED
    BY <1>0, <2>1 DEF TurnsInv
<1>2. CASE RunStart
  <2>1. CASE UNCHANGED <<server, notes, cache, acked>>
    BY <2>1 DEF TurnsInv
  <2>2. CASE ~UNCHANGED <<server, notes, cache, acked>>
    <3>1. PICK t \in Turns :
            /\ t = server.turns + 1 /\ server.running = 0
            /\ server'.running = t /\ server'.turns = t
            /\ \/ UNCHANGED <<cache, acked>>
               \/ /\ cache' = [turn |-> t, messages |-> <<Cmd.message>>]
                  /\ acked' = [acked EXCEPT ![t] = <<Cmd.message>>]
      BY <1>2, <2>2, StartDoes
    <3>2. CASE UNCHANGED <<cache, acked>>
      <4>1. server'.running <= server'.turns /\ server.turns <= server'.turns
        BY <1>0, <3>1
      <4>2. \A u \in Turns : u > server'.turns => u > server.turns
        BY <1>0, <3>1
      <4>3. cache.turn # 0 => cache.turn <= server'.turns
        <5>1. cache.turn \in Nat
          BY <1>0
        <5> QED
          BY <1>0, <3>1, <5>1 DEF TurnsInv
      <4> QED
        BY <3>2, <4>1, <4>2, <4>3 DEF TurnsInv
    <3>3. CASE /\ cache' = [turn |-> t, messages |-> <<Cmd.message>>]
               /\ acked' = [acked EXCEPT ![t] = <<Cmd.message>>]
      <4>1. /\ cache'.turn = t /\ cache'.messages = acked'[t]
            /\ \A u \in Turns : u # t => acked'[u] = acked[u]
        BY <1>0, <3>3
      <4> QED
        BY <1>0, <3>1, <4>1 DEF TurnsInv
    <3> QED
      BY <3>1, <3>2, <3>3
  <2> QED
    BY <2>1, <2>2
<1>3. CASE RunSteer
  <2>1. CASE UNCHANGED <<cache, acked>>
    BY <1>3, <2>1, SteerDoes DEF TurnsInv
  <2>2. CASE ~UNCHANGED <<cache, acked>>
    <3> DEFINE t == Cmd.turn
    <3>1. /\ t \in Turns /\ server.running = t /\ RecordSteer /\ server' = server
          /\ acked' = [acked EXCEPT ![t] = Append(@, Cmd.message)]
      BY <1>3, <2>2, SteerDoes
    <3>2. /\ acked'[t] = Append(acked[t], Cmd.message)
          /\ \A u \in Turns : u # t => acked'[u] = acked[u]
      BY <1>0, <3>1
    <3>3. \A u \in Turns : u > server.turns => acked'[u] = <<>>
      BY <1>0, <3>1, <3>2 DEF TurnsInv
    <3>4. cache'.turn # 0 => cache'.turn <= server.turns /\ cache'.messages = acked'[cache'.turn]
      <4>1. CASE cache.turn # t
        <5>1. cache' = cache
          BY <3>1, <4>1 DEF RecordSteer
        <5> QED
          BY <1>0, <3>2, <4>1, <5>1 DEF TurnsInv
      <4>2. CASE cache.turn = t
        <5>1. cache \in [turn : Turns, messages : Batch] /\ cache.messages = acked[t]
          BY <1>0, <3>1, <4>2 DEF TurnsInv
        <5>2. cache' = NoEntry \/ cache' = [cache EXCEPT !.messages = Append(@, Cmd.message)]
          BY <3>1, <4>2 DEF RecordSteer
        <5>3. CASE cache' = NoEntry
          BY <1>0, <5>3
        <5>4. CASE cache' = [cache EXCEPT !.messages = Append(@, Cmd.message)]
          <6>1. cache'.turn = t /\ cache'.messages = Append(acked[t], Cmd.message)
            BY <4>2, <5>1, <5>4
          <6> QED
            BY <3>1, <3>2, <4>2, <6>1 DEF TurnsInv
        <5> QED
          BY <5>2, <5>3, <5>4
      <4> QED
        BY <4>1, <4>2
    <3> QED
      BY <3>1, <3>3, <3>4 DEF TurnsInv
  <2> QED
    BY <2>1, <2>2
<1> QED
  BY <1>1, <1>2, <1>3

-----------------------------------------------------------------------------
(* The events tell the timeline, in order, what the turn has accepted.       *)

(* The events that are queued or to be emitted tell, in order, what is left  *)
(* between the messages that the timeline knows of a turn and those of the   *)
(* messages of the turn of which no event was missed: all that it accepted,  *)
(* as long as none was.                                                      *)
LogInv ==
    \A t \in Turns : \E a, b, z \in Seq(Message) :
        /\ Log(events, t, a, b) /\ Log(backend.out, t, b, z)
        /\ Among(z, acked[t]) /\ ("missed" \notin holes => z = acked[t])
        /\ tl.active = t => tl.retry \in {<<>>, a}

(* No event is told, and none is needed. *)
LEMMA InitLogs == Init => LogInv
<1>1. <<>> \in Seq(Message)
  OBVIOUS
<1> SUFFICES ASSUME Init, NEW t \in Turns
             PROVE  \E a, b, z \in Seq(Message) :
                       /\ Log(events, t, a, b) /\ Log(backend.out, t, b, z)
                       /\ Among(z, acked[t]) /\ ("missed" \notin holes => z = acked[t])
                       /\ tl.active = t => tl.retry \in {<<>>, a}
  BY DEF LogInv
<1>2. events = <<>> /\ backend.out = <<>> /\ acked[t] = <<>> /\ tl.retry = <<>>
  BY DEF Init, Idle
<1>3. Log(<<>>, t, <<>>, <<>>)
  BY <1>1, LogOfNone
<1>4. Log(events, t, <<>>, <<>>) /\ Log(backend.out, t, <<>>, <<>>) /\ Among(<<>>, acked[t])
  BY <1>1, <1>2, <1>3, AmongThemselves
<1> QED
  BY <1>1, <1>2, <1>4

(* What is never missed was not missed before. *)
LEMMA MissedStays == [Next]_vars /\ "missed" \in holes => "missed" \in holes'
<1> SUFFICES ASSUME [Next]_vars, "missed" \in holes PROVE "missed" \in holes'
  OBVIOUS
<1>1. User \/ Reduce => holes \subseteq holes'
  BY HolesStay
<1>2. Backend \/ Drain \/ Server \/ Rest \/ UNCHANGED vars => holes \subseteq holes'
  BY DEF Backend, Take, TakeOffline, RunStart, RunSteer, RunStop, RunResume, RetryInterrupt,
         RetryCheck, RetryFork, RetryRestart, Emit, Signal, Reconnect, Drain, Server, Speak,
         Buffer, Finish, Die, Rest, Asks, notBackend, notServer, uiVars, vars, Hole
<1> QED
  BY <1>1, <1>2 DEF Next

(* The steps that neither tell nor read anything. *)
LEMMA LogsStay ==
    ASSUME LogInv, "missed" \in holes => "missed" \in holes',
           UNCHANGED <<events, acked>>, backend'.out = backend.out,
           tl'.retry = <<>> \/ (tl'.retry = tl.retry /\ tl'.active \in {0, tl.active})
    PROVE  LogInv'
<1> SUFFICES ASSUME NEW t \in Turns
             PROVE  \E a, b, z \in Seq(Message) :
                       /\ Log(events', t, a, b) /\ Log(backend'.out, t, b, z)
                       /\ Among(z, acked'[t]) /\ ("missed" \notin holes' => z = acked'[t])
                       /\ tl'.active = t => tl'.retry \in {<<>>, a}
  BY DEF LogInv
<1>1. PICK a \in Seq(Message), b \in Seq(Message), z \in Seq(Message) :
         /\ Log(events, t, a, b) /\ Log(backend.out, t, b, z)
         /\ Among(z, acked[t]) /\ ("missed" \notin holes => z = acked[t])
         /\ tl.active = t => tl.retry \in {<<>>, a}
  BY DEF LogInv
<1>2. t # 0
  BY DEF Turns
<1> QED
  BY <1>1, <1>2

(* A reply to a request, when nothing was left to be emitted. *)
LEMMA LogsAreTold ==
    ASSUME LogInv, HistInv, OutInv, "missed" \in holes => "missed" \in holes',
           backend.at # "emit", UNCHANGED <<events, tl>>,
           \A t \in Turns : \A z \in Seq(Message) : Among(z, acked[t]) =>
               \E y \in Seq(Message) :
                   /\ Log(backend'.out, t, z, y) /\ Among(y, acked'[t])
                   /\ z = acked[t] => y = acked'[t]
    PROVE  LogInv'
<1> SUFFICES ASSUME NEW t \in Turns
             PROVE  \E a, b, z \in Seq(Message) :
                       /\ Log(events', t, a, b) /\ Log(backend'.out, t, b, z)
                       /\ Among(z, acked'[t]) /\ ("missed" \notin holes' => z = acked'[t])
                       /\ tl'.active = t => tl'.retry \in {<<>>, a}
  BY DEF LogInv
<1>1. PICK a \in Seq(Message), b \in Seq(Message), z \in Seq(Message) :
         /\ Log(events, t, a, b) /\ Log(backend.out, t, b, z)
         /\ Among(z, acked[t]) /\ ("missed" \notin holes => z = acked[t])
         /\ tl.active = t => tl.retry \in {<<>>, a}
  BY DEF LogInv
<1>2. b = z
  BY <1>1, LogOfNone DEF OutInv
<1>3. PICK y \in Seq(Message) : /\ Log(backend'.out, t, b, y) /\ Among(y, acked'[t])
                                /\ z = acked[t] => y = acked'[t]
  BY <1>1, <1>2
<1> QED
  BY <1>1, <1>3

(* A step of the backend that delivers nothing, and answers nothing or one event *)
(* that tells of no message.                                                     *)
LEMMA PlainIsTold ==
    ASSUME LogInv, HistInv, OutInv, "missed" \in holes => "missed" \in holes',
           backend.at # "emit", UNCHANGED <<events, tl, acked>>,
           NEW e \in PlainEvents, backend'.out \in {<<>>, <<e>>}
    PROVE  LogInv'
<1> SUFFICES ASSUME NEW t \in Turns, NEW z \in Seq(Message) PROVE Log(backend'.out, t, z, z)
  BY LogsAreTold
<1>1. e \in Events
  BY DEF PlainEvents
<1>2. Log(<<>>, t, z, z)
  BY LogOfNone
<1>3. Grow(t, e, z, z)
  BY LogOfPlain DEF PlainEvents
<1>4. Log(<<e>>, t, z, z)
  BY <1>1, <1>3, LogOfFew
<1> QED
  BY <1>2, <1>4

(* What the reducer reads. *)
LEMMA ReduceLogs == TypeInv /\ HistInv /\ LogInv /\ Reduce => LogInv'
<1> SUFFICES ASSUME TypeInv, HistInv, LogInv, Reduce, NEW t \in Turns
             PROVE  \E a, b, z \in Seq(Message) :
                       /\ Log(events', t, a, b) /\ Log(backend'.out, t, b, z)
                       /\ Among(z, acked'[t]) /\ ("missed" \notin holes' => z = acked'[t])
                       /\ tl'.active = t => tl'.retry \in {<<>>, a}
  BY DEF LogInv
<1>0. UNCHANGED <<backend, acked>>
  BY DEF Reduce, ReduceStarted, ReduceRecorded, ReduceSteered, ReduceEnded, ReduceStopFailed,
      ReduceBuffering, ReduceSpoke, ReduceRuntime, ReduceSubmissionFailed, ReduceRetryFailed,
      ReduceCreated, ReduceLost, ReduceConnected, NextIs
<1>1. /\ Said \in Events /\ events # <<>> /\ events' = Tail(events) /\ holes \subseteq holes'
      /\ events \in Seq(Events)
  BY RetryMoves DEF TypeInv, EventsInv
<1>2. PICK a \in Seq(Message), b \in Seq(Message), z \in Seq(Message) :
         /\ Log(events, t, a, b) /\ Log(backend.out, t, b, z)
         /\ Among(z, acked[t]) /\ ("missed" \notin holes => z = acked[t])
         /\ tl.active = t => tl.retry \in {<<>>, a}
  BY DEF LogInv
<1>3. PICK c \in Seq(Message) : Grow(t, Said, a, c) /\ Log(events', t, c, b)
  BY <1>1, <1>2, LogOfTail DEF Said
<1>4. ASSUME tl'.active = t PROVE tl'.retry \in {<<>>, c}
  <2>0. t # 0 /\ t \in Turns
    BY DEF Turns
  <2>1. CASE tl'.retry = <<>>
    BY <2>1
  <2>2. CASE /\ tl'.retry = tl.retry /\ tl'.active \in {0, tl.active}
             /\ ~(Said.kind \in {"recorded", "steered"} /\ IsActive)
    <3>1. tl.active = t /\ tl.retry \in {<<>>, a}
      BY <1>2, <1>4, <2>0, <2>2
    <3>2. c = a
      BY <1>3, <2>0, <2>2, <3>1 DEF Grow, IsActive
    <3> QED
      BY <2>2, <3>1, <3>2
  <2>3. CASE /\ IsActive /\ tl'.active = tl.active
             /\ Said.kind = "recorded" /\ tl'.retry = Said.messages
    BY <1>3, <1>4, <2>3 DEF Grow, IsActive
  <2>4. CASE /\ IsActive /\ tl'.active = tl.active /\ tl.retry # <<>>
             /\ Said.kind = "steered" /\ tl'.retry = Append(tl.retry, Said.message)
    BY <1>2, <1>3, <1>4, <2>4 DEF Grow, IsActive
  <2> QED
    BY <2>1, <2>2, <2>3, <2>4, RetryMoves
<1>5. "missed" \notin holes' => "missed" \notin holes
  BY <1>1
<1> QED
  BY <1>0, <1>2, <1>3, <1>4, <1>5

(* What the backend emits. *)
LEMMA EmitLogs == TypeInv /\ PairInv /\ HistInv /\ LogInv /\ Emit => LogInv'
<1> SUFFICES ASSUME TypeInv, PairInv, HistInv, LogInv, Emit, NEW t \in Turns
             PROVE  \E a, b, z \in Seq(Message) :
                       /\ Log(events', t, a, b) /\ Log(backend'.out, t, b, z)
                       /\ Among(z, acked'[t]) /\ ("missed" \notin holes' => z = acked'[t])
                       /\ tl'.active = t => tl'.retry \in {<<>>, a}
  BY DEF LogInv
<1> DEFINE e == Head(backend.out)
<1>0. /\ backend.out # <<>> /\ events \in Seq(Events) /\ backend.out \in Seq(Events)
      /\ backend'.out = Tail(backend.out) /\ e \in Events
      /\ UNCHANGED <<tl, acked>>
  BY EmitDoes DEF Emit, notBackend, uiVars
<1>1. \/ events' = Append(events, e) /\ holes' = holes
      \/ events' = events /\ "missed" \in holes'
  BY DEF Emit, Hole
<1>2. e.kind \notin {"recorded", "steered"} \/ Tail(backend.out) = <<>>
  <2>1. CASE Len(backend.out) > 1
    BY <2>1 DEF PairInv
  <2>2. CASE ~(Len(backend.out) > 1)
    BY <1>0, <2>2
  <2> QED
    BY <2>1, <2>2
<1>4. PICK a \in Seq(Message), b \in Seq(Message), z \in Seq(Message) :
         /\ Log(events, t, a, b) /\ Log(backend.out, t, b, z)
         /\ Among(z, acked[t]) /\ ("missed" \notin holes => z = acked[t])
         /\ tl.active = t => tl.retry \in {<<>>, a}
  BY DEF LogInv
<1>5. PICK c \in Seq(Message) : Grow(t, e, b, c) /\ Log(Tail(backend.out), t, c, z)
  BY <1>0, <1>4, LogOfTail
<1> HIDE DEF e
<1>6. CASE events' = Append(events, e) /\ holes' = holes
  <2>1. Log(events', t, a, c)
    BY <1>0, <1>4, <1>5, <1>6, LogOfMore
  <2> QED
    BY <1>0, <1>4, <1>5, <1>6, <2>1
(* What was missed is left out: the message of an event that was the last to be *)
(* emitted, or none.                                                            *)
<1>7. CASE events' = events /\ "missed" \in holes'
  <2>1. CASE e.kind \notin {"recorded", "steered"}
    <3>1. c = b
      BY <1>5, <2>1 DEF Grow
    <3> QED
      BY <1>0, <1>4, <1>5, <1>7, <3>1
  <2>2. CASE Tail(backend.out) = <<>>
    <3>0. Log(<<>>, t, c, z)
      BY <1>5, <2>2
    <3>1. c = z /\ Prefix(b, c)
      BY <1>0, <1>5, <3>0, LogOfNone, GrowIsPrefix
    <3>2. acked[t] \in Seq(Message)
      BY DEF HistInv
    <3>3. Among(b, acked[t]) /\ Log(<<>>, t, b, b)
      BY <1>4, <3>1, <3>2, AmongBefore, LogOfNone
    <3> QED
      BY <1>0, <1>4, <1>7, <2>2, <3>3
  <2> QED
    BY <1>2, <2>1, <2>2
<1> QED
  BY <1>1, <1>6, <1>7

(* What the backend forwards. *)
LEMMA ForwardLogs ==
    TypeInv /\ HistInv /\ OutInv /\ LogInv /\ (Drain \/ Signal) => LogInv'
<1> SUFFICES ASSUME TypeInv, HistInv, OutInv, LogInv, Drain \/ Signal, NEW t \in Turns
             PROVE  \E a, b, z \in Seq(Message) :
                       /\ Log(events', t, a, b) /\ Log(backend'.out, t, b, z)
                       /\ Among(z, acked'[t]) /\ ("missed" \notin holes' => z = acked'[t])
                       /\ tl'.active = t => tl'.retry \in {<<>>, a}
  BY DEF LogInv
<1>0. UNCHANGED <<tl, acked, holes>> /\ events \in Seq(Events)
  BY DEF TypeInv, EventsInv, Drain, Signal, notBackend, uiVars, history
<1>1. backend'.out = backend.out
  BY DEF Drain, Lose, Goto, Signal, Done, Idle, OutInv, TypeInv, BackendInv, AtInv
<1>2. PICK e \in PlainEvents : events' \in {events, Append(events, e)}
  <2>1. Note("lost", 0) \in PlainEvents
    <3>1. Note("lost", 0) \in Events
      BY NoteTypes DEF Turn0
    <3> QED
      BY <3>1 DEF PlainEvents, Note
  <2>2. notes # <<>> => Head(notes) \in PlainEvents
    BY TailTypes DEF HistInv
  <2> QED
    BY <2>1, <2>2 DEF Drain, Lose, Signal
<1>3. PICK a \in Seq(Message), b \in Seq(Message), z \in Seq(Message) :
         /\ Log(events, t, a, b) /\ Log(backend.out, t, b, z)
         /\ Among(z, acked[t]) /\ ("missed" \notin holes => z = acked[t])
         /\ tl.active = t => tl.retry \in {<<>>, a}
  BY <1>0 DEF LogInv
<1>4. e \in Events /\ Grow(t, e, b, b)
  BY LogOfPlain DEF PlainEvents
<1>5. Log(Append(events, e), t, a, b)
  BY <1>0, <1>3, <1>4, LogOfMore
<1> QED
  BY <1>0, <1>1, <1>2, <1>3, <1>5

(* What the backend replies to its requests. *)
LEMMA RequestLogs ==
    /\ TypeInv /\ HistInv /\ TurnsInv /\ OutInv /\ LogInv
    /\ Take \/ TakeOffline \/ RunStart \/ RunSteer \/ RunStop \/ RunResume \/ Reconnect
       \/ RetryInterrupt \/ RetryCheck \/ RetryFork \/ RetryRestart
    => LogInv'
<1> SUFFICES ASSUME TypeInv, HistInv, TurnsInv, OutInv, LogInv,
                    Take \/ TakeOffline \/ RunStart \/ RunSteer \/ RunStop \/ RunResume
                    \/ Reconnect \/ RetryInterrupt \/ RetryCheck \/ RetryFork \/ RetryRestart
             PROVE  LogInv'
  OBVIOUS
<1>0. /\ backend.at # "emit" /\ UNCHANGED <<tl, events>>
      /\ "missed" \in holes => "missed" \in holes'
  BY DEF Take, TakeOffline, RunStart, RunSteer, RunStop, RunResume, Reconnect, RetryInterrupt,
         RetryCheck, RetryFork, RetryRestart, Asks, notBackend, uiVars, Hole
<1>1. ASSUME NEW e \in Events, e.kind \notin {"recorded", "steered"},
             backend'.out \in {<<>>, <<e>>}, acked' = acked
      PROVE  LogInv'
  <2>1. e \in PlainEvents
    BY <1>1 DEF PlainEvents
  <2> QED
    BY <1>0, <1>1, <2>1, PlainIsTold
<1>2. ASSUME NEW e \in Events, e.kind \notin {"recorded", "steered"}, Fail(e) PROVE LogInv'
  <2>1. backend'.out = <<e>> /\ acked' = acked
    BY <1>2 DEF Fail, Reply, Idle
  <2> QED
    BY <1>1, <1>2, <2>1
<1>3. /\ Note("lost", 0) \in Events /\ Note("connected", 0) \in Events
      /\ Note("stopFailed", 0) \in Events /\ Note("created", 0) \in Events
      /\ SubmissionFailed(Cmd) \in Events /\ Cmd \in Commands
  BY NoteTypes, CmdTypes DEF Turn0, TypeInv
<1>4. CASE Take
  <2>1. backend'.out = <<>> /\ acked' = acked
    BY <1>4 DEF Take, Idle, history
  <2> QED
    BY <1>1, <1>3, <2>1 DEF Note
<1>5. CASE TakeOffline \/ Reconnect
  <2>1. acked' = acked /\ (backend'.out = <<Note("lost", 0)>> \/ backend'.out = <<Note("connected", 0)>>)
    BY <1>5 DEF TakeOffline, Reconnect, Reply, Idle, history
  <2> QED
    BY <1>1, <1>3, <2>1 DEF Note
<1>6. CASE RunStop
  <2>1. acked' = acked /\ (backend'.out = <<>> \/ backend'.out = <<Note("stopFailed", 0)>>)
    <3>1. acked' = acked /\ (Done \/ Reply(<<Note("stopFailed", 0)>>))
      BY <1>6 DEF RunStop
    <3>2. Done => backend'.out = <<>>
      BY DEF Done, Idle
    <3>3. Reply(<<Note("stopFailed", 0)>>) => backend'.out = <<Note("stopFailed", 0)>>
      BY DEF Reply, Idle
    <3> QED
      BY <3>1, <3>2, <3>3
  <2> QED
    BY <1>1, <1>3, <2>1 DEF Note
<1>7. CASE RunResume
  <2> DEFINE e == Runtime(server.running, Cmd.draft)
  <2>1. acked' = acked /\ (backend'.out = <<>> \/ backend'.out = <<e>>)
    <3>1. acked' = acked /\ (Done \/ Reply(<<e>>))
      BY <1>7 DEF RunResume
    <3>2. Done => backend'.out = <<>>
      BY DEF Done, Idle
    <3>3. Reply(<<e>>) => backend'.out = <<e>>
      BY DEF Reply, Idle
    <3> QED
      BY <3>1, <3>2, <3>3
  <2>2. e \in Events /\ e.kind = "runtime"
    <3>1. server.running \in Turn0 /\ Cmd.draft \in Nat
      BY <1>3 DEF TypeInv, ServerInv, Commands
    <3> QED
      BY <3>1, NoteTypes DEF Runtime
  <2> HIDE DEF e
  <2> QED
    BY <1>1, <2>1, <2>2
<1>8. CASE RetryInterrupt \/ RetryCheck \/ RetryFork \/ RetryRestart
  <2>1. Cmd.turn \in Turn0 /\ Cmd.messages # <<>> /\ Cmd.messages \in Batch
    BY <1>3, <1>8, CmdTypes
    DEF RetryInterrupt, RetryCheck, RetryFork, RetryRestart, Asks, Carries, Commands, TypeInv
  <2>2. Head(Cmd.messages) \in Messages /\ {} \in Messages
    BY <2>1, TailTypes DEF Batch, Message, Messages
  <2>3. ASSUME NEW chat \in {"none", "here", "fork"}, NEW m \in {{}, Head(Cmd.messages)},
               Fail(RetryFailed(Cmd.turn, chat, m))
        PROVE  LogInv'
    <3>1. RetryFailed(Cmd.turn, chat, m) \in Events
      BY <2>1, <2>2, NoteTypes
    <3> QED
      BY <1>2, <2>3, <3>1 DEF RetryFailed
  <2>4. CASE acked' = acked /\ (Done \/ Goto("check") \/ Goto("fork"))
    <3>1. backend'.out = <<>>
      BY <1>0, <2>4 DEF Done, Goto, Idle, OutInv, TypeInv, BackendInv, AtInv
    <3> QED
      BY <1>1, <1>3, <2>4, <3>1 DEF Note
  <2>5. CASE /\ acked' = acked
             /\ backend' = [backend EXCEPT !.at = "emit", !.out = <<Note("created", 0)>>,
                                           !.then = "restart"]
    <3> DEFINE out == <<Note("created", 0)>>
    <3>1. backend'.out = out
      <4>1. backend' = [backend EXCEPT !.at = "emit", !.out = out, !.then = "restart"]
        BY <2>5
      <4> HIDE DEF out
      <4> QED
        BY <4>1 DEF TypeInv, BackendInv, AtInv
    <3> QED
      BY <1>1, <1>3, <2>5, <3>1 DEF Note
  <2> QED
    BY <1>8, <2>3, <2>4, <2>5 DEF RetryInterrupt, RetryCheck, RetryFork, RetryRestart, Ask, GiveUp
<1>9. CASE RunStart
  <2>1. CASE Fail(SubmissionFailed(Cmd))
    BY <1>2, <1>3, <2>1 DEF SubmissionFailed
  <2>2. CASE ~Fail(SubmissionFailed(Cmd))
    <3> DEFINE batch == <<Cmd.message>>
    <3>1. PICK t \in Turns :
            /\ t = server.turns + 1 /\ acked' = [acked EXCEPT ![t] = batch]
            /\ Reply(<<Note("started", t), Recorded(t, batch)>>)
      BY <1>9, <2>2, StartDoes
    <3> DEFINE e == Note("started", t)
               f == Recorded(t, batch)
    <3>2. backend'.out = <<e, f>>
      BY <3>1 DEF Reply, Idle
    <3>3. batch \in Batch /\ batch \in Seq(Message)
      BY <1>9, StartDoes, Single DEF Batch
    <3>4. /\ e \in Events /\ e.kind = "started" /\ f \in Events /\ f.kind = "recorded"
          /\ f.turn = t /\ f.messages = batch
      BY <3>3, NoteTypes DEF Turn0, Note, Recorded
    <3> HIDE DEF batch, e, f
    <3>5. ASSUME NEW u \in Turns, NEW z \in Seq(Message), Among(z, acked[u])
          PROVE  \E y \in Seq(Message) : /\ Log(backend'.out, u, z, y) /\ Among(y, acked'[u])
                                         /\ z = acked[u] => y = acked'[u]
      <4>1. Grow(u, e, z, z)
        BY <3>4, LogOfPlain
      <4>2. CASE u = t
        <5>1. acked[t] = <<>> /\ acked'[t] = batch
          <6>1. t > server.turns
            BY <3>1 DEF TypeInv, ServerInv, Turn0, Turns
          <6> QED
            BY <3>1, <6>1 DEF TurnsInv, HistInv
        <5>2. z = <<>>
          BY <3>5, <4>2, <5>1, AmongNone
        <5>3. Grow(u, f, z, batch)
          BY <3>4, <4>2, <5>2 DEF Grow
        <5>4. Log(backend'.out, u, z, batch)
          BY <3>2, <3>4, <4>1, <5>3, LogOfFew
        <5>5. Among(batch, batch)
          BY <3>3, AmongThemselves
        <5> QED
          BY <3>3, <4>2, <5>1, <5>4, <5>5
      <4>3. CASE u # t
        <5>1. acked'[u] = acked[u]
          BY <3>1, <4>3 DEF HistInv
        <5>2. Grow(u, f, z, z)
          BY <3>4, <4>3 DEF Grow
        <5>3. Log(backend'.out, u, z, z)
          BY <3>2, <3>4, <4>1, <5>2, LogOfFew
        <5> QED
          BY <3>5, <5>1, <5>3
      <4> QED
        BY <4>2, <4>3
    <3> QED
      BY <1>0, <3>5, LogsAreTold
  <2> QED
    BY <2>1, <2>2
<1>10. CASE RunSteer
  <2>1. CASE Fail(SubmissionFailed(Cmd))
    BY <1>2, <1>3, <2>1 DEF SubmissionFailed
  <2>2. CASE ~Fail(SubmissionFailed(Cmd))
    <3> DEFINE t == Cmd.turn
               e == Steered(t, Cmd.message)
    <3>1. /\ t \in Turns /\ acked' = [acked EXCEPT ![t] = Append(@, Cmd.message)]
          /\ Reply(<<e>>) /\ Cmd.message \in Message
      BY <1>10, <2>2, SteerDoes
    <3>2. backend'.out = <<e>>
      BY <3>1 DEF Reply, Idle
    <3>3. e \in Events /\ e.kind = "steered" /\ e.turn = t /\ e.message = Cmd.message
      BY <3>1, NoteTypes DEF Turn0, Steered
    <3> HIDE DEF t, e
    <3> DEFINE m == Cmd.message
    <3>m. m \in Message /\ e.message = m /\ acked' = [acked EXCEPT ![t] = Append(@, m)]
      BY <3>1, <3>3
    <3> HIDE DEF m
    <3>4. ASSUME NEW u \in Turns, NEW z \in Seq(Message), Among(z, acked[u])
          PROVE  \E y \in Seq(Message) : /\ Log(backend'.out, u, z, y) /\ Among(y, acked'[u])
                                         /\ z = acked[u] => y = acked'[u]
      <4>1. acked[u] \in Seq(Message)
        BY DEF HistInv
      <4>2. CASE u = t
        <5> DEFINE y == Append(z, m)
        <5>1. acked'[u] = Append(acked[u], m)
          BY <3>m, <3>1, <4>2 DEF HistInv
        <5>2. y \in Seq(Message) /\ Among(y, acked'[u])
          BY <3>m, <3>4, <4>1, <5>1, AmongAppends, AppendTypes
        <5>3. Grow(u, e, z, y)
          BY <3>3, <3>m, <4>2 DEF Grow
        <5>4. z = acked[u] => y = acked'[u]
          BY <5>1
        <5> HIDE DEF y
        <5>5. Log(backend'.out, u, z, y)
          BY <3>2, <3>3, <5>3, LogOfFew
        <5> QED
          BY <5>2, <5>4, <5>5
      <4>3. CASE u # t
        <5>1. acked'[u] = acked[u]
          BY <3>m, <4>3 DEF HistInv
        <5>2. Grow(u, e, z, z)
          BY <3>3, <4>3 DEF Grow
        <5>3. Log(backend'.out, u, z, z)
          BY <3>2, <3>3, <5>2, LogOfFew
        <5> QED
          BY <3>4, <5>1, <5>3
      <4> QED
        BY <4>2, <4>3
    <3> QED
      BY <1>0, <3>4, LogsAreTold
  <2> QED
    BY <2>1, <2>2
<1> QED
  BY <1>4, <1>5, <1>6, <1>7, <1>8, <1>9, <1>10

(* Every step keeps the events in step with the turns. *)
LEMMA StepLogs ==
    /\ TypeInv /\ HistInv /\ TurnsInv /\ OutInv /\ PairInv /\ LogInv
    /\ [Next]_vars
    => LogInv'
<1> SUFFICES ASSUME TypeInv, HistInv, TurnsInv, OutInv, PairInv, LogInv, [Next]_vars PROVE LogInv'
  OBVIOUS
<1>1. CASE User
  <2>1. UNCHANGED <<events, acked, backend>>
    BY <1>1 DEF User, Type, Submit, Stop, Retry, DismissBanner, Select, notUser, history
  <2>2. tl'.retry = tl.retry /\ tl'.active = tl.active
    BY <1>1
    DEF User, Type, Submit, Stop, Retry, DismissBanner, Select, AskRuntime, TypeInv, UiInv,
        Timelines
  <2> QED
    BY <2>1, <2>2, MissedStays, LogsStay
<1>2. CASE Server \/ Rest \/ UNCHANGED vars
  <2>1. UNCHANGED <<events, acked, backend, tl>>
    BY <1>2 DEF Server, Speak, Buffer, Finish, Die, notServer, history, Rest, vars, uiVars
  <2> QED
    BY <2>1, MissedStays, LogsStay
<1> QED
  BY <1>1, <1>2, ReduceLogs, EmitLogs, ForwardLogs, RequestLogs DEF Next, Backend

-----------------------------------------------------------------------------
(* A retry sends again what its turn has accepted, and once.                 *)

(* What a retry may send, of all that its turn has accepted.                 *)
Selected(ms, all, missed) == Among(ms, all) /\ (~missed => Prefix(ms, all))

(* A selection stays one when more is accepted or missed. *)
LEMMA SelectedStays ==
    ASSUME NEW ms \in Seq(Message), NEW all \in Seq(Message), NEW more \in Seq(Message),
           Prefix(all, more), NEW missed \in BOOLEAN, NEW now \in BOOLEAN, missed => now,
           Selected(ms, all, missed)
    PROVE  Selected(ms, more, now)
<1>1. Among(ms, more)
  BY AmongMore DEF Selected
<1>2. Prefix(ms, all) => Prefix(ms, more)
  BY PrefixGoesOn
<1> QED
  BY <1>1, <1>2 DEF Selected

(* A retry that is asked for sends what the turn is known to have accepted. *)
Missed == "missed" \in holes
RetriesInv ==
    \A c \in Elements(commands) : c.kind = "retry" =>
        /\ c.turn \in Turns /\ c.messages \in Seq(Message) /\ c.messages # <<>>
        /\ Selected(c.messages, acked[c.turn], Missed)

(* Only the user asks for a retry, with the messages of the timeline. *)
LEMMA RetriesCome ==
    ASSUME TypeInv, [Next]_vars, NEW c \in Elements(commands'), c.kind = "retry"
    PROVE  \/ c \in Elements(commands)
           \/ /\ c.turn = tl.active /\ tl.active \in Turns
              /\ c.messages = tl.retry /\ tl.retry # <<>> /\ tl.retry \in Seq(Message)
<1> DEFINE Known1 ==
             /\ c.turn = tl.active /\ tl.active \in Turns
             /\ c.messages = tl.retry /\ tl.retry # <<>> /\ tl.retry \in Seq(Message)
<1> HIDE DEF Known1
<1>1. ASSUME NEW x \in Commands, Dispatch(x) PROVE c \in Elements(commands) \/ c = x
  <2>1. commands' \in {commands, Append(commands, x)}
    BY <1>1 DEF Dispatch
  <2>2. Elements(Append(commands, x)) = Elements(commands) \cup {x}
    BY <1>1, ElementsAppend DEF TypeInv, CommandsInv
  <2> QED
    BY <2>1, <2>2
<1>2. ASSUME NEW x \in Commands, Dispatch(x), x.kind # "retry" PROVE c \in Elements(commands)
  <2>1. c \in Elements(commands) \/ c = x
    BY <1>1, <1>2
  <2>2. c # x
    BY <1>2
  <2> QED
    BY <2>1, <2>2
<1>3. ASSUME AskRuntime PROVE c \in Elements(commands)
  <2>0. tl \in Timelines /\ tl.generation + 1 \in Nat
    BY DEF TypeInv, UiInv, Timelines
  <2>1. Resume \in Commands /\ Resume.kind = "resume"
    BY <2>0 DEF Resume, NoCommand, Commands, Kinds, Turn0, Messages
  <2> QED
    BY <1>2, <1>3, <2>1 DEF AskRuntime
<1>4. CASE Submit
  <2> DEFINE x == [NoCommand EXCEPT !.kind = IF tl.active = 0 THEN "start" ELSE "steer",
                                    !.turn = tl.active, !.message = composer, !.draft = draft]
  <2>1. x \in Commands /\ x.kind # "retry"
    BY DEF TypeInv, UiInv, NoCommand, Commands, Kinds, Messages, Timelines
  <2>2. Dispatch(x)
    BY <1>4 DEF Submit
  <2> HIDE DEF x
  <2> QED
    BY <1>2, <2>1, <2>2
<1>5. CASE Stop
  <2> DEFINE x == [NoCommand EXCEPT !.kind = "stop", !.turn = tl.active]
  <2>1. x \in Commands /\ x.kind # "retry"
    BY DEF TypeInv, UiInv, NoCommand, Commands, Kinds, Messages, Timelines
  <2>2. Dispatch(x)
    BY <1>5 DEF Stop
  <2> HIDE DEF x
  <2> QED
    BY <1>2, <2>1, <2>2
<1>6. CASE Retry
  <2> DEFINE x == [NoCommand EXCEPT !.kind = "retry", !.turn = tl.active, !.messages = tl.retry]
  <2>0. tl \in Timelines /\ tl.active \in Turns /\ tl.retry # <<>>
    BY <1>6 DEF Retry, TypeInv, UiInv, Timelines, Turn0
  <2>1. x \in Commands /\ x.turn = tl.active /\ x.messages = tl.retry
    BY <2>0 DEF NoCommand, Commands, Kinds, Messages, Timelines
  <2>2. Dispatch(x)
    BY <1>6 DEF Retry
  <2>3. tl.retry \in Seq(Message)
    BY <2>0 DEF Timelines, Batch
  <2> HIDE DEF x
  <2>4. c = x => Known1
    BY <2>0, <2>1, <2>3 DEF Known1
  <2> QED
    BY <1>1, <2>1, <2>2, <2>4 DEF Known1
<1>7. ASSUME NEW chat \in {"here", "other"}, Select(chat) PROVE c \in Elements(commands)
  BY <1>3, <1>7 DEF Select
<1>8. CASE User
  BY <1>4, <1>5, <1>6, <1>7, <1>8 DEF User, Type, DismissBanner
<1>9. CASE Reduce
  <2>1. AskRuntime \/ commands' = commands
    BY <1>9
    DEF Reduce, ReduceStarted, ReduceRecorded, ReduceSteered, ReduceEnded, ReduceStopFailed,
      ReduceBuffering, ReduceSpoke, ReduceRuntime, ReduceSubmissionFailed, ReduceRetryFailed,
      ReduceCreated, ReduceLost, ReduceConnected, Timeline, Same
  <2> QED
    BY <1>3, <2>1
<1>10. CASE Take \/ TakeOffline
  <2>1. commands # <<>> /\ commands' = Tail(commands)
    BY <1>10 DEF Take, TakeOffline
  <2> QED
    BY <2>1, ElementsTail DEF TypeInv, CommandsInv
<1>11. \/ User \/ Reduce \/ Take \/ TakeOffline \/ UNCHANGED commands
  BY DEF Next, Backend, RunStart, RunSteer, RunStop, RunResume, RetryInterrupt, RetryCheck,
         RetryFork, RetryRestart, Emit, Signal, Reconnect, Drain, Server, Speak, Buffer, Finish,
         Die, Rest, Asks, notServer, vars
<1> QED
  BY <1>8, <1>9, <1>10, <1>11

(* The timeline's messages are a selection of those of the active turn. *)
LEMMA TimelineSelects ==
    ASSUME TypeInv, HistInv, LogInv, tl.active \in Turns, tl.retry # <<>>
    PROVE  Selected(tl.retry, acked[tl.active], Missed)
<1> DEFINE t == tl.active
<1>1. PICK a \in Seq(Message), b \in Seq(Message), z \in Seq(Message) :
         /\ Log(events, t, a, b) /\ Log(backend.out, t, b, z)
         /\ Among(z, acked[t]) /\ ("missed" \notin holes => z = acked[t])
         /\ tl.active = t => tl.retry \in {<<>>, a}
  BY DEF LogInv
<1>2. events \in Seq(Events) /\ backend.out \in Seq(Events) /\ acked[t] \in Seq(Message)
      /\ tl.retry = a
  BY <1>1 DEF TypeInv, EventsInv, BackendInv, AtInv, HistInv
<1> HIDE DEF t
<1>3. Prefix(a, b) /\ Prefix(b, z)
  BY <1>1, <1>2, LogIsPrefix
<1>4. Prefix(a, z)
  BY <1>3, PrefixGoesOn
<1>5. Among(a, acked[t])
  BY <1>1, <1>2, <1>4, AmongBefore
<1>6. Selected(a, acked[t], Missed)
  BY <1>1, <1>4, <1>5 DEF Selected, Missed
<1> QED
  BY <1>2, <1>6 DEF t

(* The commands that are asked for. *)
LEMMA StepRetries ==
    /\ TypeInv /\ HistInv /\ TurnsInv /\ LogInv /\ RetriesInv
    /\ [Next]_vars
    => RetriesInv'
<1> SUFFICES ASSUME TypeInv, HistInv, TurnsInv, LogInv, RetriesInv, [Next]_vars,
                    NEW c \in Elements(commands'), c.kind = "retry"
             PROVE  /\ c.turn \in Turns /\ c.messages \in Seq(Message) /\ c.messages # <<>>
                    /\ Selected(c.messages, acked'[c.turn], Missed')
  BY DEF RetriesInv
<1>1. Delivered /\ acked \in [Turns -> Seq(Message)]
  BY AckedGrows DEF HistInv
<1>2. Missed \in BOOLEAN /\ Missed' \in BOOLEAN /\ (Missed => Missed')
  BY MissedStays DEF Missed
<1>3. /\ c.turn \in Turns /\ c.messages \in Seq(Message) /\ c.messages # <<>>
      /\ Selected(c.messages, acked[c.turn], Missed)
  <2>1. CASE c \in Elements(commands)
    BY <2>1 DEF RetriesInv
  <2>2. CASE c \notin Elements(commands)
    <3>1. /\ c.turn = tl.active /\ tl.active \in Turns
          /\ c.messages = tl.retry /\ tl.retry # <<>> /\ tl.retry \in Seq(Message)
      BY <2>2, RetriesCome
    <3> QED
      BY <3>1, TimelineSelects
  <2> QED
    BY <2>1, <2>2
<1>4. /\ acked[c.turn] \in Seq(Message) /\ acked'[c.turn] \in Seq(Message)
      /\ Prefix(acked[c.turn], acked'[c.turn])
  BY <1>1, <1>3 DEF Delivered
<1>5. Selected(c.messages, acked'[c.turn], Missed')
  BY <1>2, <1>3, <1>4, SelectedStays
<1> QED
  BY <1>3, <1>5

-----------------------------------------------------------------------------
(* The entry of the backend, and who knows of it.                            *)

(* A record of the messages of turn t; someone knows that there is, or was,  *)
(* such a record.                                                            *)
RecordedIn(s, t) == \E e \in Elements(s) : e.kind = "recorded" /\ e.turn = t
Known(t) ==
    \/ RecordedIn(events, t) \/ RecordedIn(backend.out, t)
    \/ tl.active = t /\ tl.retry # <<>>
    \/ \E c \in Elements(commands) : c.kind = "retry" /\ c.turn = t

(* Why the backend may be without the entry of a turn that goes on.          *)
Lost(t, all, taken) == t \in taken \/ Len(all) > MaxMessages

(* A turn that runs and that someone can retry has its entry, or has lost it *)
(* to an earlier retry or to an overflow.                                    *)
EntryInv ==
    \A t \in Turns :
        Known(t) /\ server.running = t /\ cache.turn # t => Lost(t, acked[t], tried)

(* What the notices say of is past: the end of a turn that runs is not among *)
(* them.                                                                     *)
NotesInv ==
    \A e \in Elements(notes) :
        /\ e.kind \in {"ended", "spoke"} => e.turn \in Turns /\ e.turn <= server.turns
        /\ e.kind = "ended" => e.turn # server.running

(* Turns start one at a time, each the next. *)
LEMMA TurnsMove ==
    ASSUME TypeInv, [Next]_vars
    PROVE  \/ server'.turns = server.turns /\ server'.running \in {0, server.running}
           \/ /\ RunStart /\ server.running = 0
              /\ server'.turns = server.turns + 1 /\ server'.running = server.turns + 1
<1>1. CASE RunStart
  BY <1>1, StartDoes
<1>2. CASE RunSteer
  BY <1>2, SteerDoes
<1>3. CASE ~RunStart /\ ~RunSteer
  BY <1>3, OthersDeliverNone
<1> QED
  BY <1>1, <1>2, <1>3

(* What becomes of the notices. *)
LEMMA NotesCome ==
    ASSUME TypeInv, [Next]_vars, NEW e \in Elements(notes')
    PROVE  \/ e \in Elements(notes)
           \/ e.kind \notin {"ended", "spoke"}
           \/ /\ e.turn = server.running /\ server.running # 0 /\ ~RunStart
              /\ e.kind = "ended" => server'.running = 0
<1> DEFINE New == \/ e.kind \notin {"ended", "spoke"}
                  \/ /\ e.turn = server.running /\ server.running # 0 /\ ~RunStart
                     /\ e.kind = "ended" => server'.running = 0
<1> HIDE DEF New
<1>0. notes \in Seq(Events) /\ server.running \in Turn0 /\ 0 \in Turn0
  BY DEF TypeInv, ServerInv, Turn0
<1>1. ASSUME NEW x \in Events, Says(x) PROVE e \in Elements(notes) \/ e = x
  BY <1>0, <1>1, ElementsAppend DEF Says
<1>2. CASE notes' = notes
  BY <1>2
<1>3. CASE Speak
  <2>1. Note("spoke", server.running) \in Events /\ Says(Note("spoke", server.running))
        /\ server.running # 0 /\ ~RunStart
    <3>1. server.running # 0
      BY <1>3 DEF Speak
    <3>2. ~RunStart
      BY <1>3 DEF Speak, notServer, RunStart, Ask, Fail, Reply, Idle, Asks
    <3> QED
      BY <1>0, <1>3, <3>1, <3>2, NoteTypes DEF Speak
  <2> QED
    BY <1>1, <2>1 DEF Note
<1>4. CASE Finish
  <2>1. Note("ended", server.running) \in Events /\ Says(Note("ended", server.running))
        /\ server.running # 0 /\ server'.running = 0 /\ ~RunStart
    <3>1. ~RunStart
      BY <1>4 DEF Finish, notServer, RunStart, Ask, Fail, Reply, Idle, Asks
    <3>2. server'.running = 0
      BY <1>4 DEF Finish, TypeInv, ServerInv
    <3> QED
      BY <1>0, <1>4, <3>1, <3>2, NoteTypes DEF Finish
  <2> QED
    BY <1>1, <2>1 DEF Note
<1>5. CASE Buffer
  <2>1. PICK show \in BOOLEAN, model \in BOOLEAN : Says(Buffering(server.running, show, model))
    BY <1>5 DEF Buffer
  <2>2. Buffering(server.running, show, model) \in Events
    BY <1>0, NoteTypes
  <2> QED
    BY <1>1, <2>1, <2>2 DEF Buffering
<1>6. CASE Die
  <2>1. Note("lost", 0) \in Events /\ Says(Note("lost", 0))
    BY <1>0, <1>6, NoteTypes DEF Die
  <2> QED
    BY <1>1, <2>1 DEF Note
<1>7. CASE RunStart
  <2>1. CASE notes' # notes
    <3>1. PICK t \in Turns : notes' = Append(notes, Note("started", t))
      BY <1>7, <2>1, StartDoes
    <3>2. Note("started", t) \in Events
      BY NoteTypes DEF Turn0
    <3> QED
      BY <1>1, <3>1, <3>2 DEF Says, Note
  <2> QED
    BY <1>2, <2>1
<1>8. CASE Drain
  <2>1. notes # <<>> /\ notes' \in {notes, Tail(notes), <<>>}
    BY <1>8 DEF Drain, Lose
  <2> QED
    BY <1>0, <2>1, ElementsTail, ElementsFew
<1>9. CASE User \/ Reduce
  BY <1>2, <1>9
  DEF User, Type, Submit, Stop, Retry, DismissBanner, Select, notUser, serverVars,
      Reduce, ReduceStarted, ReduceRecorded, ReduceSteered, ReduceEnded, ReduceStopFailed,
      ReduceBuffering, ReduceSpoke, ReduceRuntime, ReduceSubmissionFailed,
      ReduceRetryFailed, ReduceCreated, ReduceLost, ReduceConnected, NextIs
<1>10. CASE \/ Take \/ TakeOffline \/ Emit \/ Signal \/ Reconnect \/ Rest \/ UNCHANGED vars
            \/ RunStop \/ RunResume \/ RetryInterrupt \/ RetryCheck \/ RetryFork \/ RetryRestart
            \/ RunSteer
  BY <1>2, <1>10
  DEF Take, TakeOffline, Emit, Signal, Reconnect, Rest, vars, serverVars, RunSteer,
      RunStop, RunResume, RetryInterrupt, RetryCheck, RetryFork, RetryRestart, Ask, Halt
<1> QED
  BY <1>3, <1>4, <1>5, <1>6, <1>7, <1>8, <1>9, <1>10 DEF Next, Backend, Server

(* The notices stay behind the turns. *)
LEMMA StepNotes == TypeInv /\ TurnsInv /\ NotesInv /\ [Next]_vars => NotesInv'
<1> SUFFICES ASSUME TypeInv, TurnsInv, NotesInv, [Next]_vars, NEW e \in Elements(notes')
             PROVE  /\ e.kind \in {"ended", "spoke"} => e.turn \in Turns /\ e.turn <= server'.turns
                    /\ e.kind = "ended" => e.turn # server'.running
  BY DEF NotesInv
<1>0. /\ server.turns \in Nat /\ server.running \in Turn0 /\ server.running <= server.turns
      /\ \A t \in Turns : t \in Nat /\ t # 0
  BY DEF TypeInv, ServerInv, TurnsInv, Turn0, Turns
<1>1. CASE e \in Elements(notes)
  <2>1. /\ e.kind \in {"ended", "spoke"} => e.turn \in Turns /\ e.turn <= server.turns
        /\ e.kind = "ended" => e.turn # server.running
    BY <1>1 DEF NotesInv
  <2>2. CASE server'.turns = server.turns /\ server'.running \in {0, server.running}
    BY <1>0, <2>1, <2>2
  <2>3. CASE server'.turns = server.turns + 1 /\ server'.running = server.turns + 1
    BY <1>0, <2>1, <2>3
  <2> QED
    BY <2>2, <2>3, TurnsMove
<1>2. CASE e.kind \notin {"ended", "spoke"}
  BY <1>2
<1>3. CASE /\ e.turn = server.running /\ server.running # 0 /\ ~RunStart
           /\ e.kind = "ended" => server'.running = 0
  BY <1>0, <1>3, TurnsMove DEF Turn0
<1> QED
  BY <1>1, <1>2, <1>3, NotesCome


(* What has been recorded tells of a message. *)
LEMMA LogTells ==
    ASSUME NEW t, NEW s \in Seq(Events), NEW a \in Seq(Message), NEW b \in Seq(Message),
           Log(s, t, a, b), RecordedIn(s, t)
    PROVE  b # <<>>
<1>1. PICK h : Tells(s, t, a, b, h)
  BY DEF Log
<1>2. PICK k \in 1..Len(s) : s[k].kind = "recorded" /\ s[k].turn = t
  BY DEF RecordedIn, Elements
<1>3. /\ s[k] \in Events /\ k \in 0..Len(s)
      /\ Grow(t, s[k], h[k - 1], h[k]) /\ Prefix(h[k], b)
  BY <1>1 DEF Tells
<1>4. h[k] = s[k].messages /\ s[k].messages \in Batch
  BY <1>2, <1>3, EventFields DEF Grow
<1> QED
  BY <1>3, <1>4 DEF Prefix, Batch

(* A turn that is known has accepted a message, and so has started. *)
LEMMA KnownStarted ==
    ASSUME TypeInv, HistInv, TurnsInv, LogInv, RetriesInv, NEW t \in Turns, Known(t)
    PROVE  t <= server.turns
<1>0. /\ t \in Nat /\ server.turns \in Nat /\ acked[t] \in Seq(Message)
      /\ events \in Seq(Events) /\ backend.out \in Seq(Events)
  BY DEF Turns, Turn0, TypeInv, ServerInv, EventsInv, BackendInv, AtInv, HistInv
<1>1. ASSUME NEW ms \in Seq(Message), ms # <<>>, Among(ms, acked[t]) PROVE t <= server.turns
  <2>1. acked[t] # <<>>
    BY <1>1, AmongNone
  <2> QED
    BY <1>0, <2>1 DEF TurnsInv
<1>2. CASE RecordedIn(events, t) \/ RecordedIn(backend.out, t)
  <2>1. PICK a \in Seq(Message), b \in Seq(Message), z \in Seq(Message) :
           Log(events, t, a, b) /\ Log(backend.out, t, b, z) /\ Among(z, acked[t])
    BY DEF LogInv
  <2>2. Prefix(b, z)
    BY <1>0, <2>1, LogIsPrefix
  <2>3. z # <<>>
    <3>1. CASE RecordedIn(backend.out, t)
      BY <1>0, <2>1, <3>1, LogTells
    <3>2. CASE RecordedIn(events, t)
      <4>1. b # <<>>
        BY <1>0, <2>1, <3>2, LogTells
      <4> QED
        BY <2>2, <4>1 DEF Prefix
    <3> QED
      BY <1>2, <3>1, <3>2
  <2> QED
    BY <1>1, <2>1, <2>3
<1>3. CASE tl.active = t /\ tl.retry # <<>>
  <2>1. Among(tl.retry, acked[t]) /\ tl.retry \in Seq(Message)
    BY <1>3, TimelineSelects DEF Selected, TypeInv, UiInv, Timelines, Batch
  <2> QED
    BY <1>1, <1>3, <2>1
<1>4. CASE \E c \in Elements(commands) : c.kind = "retry" /\ c.turn = t
  BY <1>1, <1>4 DEF RetriesInv, Selected
<1> QED
  BY <1>2, <1>3, <1>4 DEF Known

(* What becomes of the events. *)
LEMMA EventsCome ==
    ASSUME TypeInv, [Next]_vars, NEW e \in Elements(events')
    PROVE  \/ e \in Elements(events) \/ e \in Elements(notes) \/ e.kind = "lost"
           \/ e \in Elements(backend.out)
<1>0. /\ events \in Seq(Events) /\ notes \in Seq(Events) /\ backend.out \in Seq(Events)
  BY DEF TypeInv, EventsInv, ServerInv, BackendInv, AtInv
<1>1. ASSUME NEW x \in Events, events' = Append(events, x) PROVE e \in Elements(events) \/ e = x
  <2>1. Elements(Append(events, x)) = Elements(events) \cup {x}
    BY <1>0, <1>1, ElementsAppend
  <2> QED
    BY <1>1, <2>1
<1>2. CASE events' = events
  BY <1>2
<1>3. CASE Reduce
  <2>1. events # <<>> /\ events' = Tail(events)
    BY <1>3
    DEF Reduce, ReduceStarted, ReduceRecorded, ReduceSteered, ReduceEnded, ReduceStopFailed,
        ReduceBuffering, ReduceSpoke, ReduceRuntime, ReduceSubmissionFailed, ReduceRetryFailed,
        ReduceCreated, ReduceLost, ReduceConnected, NextIs
  <2> QED
    BY <1>0, <2>1, ElementsTail
<1>4. CASE Emit
  <2>1. Head(backend.out) \in Events /\ Head(backend.out) \in Elements(backend.out)
    BY <1>4, EmitDoes, ElementsTail
  <2> QED
    BY <1>1, <1>2, <1>4, <2>1 DEF Emit
<1>5. CASE Signal
  <2>1. Note("lost", 0) \in Events /\ events' = Append(events, Note("lost", 0))
    BY <1>5, NoteTypes DEF Signal, Turn0
  <2> QED
    BY <1>1, <2>1 DEF Note
<1>6. CASE Drain
  <2>1. notes # <<>> /\ events' \in {events, Append(events, Head(notes))}
    BY <1>6 DEF Drain, Lose
  <2>2. Head(notes) \in Events /\ Head(notes) \in Elements(notes)
    BY <1>0, <2>1, TailTypes, ElementsTail
  <2> QED
    BY <1>1, <1>2, <2>1, <2>2
<1>7. CASE User \/ Server \/ Rest \/ UNCHANGED vars
  BY <1>2, <1>7
  DEF User, Type, Submit, Stop, Retry, DismissBanner, Select, notUser, Server, Speak, Buffer,
      Finish, Die, notServer, Rest, vars
<1>8. CASE \/ Take \/ TakeOffline \/ Reconnect \/ RunStart \/ RunSteer
           \/ RunStop \/ RunResume \/ RetryInterrupt \/ RetryCheck \/ RetryFork \/ RetryRestart
  BY <1>2, <1>8
  DEF Take, TakeOffline, Reconnect, RunSteer, RunStart, Asks,
      RunStop, RunResume, RetryInterrupt, RetryCheck, RetryFork, RetryRestart
<1> QED
  BY <1>3, <1>4, <1>5, <1>6, <1>7, <1>8 DEF Next, Backend

(* What becomes of the answers. *)
LEMMA OutComes ==
    ASSUME TypeInv, [Next]_vars, NEW e \in Elements(backend'.out)
    PROVE  \/ e \in Elements(backend.out) \/ e.kind \notin {"recorded", "spoke"}
           \/ /\ RunStart /\ e.kind = "recorded" /\ e.turn = server.turns + 1
              /\ server'.turns = server.turns + 1 /\ cache'.turn = e.turn
<1>0. /\ backend \in [at : {"idle", "check", "fork", "restart", "emit", "signal"} \cup Kinds,
                      cmd : Commands, cached : BOOLEAN, out : Seq(Events),
                      then : {"idle", "restart"}]
  BY DEF TypeInv, BackendInv, AtInv
<1>1. ASSUME NEW x, Reply(<<x>>), x.kind \notin {"recorded", "spoke"}
      PROVE  e.kind \notin {"recorded", "spoke"}
  <2>1. backend'.out = <<x>>
    BY <1>1 DEF Reply, Idle
  <2> QED
    BY <1>1, <2>1, ElementsFew
<1>2. CASE backend'.out = backend.out
  BY <1>2
<1>3. CASE backend'.out = <<>>
  BY <1>3, ElementsFew
<1>4. CASE Done
  BY <1>3, <1>4 DEF Done, Idle
<1>5. ASSUME NEW at, Goto(at) PROVE backend'.out = backend.out
  BY <1>0, <1>5 DEF Goto
<1>6. ASSUME NEW cmd, Fail(SubmissionFailed(cmd)) PROVE e.kind \notin {"recorded", "spoke"}
  BY <1>1, <1>6 DEF Fail, SubmissionFailed
<1>7. ASSUME NEW t, NEW chat, NEW m, Fail(RetryFailed(t, chat, m))
      PROVE  e.kind \notin {"recorded", "spoke"}
  BY <1>1, <1>7 DEF Fail, RetryFailed
<1>8. CASE RunStart
  <2>1. CASE Fail(SubmissionFailed(Cmd))
    BY <1>6, <2>1
  <2>2. CASE ~Fail(SubmissionFailed(Cmd))
    <3>1. PICK t \in Turns :
            /\ t = server.turns + 1 /\ server'.turns = t
            /\ cache' = [turn |-> t, messages |-> <<Cmd.message>>]
            /\ Reply(<<Note("started", t), Recorded(t, <<Cmd.message>>)>>)
      BY <1>8, <2>2, StartDoes
    <3> DEFINE a == Note("started", t)
               b == Recorded(t, <<Cmd.message>>)
    <3>2. a.kind = "started" /\ b.kind = "recorded" /\ b.turn = t
      BY DEF Note, Recorded
    <3>3. backend'.out = <<a, b>>
      BY <3>1 DEF Reply, Idle
    <3> HIDE DEF a, b
    <3>4. e = a \/ e = b
      BY <3>3 DEF Elements
    <3> QED
      BY <1>8, <3>1, <3>2, <3>4
  <2> QED
    BY <2>1, <2>2
<1>9. CASE RunSteer
  <2>1. Steered(Cmd.turn, Cmd.message).kind = "steered"
    BY DEF Steered
  <2> QED
    BY <1>1, <1>6, <1>9, <2>1, SteerDoes
<1>10. CASE RunStop
  <2>1. Done \/ Reply(<<Note("stopFailed", 0)>>)
    BY <1>10 DEF RunStop
  <2> QED
    BY <1>1, <1>4, <2>1 DEF Note
<1>11. CASE RunResume
  <2>1. Done \/ Reply(<<Runtime(server.running, Cmd.draft)>>)
    BY <1>11 DEF RunResume
  <2> QED
    BY <1>1, <1>4, <2>1 DEF Runtime
<1>12. CASE RetryInterrupt \/ RetryCheck \/ RetryRestart
  <2>1. \/ Goto("check") \/ Goto("fork") \/ Done
        \/ Fail(RetryFailed(Cmd.turn, "none", {})) \/ GiveUp("here") \/ GiveUp("fork")
    BY <1>12 DEF RetryInterrupt, RetryCheck, RetryRestart, Ask
  <2> QED
    BY <1>2, <1>4, <1>5, <1>7, <2>1 DEF GiveUp
<1>13. CASE RetryFork
  <2>1. CASE backend' = [backend EXCEPT !.at = "emit", !.out = <<Note("created", 0)>>,
                                        !.then = "restart"]
    <3>1. backend'.out = <<Note("created", 0)>> /\ Note("created", 0).kind = "created"
      BY <1>0, <2>1 DEF Note
    <3> QED
      BY <3>1, ElementsFew
  <2> QED
    BY <1>7, <1>13, <2>1 DEF RetryFork, GiveUp
<1>14. CASE Emit
  <2>1. backend.out # <<>> /\ backend.out \in Seq(Events) /\ backend'.out = Tail(backend.out)
    BY <1>14, EmitDoes
  <2> QED
    BY <2>1, ElementsTail
<1>15. CASE Take
  <2>1. backend'.out = <<>>
    BY <1>15 DEF Take, Idle
  <2> QED
    BY <1>3, <2>1
<1>16. CASE TakeOffline \/ Reconnect
  BY <1>1, <1>16 DEF TakeOffline, Reconnect, Note
<1>17. CASE Signal \/ Drain
  BY <1>2, <1>4, <1>5, <1>17 DEF Signal, Drain, Lose
<1>18. CASE User \/ Reduce \/ Server \/ Rest \/ UNCHANGED vars
  <2>1. UNCHANGED backend
    BY <1>18
    DEF User, Type, Submit, Stop, Retry, DismissBanner, Select, notUser,
         Reduce, ReduceStarted, ReduceRecorded, ReduceSteered, ReduceEnded, ReduceStopFailed,
         ReduceBuffering, ReduceSpoke, ReduceRuntime, ReduceSubmissionFailed, ReduceRetryFailed,
         ReduceCreated, ReduceLost, ReduceConnected, NextIs,
         Server, Speak, Buffer, Finish, Die, notServer, Rest, vars
  <2> QED
    BY <1>2, <2>1
<1> QED
  BY <1>8, <1>9, <1>10, <1>11, <1>12, <1>13, <1>14, <1>15, <1>16, <1>17, <1>18 DEF Next, Backend

(* How the timeline comes to messages to send again: they were there, or the *)
(* event that is read records them; and the turns that have spoken.          *)
LEMMA TimelineComes ==
    ASSUME TypeInv, [Next]_vars
    PROVE  /\ tl'.retry # <<>> =>
                \/ tl'.active \in {0, tl.active} /\ tl.retry # <<>>
                \/ /\ tl'.active = tl.active /\ RecordedIn(events, tl.active)
           /\ \/ tl'.heard = tl.heard
              \/ \E e \in Elements(events) :
                   /\ e.kind = "spoke" /\ e = Head(events) /\ Reduce
                   /\ tl'.heard = tl.heard \cup {e.turn}
                   /\ tl'.active = tl.active
                   /\ tl.active = e.turn => tl'.retry = <<>>
                   /\ tl'.retry \in {tl.retry, <<>>}
<1>0. /\ tl \in Timelines /\ tl.active \in Turn0 /\ events \in Seq(Events)
  BY DEF TypeInv, UiInv, EventsInv, Timelines
<1> DEFINE Kept == tl'.heard = tl.heard /\ (tl'.retry # <<>> =>
                        tl'.active \in {0, tl.active} /\ tl.retry # <<>>)
<1>1. CASE Kept
  BY <1>1
<1>2. CASE tl' = tl
  BY <1>1, <1>2
<1>3. CASE User
  <2>1. /\ tl'.heard = tl.heard /\ tl'.retry = tl.retry /\ tl'.active = tl.active
    BY <1>0, <1>3
    DEF User, Type, Submit, Stop, Retry, DismissBanner, Select, AskRuntime, Timelines
  <2> QED
    BY <1>1, <2>1
<1>4. ASSUME NEW kind, NextIs(kind)
      PROVE  events # <<>> /\ Said \in Elements(events) /\ Said \in Events /\ Said.kind = kind
             /\ Said = Head(events)
  <2>1. events # <<>> /\ Said = Head(events) /\ Said.kind = kind
    BY <1>4 DEF NextIs, Said
  <2> QED
    BY <1>0, <2>1, TailTypes, ElementsTail
<1> HIDE DEF Kept
<1>5. CASE ReduceStarted
  <2>1. tl' = [IF IsActive THEN tl ELSE Quiet(tl) EXCEPT !.active = Said.turn, !.stopping = FALSE]
    BY <1>5 DEF ReduceStarted, Timeline
  <2>2. CASE IsActive
    BY <1>0, <1>1, <2>1, <2>2 DEF Timelines, IsActive, Kept
  <2>3. CASE ~IsActive
    BY <1>0, <1>1, <2>1, <2>3 DEF Timelines, Quiet, Kept
  <2> QED
    BY <2>2, <2>3
<1>6. CASE ReduceRecorded
  <2>0. Said.kind = "recorded" /\ Said \in Elements(events)
    BY <1>4, <1>6 DEF ReduceRecorded
  <2>1. CASE IsActive
    <3>1. tl'.active = tl.active /\ tl'.heard = tl.heard
      BY <1>0, <1>6, <2>1 DEF ReduceRecorded, Timeline, Timelines
    <3>2. RecordedIn(events, tl.active)
      BY <2>0, <2>1 DEF RecordedIn, IsActive
    <3> QED
      BY <3>1, <3>2
  <2> QED
    BY <1>2, <1>6, <2>1 DEF ReduceRecorded, Same
<1>7. CASE ReduceSteered
  <2>1. CASE Len(tl.retry) \in 1..(MaxMessages - 1) /\ tl' = [tl EXCEPT !.retry = Append(@, Said.message)]
    BY <1>0, <1>1, <2>1 DEF Timelines, Kept
  <2>2. CASE tl' = [tl EXCEPT !.retry = <<>>,
                     !.banner = IF @.turn = Said.turn THEN Available(@, FALSE) ELSE @]
    BY <1>0, <1>1, <2>2 DEF Timelines, Kept
  <2> QED
    BY <1>2, <1>7, <2>1, <2>2 DEF ReduceSteered, Timeline, Same
<1>8. CASE ReduceEnded
  <2>1. CASE tl' = [tl EXCEPT !.active = 0, !.stopping = FALSE,
                       !.retry = IF IsActive THEN <<>> ELSE @,
                       !.banner = IF @.turn = Said.turn THEN NoBanner ELSE @]
    BY <1>0, <1>1, <2>1 DEF Timelines, Kept
  <2> QED
    BY <1>2, <1>8, <2>1 DEF ReduceEnded, Timeline, Same
<1>9. CASE \/ ReduceStopFailed \/ ReduceBuffering \/ ReduceRetryFailed \/ ReduceLost
           \/ ReduceConnected \/ ReduceSubmissionFailed \/ ReduceCreated
  <2>1. tl'.heard = tl.heard /\ tl'.retry = tl.retry /\ tl'.active = tl.active
    BY <1>0, <1>9
    DEF ReduceStopFailed, ReduceBuffering, ReduceRetryFailed, ReduceLost, ReduceConnected,
        ReduceSubmissionFailed, ReduceCreated, AskRuntime, Timeline, Same, Timelines
  <2> QED
    BY <1>1, <2>1 DEF Kept
<1>10. CASE ReduceSpoke
  <2>0. Said.kind = "spoke" /\ Said \in Elements(events) /\ Said \in Events /\ Said = Head(events)
    BY <1>4, <1>10 DEF ReduceSpoke
  <2>1. Said.turn \in Turns /\ Said.turn # 0 /\ Reduce
    BY <1>10, <2>0, EventFields DEF Turns, Reduce
  <2>2. tl' = [IF IsActive THEN Quiet(tl) ELSE tl EXCEPT !.heard = @ \cup {Said.turn}]
    BY <1>10 DEF ReduceSpoke, Timeline
  <2>3. /\ tl'.heard = tl.heard \cup {Said.turn} /\ tl'.active = tl.active
        /\ tl'.retry = IF IsActive THEN <<>> ELSE tl.retry
    BY <1>0, <2>2 DEF Timelines, Quiet
  <2>4. tl.active = Said.turn => IsActive
    BY <2>1 DEF IsActive
  <2> QED
    BY <2>0, <2>1, <2>3, <2>4
<1>11. CASE ReduceRuntime
  <2> DEFINE loaded == [tl EXCEPT !.ready = TRUE, !.active = Said.turn,
                                  !.banner = IF @.turn = Said.turn THEN @ ELSE NoBanner]
  <2>1. CASE tl' = loaded /\ IsActive
    BY <1>0, <1>1, <2>1 DEF Timelines, IsActive, Kept
  <2>2. CASE tl' = [Quiet(loaded) EXCEPT !.stopping = FALSE]
    BY <1>0, <1>1, <2>2 DEF Timelines, Quiet, Kept
  <2> QED
    BY <1>2, <1>11, <2>1, <2>2 DEF ReduceRuntime, Timeline, Same
<1>12. CASE \/ Take \/ TakeOffline \/ Reconnect \/ RunStart \/ RunSteer \/ Emit \/ Signal \/ Drain
            \/ RunStop \/ RunResume \/ RetryInterrupt \/ RetryCheck \/ RetryFork \/ RetryRestart
            \/ Server \/ Rest \/ UNCHANGED vars
  <2>1. tl' = tl
    BY <1>12
    DEF Take, TakeOffline, Reconnect, RunSteer, RunStart, Asks, notBackend, uiVars, Emit, Signal,
        Drain, RunStop, RunResume, RetryInterrupt, RetryCheck, RetryFork, RetryRestart,
        Server, Speak, Buffer, Finish, Die, notServer, Rest, vars
  <2> QED
    BY <1>2, <2>1
<1> QED
  BY <1>3, <1>5, <1>6, <1>7, <1>8, <1>9, <1>10, <1>11, <1>12 DEF Next, Backend, Reduce

(* Who knows of a turn knew of it before, or is told of one that starts. *)
LEMMA KnownBefore ==
    ASSUME TypeInv, HistInv, [Next]_vars, NEW t \in Turns, Known(t)'
    PROVE  Known(t) \/ (RunStart /\ cache'.turn = t /\ server'.turns = t)
<1>0. t \in Nat /\ t # 0
  BY DEF Turns
<1>1. CASE RecordedIn(events, t)'
  <2>1. PICK e \in Elements(events') : e.kind = "recorded" /\ e.turn = t
    BY <1>1 DEF RecordedIn
  <2>2. e \notin Elements(notes)
    BY <2>1 DEF HistInv, PlainEvents, Elements
  <2> QED
    BY <2>1, <2>2, EventsCome DEF Known, RecordedIn
<1>2. CASE RecordedIn(backend.out, t)'
  <2>1. PICK e \in Elements(backend'.out) : e.kind = "recorded" /\ e.turn = t
    BY <1>2 DEF RecordedIn
  <2> QED
    BY <2>1, OutComes DEF Known, RecordedIn
<1>3. CASE (tl.active = t /\ tl.retry # <<>>)'
  BY <1>0, <1>3, TimelineComes DEF Known
<1>4. CASE (\E c \in Elements(commands) : c.kind = "retry" /\ c.turn = t)'
  <2>1. PICK c \in Elements(commands') : c.kind = "retry" /\ c.turn = t
    BY <1>4
  <2> QED
    BY <2>1, RetriesCome DEF Known
<1> QED
  BY <1>1, <1>2, <1>3, <1>4 DEF Known

(* What has been lost stays lost, and the entry is taken by a retry, given up *)
(* by an overflow, or ended with its turn.                                    *)
LEMMA EntryMoves ==
    ASSUME TypeInv, HistInv, TurnsInv, NotesInv, [Next]_vars, ~RunStart,
           NEW t \in Turns, server.running = t, server'.running = t, cache'.turn # t
    PROVE  cache.turn # t \/ Lost(t, acked'[t], tried')
<1>0. t \in Nat /\ t # 0 /\ acked \in [Turns -> Seq(Message)]
  BY DEF Turns, HistInv
<1> SUFFICES ASSUME cache.turn = t PROVE Lost(t, acked'[t], tried')
  OBVIOUS
<1>1. CASE cache' = cache
  BY <1>1
<1>2. CASE Take
  <2>1. tried' = tried \cup {Head(commands).turn} /\ Head(commands).turn = cache.turn
    BY <1>1, <1>2 DEF Take
  <2> QED
    BY <2>1 DEF Lost
<1>3. CASE RunSteer
  <2>1. CASE UNCHANGED cache
    BY <1>1, <2>1
  <2>2. CASE ~UNCHANGED cache
    <3>1. /\ server.running = Cmd.turn /\ RecordSteer /\ Cmd.message \in Message
          /\ acked' = [acked EXCEPT ![Cmd.turn] = Append(@, Cmd.message)]
      BY <1>3, <2>2, SteerDoes
    <3>2. cache.messages = acked[t] /\ acked[t] \in Seq(Message)
      BY <1>0 DEF TurnsInv
    <3>3. Len(cache.messages) = MaxMessages
      <4>1. CASE Len(cache.messages) # MaxMessages
        <5>1. cache' = [cache EXCEPT !.messages = Append(@, Cmd.message)]
          BY <3>1, <4>1 DEF RecordSteer
        <5>2. cache \in [turn : Turns, messages : Batch]
          BY <1>0 DEF TypeInv, BackendInv, NoEntry
        <5>3. cache'.turn = cache.turn
          BY <5>1, <5>2
        <5> QED
          BY <5>3
      <4> QED
        BY <4>1
    <3>4. acked'[t] = Append(acked[t], Cmd.message)
      BY <1>0, <3>1
    <3>5. Len(acked'[t]) = Len(acked[t]) + 1 /\ Len(acked[t]) \in Nat
      BY <3>1, <3>2, <3>4, AppendTypes
    <3>6. Len(acked'[t]) > MaxMessages
      BY <3>2, <3>3, <3>5
    <3> QED
      BY <3>6 DEF Lost
  <2> QED
    BY <2>1, <2>2
<1>4. CASE Drain
  <2>1. CASE Lose
    <3>1. server'.running = 0
      BY <2>1 DEF Lose, TypeInv, ServerInv
    <3> QED
      BY <1>0, <3>1
  <2>2. CASE ~Lose
    <3>1. notes # <<>> /\ notes \in Seq(Events)
      BY <1>4 DEF Drain, TypeInv, ServerInv
    <3>2. cache' = IF Head(notes).kind = "ended" /\ Head(notes).turn = cache.turn
                   THEN NoEntry ELSE cache
      BY <1>4, <2>2 DEF Drain
    <3>3. Head(notes) \in Elements(notes)
      BY <3>1, ElementsTail
    <3>4. ~(Head(notes).kind = "ended" /\ Head(notes).turn = cache.turn)
      BY <3>3 DEF NotesInv
    <3> QED
      BY <1>1, <3>2, <3>4
  <2> QED
    BY <2>1, <2>2
<1>5. CASE User \/ Reduce \/ Server \/ Rest \/ UNCHANGED vars
  <2>1. UNCHANGED cache
    BY <1>5
    DEF User, Type, Submit, Stop, Retry, DismissBanner, Select, notUser,
         Reduce, ReduceStarted, ReduceRecorded, ReduceSteered, ReduceEnded, ReduceStopFailed,
         ReduceBuffering, ReduceSpoke, ReduceRuntime, ReduceSubmissionFailed, ReduceRetryFailed,
         ReduceCreated, ReduceLost, ReduceConnected, NextIs,
         Server, Speak, Buffer, Finish, Die, notServer, Rest, vars
  <2> QED
    BY <1>1, <2>1
<1>6. CASE \/ TakeOffline \/ Emit \/ Signal \/ Reconnect \/ RunStop \/ RunResume
           \/ RetryInterrupt \/ RetryCheck \/ RetryFork \/ RetryRestart
  <2>1. UNCHANGED cache
    BY <1>6
    DEF TakeOffline, Emit, Signal, Reconnect, RunStop, RunResume, RetryInterrupt, RetryCheck,
        RetryFork, RetryRestart, Ask, Fail, GiveUp
  <2> QED
    BY <1>1, <2>1
<1> QED
  BY <1>2, <1>3, <1>4, <1>5, <1>6 DEF Next, Backend

(* Nothing taken is given back, and no message of a turn is. *)
LEMMA LostStays ==
    ASSUME TypeInv, HistInv, TurnsInv, [Next]_vars, NEW t \in Turns, Lost(t, acked[t], tried)
    PROVE  Lost(t, acked'[t], tried')
<1>1. tried \subseteq tried'
  BY DEF Next, Backend, Take, TakeOffline, RunStart, RunSteer, RunStop, RunResume, RetryInterrupt,
         RetryCheck, RetryFork, RetryRestart, Emit, Signal, Reconnect, Drain, Server, Speak,
         Buffer, Finish, Die, Rest, Asks, notServer, vars, history,
         User, Type, Submit, Stop, Retry, DismissBanner, Select,
         Reduce, ReduceStarted, ReduceRecorded, ReduceSteered, ReduceEnded, ReduceStopFailed,
         ReduceBuffering, ReduceSpoke, ReduceRuntime, ReduceSubmissionFailed, ReduceRetryFailed,
         ReduceCreated, ReduceLost, ReduceConnected, NextIs
<1>2. /\ Prefix(acked[t], acked'[t])
      /\ acked[t] \in Seq(Message) /\ acked'[t] \in Seq(Message)
  BY AckedGrows DEF Delivered, HistInv
<1>3. /\ Len(acked[t]) \in Nat /\ Len(acked'[t]) \in Nat /\ Len(acked[t]) <= Len(acked'[t])
      /\ MaxMessages \in Nat
  BY <1>2, LimitsAssumption DEF Prefix
<1>4. Len(acked[t]) > MaxMessages => Len(acked'[t]) > MaxMessages
  BY <1>3
<1> QED
  BY <1>1, <1>4 DEF Lost

(* Every step keeps the entry of a turn that can be sent again. *)
LEMMA StepEntry ==
    /\ TypeInv /\ HistInv /\ TurnsInv /\ LogInv /\ RetriesInv /\ NotesInv /\ EntryInv
    /\ [Next]_vars
    => EntryInv'
<1> SUFFICES ASSUME TypeInv, HistInv, TurnsInv, LogInv, RetriesInv, NotesInv, EntryInv, [Next]_vars,
                    NEW t \in Turns, Known(t)', server'.running = t, cache'.turn # t
             PROVE  Lost(t, acked'[t], tried')
  BY DEF EntryInv
<1>0. t \in Nat /\ t # 0 /\ server.turns \in Nat
  BY DEF Turns, TypeInv, ServerInv, Turn0
<1>1. Known(t)
  BY KnownBefore
<1>2. t <= server.turns
  BY <1>1, KnownStarted
<1>3. server.running = t /\ (~RunStart \/ UNCHANGED <<server, cache>>)
  <2>1. server.running = t
    BY <1>0, <1>2, TurnsMove
  <2>2. ~RunStart \/ UNCHANGED <<server, cache>>
    <3>1. CASE RunStart /\ ~UNCHANGED <<server, cache>>
      <4>1. server.running = 0
        BY <3>1, StartDoes
      <4> QED
        BY <1>0, <2>1, <4>1
    <3> QED
      BY <3>1
  <2> QED
    BY <2>1, <2>2
<1>4. cache.turn # t \/ Lost(t, acked'[t], tried')
  BY <1>3, EntryMoves
<1>5. CASE cache.turn # t
  <2>1. Lost(t, acked[t], tried)
    BY <1>1, <1>3, <1>5 DEF EntryInv
  <2> QED
    BY <2>1, LostStays
<1> QED
  BY <1>4, <1>5

(* At the start there is nothing to know, and nothing is said. *)
LEMMA InitEntry == Init => EntryInv /\ NotesInv
<1> SUFFICES ASSUME Init PROVE EntryInv /\ NotesInv
  OBVIOUS
<1>1. /\ Elements(events) = {} /\ Elements(backend.out) = {} /\ Elements(commands) = {}
      /\ Elements(notes) = {} /\ tl.active = 0
  BY ElementsFew DEF Init, Idle
<1>2. \A t \in Turns : t # 0
  BY DEF Turns
<1>3. \A t \in Turns : ~Known(t)
  BY <1>1, <1>2 DEF Known, RecordedIn
<1> QED
  BY <1>1, <1>3 DEF EntryInv, NotesInv

-----------------------------------------------------------------------------
(* A retry that is in hand, and those that reached the app-server.           *)

(* The retry in hand sends what its turn has accepted: all of it with the    *)
(* entry; without one, the entry of a turn that runs has been lost.  From the *)
(* check on its turn has not been sent again, is the last and does not run.   *)
From(steps) == backend.at \in steps \/ backend.then = "restart"
BusyInv ==
    /\ From({"retry", "check", "fork", "restart"}) =>
         /\ Cmd.turn \in Turns /\ Cmd.messages \in Seq(Message)
         /\ Selected(Cmd.messages, acked[Cmd.turn], Missed)
         /\ backend.cached => Cmd.messages = acked[Cmd.turn]
         /\ ~backend.cached /\ server.running = Cmd.turn
              => Lost(Cmd.turn, acked[Cmd.turn], tried)
    /\ From({"check", "fork", "restart"}) =>
         /\ ~backend.cached => Lost(Cmd.turn, acked[Cmd.turn], tried)
         /\ \A i \in 1..Len(forks) : forks[i].turn # Cmd.turn
    /\ From({"fork", "restart"}) => server.turns = Cmd.turn /\ server.running = 0

(* And so did the ones that reached the app-server. *)
Resends(f, all, missed, taken) ==
    /\ f.messages # <<>> /\ Selected(f.messages, all, missed)
    /\ IF f.cached THEN f.messages = all ELSE Lost(f.turn, all, taken)
ForksInv ==
    \A i \in 1..Len(forks) :
        /\ Resends(forks[i], acked[forks[i].turn], Missed, tried)
        /\ forks[i].turn <= server.turns /\ forks[i].turn # server.running
        /\ \A j \in 1..Len(forks) : forks[j].turn = forks[i].turn => i = j

(* There is neither a turn nor a retry at the start. *)
LEMMA InitForks == Init => HistInv /\ TurnsInv /\ RetriesInv /\ BusyInv /\ ForksInv
<1> SUFFICES ASSUME Init PROVE HistInv /\ TurnsInv /\ RetriesInv /\ BusyInv /\ ForksInv
  OBVIOUS
<1>1. HistInv
  <2>1. <<>> \in Seq(Forks) /\ <<>> \in Seq(PlainEvents) /\ <<>> \in Seq(Message)
    OBVIOUS
  <2> QED
    BY <2>1 DEF Init, HistInv
<1>2. TurnsInv
  BY DEF Init, TurnsInv, NoEntry
<1>3. RetriesInv
  BY ElementsFew DEF Init, RetriesInv
<1>4. BusyInv
  BY DEF Init, BusyInv, From, Idle
<1>5. ForksInv
  BY DEF Init, ForksInv
<1> QED
  BY <1>1, <1>2, <1>3, <1>4, <1>5

(* The retries that reached the app-server. *)
LEMMA StepForks ==
    TypeInv /\ HistInv /\ TurnsInv /\ BusyInv /\ ForksInv /\ [Next]_vars => ForksInv'
<1> SUFFICES ASSUME TypeInv, HistInv, TurnsInv, BusyInv, ForksInv, [Next]_vars PROVE ForksInv'
  OBVIOUS
<1>0. /\ Delivered /\ server.turns \in Nat /\ server.running \in Nat /\ forks \in Seq(Forks)
      /\ \A t \in Turns : t \in Nat /\ t # 0
  BY AckedGrows DEF HistInv, TypeInv, ServerInv, Turn0, Turns
<1>1. CASE forks' = forks
  <2>1. \/ /\ server'.turns = server.turns
           /\ server'.running \in {0, server.running}
        \/ /\ server'.turns = server.turns + 1
           /\ server'.running = server.turns + 1
    BY TurnsMove
  <2>2. ASSUME NEW i \in 1..Len(forks)
        PROVE  /\ Resends(forks[i], acked'[forks[i].turn], Missed', tried')
               /\ forks[i].turn <= server'.turns /\ forks[i].turn # server'.running
    <3>0. forks[i] \in Forks
      BY <1>0
    <3>1. /\ forks[i].turn \in Turns /\ forks[i].turn \in Nat /\ forks[i].turn # 0
          /\ forks[i].turn <= server.turns /\ forks[i].turn # server.running
      BY <1>0, <3>0 DEF ForksInv, Forks
    <3>2. acked'[forks[i].turn] = acked[forks[i].turn]
      BY <1>0, <3>1 DEF Delivered
    <3>3. Resends(forks[i], acked[forks[i].turn], Missed, tried)
      BY DEF ForksInv
    <3>4. Resends(forks[i], acked'[forks[i].turn], Missed', tried')
      BY <3>1, <3>2, <3>3, LostStays, MissedStays DEF Resends, Selected, Missed
    <3>5. forks[i].turn <= server'.turns /\ forks[i].turn # server'.running
      BY <1>0, <2>1, <3>1
    <3> QED
      BY <3>4, <3>5
  <2> QED
    BY <1>1, <2>2 DEF ForksInv
<1>2. CASE forks' # forks
  <2> DEFINE f == [turn |-> Cmd.turn, messages |-> Cmd.messages, cached |-> backend.cached]
  <2>1. RetryRestart
    BY <1>2, StartDoes, SteerDoes, OthersDeliverNone
  <2>2. /\ forks' = Append(forks, f) /\ backend.at = "restart"
        /\ acked' = acked /\ server' = server /\ holes' = holes /\ tried' = tried
    BY <1>2, <2>1 DEF RetryRestart, Ask, Asks, serverVars, Fail, GiveUp
  <2>3. Cmd.messages # <<>> /\ Cmd.messages \in Batch
    BY <2>2, CmdTypes DEF Carries, Commands, TypeInv
  <2>4. /\ Cmd.turn \in Turns /\ Resends(f, acked[Cmd.turn], Missed, tried)
        /\ \A i \in 1..Len(forks) : forks[i].turn # Cmd.turn
        /\ server.turns = Cmd.turn /\ server.running = 0
    BY <2>2, <2>3 DEF BusyInv, From, Resends
  <2>5. f \in Forks /\ f.turn = Cmd.turn
    BY <2>3, <2>4 DEF Forks, TypeInv, BackendInv, AtInv
  <2> HIDE DEF f
  <2> DEFINE n == Len(forks)
  <2>6. /\ n \in Nat /\ Len(forks') = n + 1 /\ forks'[n + 1] = f
        /\ \A i \in 1..n : forks'[i] = forks[i]
    BY <1>0, <2>2, <2>5, AppendTypes
  <2> HIDE DEF n
  <2>7. ASSUME NEW i \in 1..(n + 1)
        PROVE  /\ Resends(forks'[i], acked[forks'[i].turn], Missed, tried)
               /\ forks'[i].turn <= server.turns /\ forks'[i].turn # server.running
               /\ \A j \in 1..(n + 1) : forks'[j].turn = forks'[i].turn => i = j
    <3>0. \A j \in 1..(n + 1) : j \in 1..n \/ j = n + 1
      BY <2>6
    <3>1. CASE i \in 1..n
      <4>1. forks'[i] = forks[i]
        BY <2>6, <3>1
      <4>2. /\ Resends(forks[i], acked[forks[i].turn], Missed, tried)
            /\ forks[i].turn <= server.turns /\ forks[i].turn # server.running
            /\ \A j \in 1..n : forks[j].turn = forks[i].turn => i = j
        BY <3>1 DEF ForksInv, n
      <4>3. forks'[n + 1].turn # forks[i].turn
        BY <2>4, <2>5, <2>6, <3>1 DEF n
      <4>4. ASSUME NEW j \in 1..(n + 1), forks'[j].turn = forks'[i].turn PROVE i = j
        <5>1. j # n + 1
          BY <4>1, <4>3, <4>4
        <5>2. j \in 1..n /\ forks'[j] = forks[j]
          BY <2>6, <3>0, <5>1
        <5> QED
          BY <4>1, <4>2, <4>4, <5>2
      <4>5. /\ Resends(forks'[i], acked[forks'[i].turn], Missed, tried)
            /\ forks'[i].turn <= server.turns /\ forks'[i].turn # server.running
        BY <4>1, <4>2
      <4> QED
        BY <4>4, <4>5
    <3>2. CASE i = n + 1
      BY <1>0, <2>4, <2>5, <2>6, <3>0, <3>2 DEF n
    <3> QED
      BY <3>0, <3>1, <3>2
  <2>8. Missed' = Missed
    BY <2>2 DEF Missed
  <2> QED
    BY <2>2, <2>6, <2>7, <2>8 DEF ForksInv
<1> QED
  BY <1>1, <1>2

(* The retry that is in hand. *)
LEMMA StepBusy ==
    /\ TypeInv /\ HistInv /\ TurnsInv /\ OutInv /\ RetriesInv /\ EntryInv /\ BusyInv /\ ForksInv
    /\ [Next]_vars
    => BusyInv'
<1> SUFFICES ASSUME TypeInv, HistInv, TurnsInv, OutInv, RetriesInv, EntryInv, BusyInv, ForksInv,
                    [Next]_vars
             PROVE  BusyInv'
  OBVIOUS
<1>0. /\ backend \in [at : {"idle", "check", "fork", "restart", "emit", "signal"} \cup Kinds,
                      cmd : Commands, cached : BOOLEAN, out : Seq(Events),
                      then : {"idle", "restart"}]
      /\ acked \in [Turns -> Seq(Message)]
  BY DEF TypeInv, BackendInv, AtInv, HistInv
(* Without a retry in hand there is nothing to say. *)
<1>1. ASSUME backend'.at \notin {"retry", "check", "fork", "restart"}, backend'.then = "idle"
      PROVE  BusyInv'
  BY <1>1 DEF BusyInv, From
<1>2. ASSUME NEW out, Reply(out) PROVE BusyInv'
  <2>1. backend'.at = "emit" /\ backend'.then = "idle"
    BY <1>2 DEF Reply, Idle
  <2> QED
    BY <1>1, <2>1
<1>3. CASE Done
  <2>1. backend'.at = "idle" /\ backend'.then = "idle"
    BY <1>3 DEF Done, Idle
  <2> QED
    BY <1>1, <2>1
(* A retry that goes on is the same, and so is what it relies on. *)
<1>4. ASSUME /\ backend'.cmd = backend.cmd /\ backend'.cached = backend.cached
             /\ UNCHANGED <<acked, forks>> /\ server'.turns = server.turns
             /\ server'.running \in {0, server.running},
             From({"retry", "check", "fork", "restart"})'
                => From({"retry", "check", "fork", "restart"}),
             From({"check", "fork", "restart"})'
                => /\ ~backend.cached => Lost(Cmd.turn, acked[Cmd.turn], tried)
                   /\ \A i \in 1..Len(forks) : forks[i].turn # Cmd.turn,
             From({"fork", "restart"})' => server.turns = Cmd.turn /\ server.running = 0
      PROVE  BusyInv'
  <2>1. Cmd' = Cmd
    BY <1>4 DEF Cmd
  <2> DEFINE t == Cmd.turn
  <2>2. ASSUME From({"retry", "check", "fork", "restart"})'
        PROVE  /\ t \in Turns /\ Cmd.messages \in Seq(Message)
               /\ Selected(Cmd.messages, acked[t], Missed')
               /\ backend.cached => Cmd.messages = acked[t]
               /\ ~backend.cached /\ server'.running = t => Lost(t, acked[t], tried')
    <3>1. From({"retry", "check", "fork", "restart"})
      BY <1>4, <2>2
    <3>2. /\ t \in Turns /\ Cmd.messages \in Seq(Message) /\ t # 0
          /\ Selected(Cmd.messages, acked[t], Missed)
          /\ backend.cached => Cmd.messages = acked[t]
          /\ ~backend.cached /\ server.running = t => Lost(t, acked[t], tried)
      BY <3>1 DEF BusyInv, Turns
    <3>3. Selected(Cmd.messages, acked[t], Missed')
      BY <3>2, MissedStays DEF Selected, Missed
    <3>4. Lost(t, acked[t], tried) => Lost(t, acked[t], tried')
      BY <1>4, <3>2, LostStays
    <3> HIDE DEF t
    <3>5. server'.running = t => server.running = t
      BY <1>4, <3>2
    <3> QED
      BY <3>2, <3>3, <3>4, <3>5
  <2>3. ASSUME From({"check", "fork", "restart"})'
        PROVE  ~backend.cached => Lost(t, acked[t], tried')
    <3>1. From({"retry", "check", "fork", "restart"})'
      BY <2>3 DEF From
    <3> QED
      BY <1>4, <2>2, <2>3, <3>1, LostStays
  <2>4. From({"fork", "restart"})' => server'.turns = t /\ server'.running = 0
    BY <1>4
  <2> QED
    BY <1>4, <2>1, <2>2, <2>3, <2>4 DEF BusyInv
<1>5. CASE UNCHANGED backend /\ ~RunStart /\ ~RunSteer /\ ~RetryRestart
  <2>1. \A steps : From(steps)' => From(steps)
    BY <1>5 DEF From
  <2> QED
    BY <1>4, <1>5, <2>1, OthersDeliverNone DEF BusyInv, From
<1>6. CASE Emit
  <2>1. /\ UNCHANGED <<acked, forks, server>>
        /\ backend'.cmd = backend.cmd /\ backend'.cached = backend.cached
    BY <1>0, <1>6 DEF Emit, serverVars, history
  <2>2. \/ backend'.at = "emit" /\ backend'.then = backend.then
        \/ backend'.at = backend.then /\ backend'.then = "idle"
    BY <1>0, <1>6 DEF Emit
  <2>3. backend'.then = "restart" \/ backend'.at = "restart" => backend.then = "restart"
    BY <2>2
  <2>4. backend'.at \notin {"retry", "check", "fork"}
    BY <1>0, <2>2
  <2> QED
    BY <1>4, <2>1, <2>3, <2>4 DEF BusyInv, From
<1>7. CASE Take
  <2> DEFINE cmd == Head(commands)
             held == [cmd EXCEPT !.messages = cache.messages]
  <2>1. /\ commands # <<>> /\ cmd \in Commands /\ cmd \in Elements(commands)
        /\ Carries(cmd.kind, cmd)
    <3>1. commands # <<>> /\ commands \in Seq(Commands)
      BY <1>7 DEF Take, TypeInv, CommandsInv
    <3>2. cmd = commands[1] /\ 1 \in 1..Len(commands) /\ cmd \in Commands
      BY <3>1, TailTypes
    <3> QED
      BY <3>1, <3>2 DEF Elements, TypeInv, CommandsInv
  <2>2. acked' = acked /\ backend.at = "idle"
    BY <1>7 DEF Take, history
  <2>3. CASE cmd.kind = "retry" /\ cache.turn = cmd.turn
    <3>1. /\ backend' = [Idle EXCEPT !.at = "retry", !.cached = TRUE, !.cmd = held]
      BY <1>7, <2>3 DEF Take
    <3>2. held.turn = cmd.turn /\ held.messages = cache.messages
      BY <2>1 DEF Commands
    <3>3. cmd.turn \in Turns /\ cache.messages = acked[cmd.turn]
      BY <2>1, <2>3 DEF Carries, Commands, Turn0, TurnsInv
    <3> HIDE DEF held, cmd
    <3>4. backend'.at = "retry" /\ backend'.then = "idle" /\ backend'.cmd = held
      BY <3>1 DEF Idle
    <3>5. held.messages \in Seq(Message) /\ held.messages = acked[held.turn]
      BY <1>0, <3>2, <3>3
    <3>6. Selected(held.messages, acked[held.turn], Missed')
      BY <3>5, PrefixOfItself, AmongThemselves DEF Selected
    <3>7. backend'.cached
      BY <3>1 DEF Idle
    <3> QED
      BY <2>2, <3>2, <3>3, <3>4, <3>5, <3>6, <3>7 DEF BusyInv, From, Cmd
  <2>4. CASE ~(cmd.kind = "retry" /\ cache.turn = cmd.turn)
    <3>1. /\ backend' = [Idle EXCEPT !.at = cmd.kind, !.cmd = cmd]
      BY <1>7, <2>4 DEF Take
    <3>2. cmd.kind \in Kinds
      BY <2>1 DEF Commands
    <3> HIDE DEF cmd
    <3>3. backend'.at = cmd.kind /\ backend'.then = "idle" /\ backend'.cmd = cmd
          /\ backend'.cached = FALSE
      BY <3>1 DEF Idle
    <3>4. cmd.kind \notin {"check", "fork", "restart"}
      BY <3>2 DEF Kinds
    <3>5. UNCHANGED <<server, tried, holes>>
      BY <1>7, <2>4 DEF Take, serverVars, cmd
    <3>6. ASSUME cmd.kind = "retry"
          PROVE  /\ cmd.turn \in Turns /\ cmd.messages \in Seq(Message)
                 /\ Selected(cmd.messages, acked[cmd.turn], Missed')
                 /\ server.running = cmd.turn => Lost(cmd.turn, acked[cmd.turn], tried)
      <4>1. /\ cmd.turn \in Turns /\ cmd.messages \in Seq(Message)
            /\ Selected(cmd.messages, acked[cmd.turn], Missed)
        BY <2>1, <3>6 DEF RetriesInv
      <4>2. Known(cmd.turn) /\ cache.turn # cmd.turn
        BY <2>1, <2>4, <3>6 DEF Known
      <4>3. Missed' = Missed
        BY <3>5 DEF Missed
      <4> QED
        BY <4>1, <4>2, <4>3 DEF EntryInv
    <3>7. ~From({"check", "fork", "restart"})' /\ ~From({"fork", "restart"})'
          /\ (From({"retry", "check", "fork", "restart"})' => cmd.kind = "retry")
          /\ Cmd' = cmd
      BY <3>3, <3>4 DEF From, Cmd
    <3> QED
      BY <2>2, <3>3, <3>5, <3>6, <3>7 DEF BusyInv
  <2> QED
    BY <2>3, <2>4
<1>8. CASE RunStart \/ RunSteer
  BY <1>2, <1>8, StartDoes, SteerDoes DEF Fail
<1>9. CASE RunStop \/ RunResume \/ TakeOffline \/ Signal \/ Reconnect
  BY <1>2, <1>3, <1>9 DEF RunStop, RunResume, TakeOffline, Signal, Reconnect
<1>10. ASSUME NEW at \in {"check", "fork", "signal"}, Goto(at)
       PROVE  backend'.cmd = backend.cmd /\ backend'.cached = backend.cached
              /\ backend'.at = at /\ backend'.then = backend.then
  BY <1>0, <1>10 DEF Goto
<1>11. CASE Drain
  <2>1. CASE UNCHANGED backend
    BY <1>5, <1>11, <2>1 DEF Drain, RunStart, RunSteer, RetryRestart, Asks
  <2>2. CASE Goto("signal")
    BY <1>1, <1>10, <1>11, <2>2 DEF Drain, OutInv
  <2> QED
    BY <1>11, <2>1, <2>2 DEF Drain, Lose
<1>12. CASE RetryInterrupt
  <2>1. CASE Goto("check") /\ server.running = Cmd.turn /\ Halt /\ acked' = acked
    <3>1. server'.turns = server.turns /\ server'.running = server.running /\ forks' = forks
      BY <2>1 DEF Halt, TypeInv, ServerInv
    <3>2. backend.then = "idle" /\ backend.at = "retry"
      BY <1>12 DEF RetryInterrupt, Asks, OutInv
    <3>3. \A i \in 1..Len(forks) : forks[i].turn # Cmd.turn
      BY <2>1 DEF ForksInv
    <3>4. From({"retry", "check", "fork", "restart"}) /\ ~From({"fork", "restart"})'
      BY <1>10, <2>1, <3>2 DEF From
    <3>5. ~backend.cached => Lost(Cmd.turn, acked[Cmd.turn], tried)
      BY <2>1, <3>4 DEF BusyInv
    <3> QED
      BY <1>4, <1>10, <2>1, <3>1, <3>3, <3>4, <3>5
  <2> QED
    BY <1>2, <1>12, <2>1 DEF RetryInterrupt, Ask, Fail
<1>13. CASE RetryCheck
  <2>1. CASE Goto("fork") /\ ForkPoint /\ acked' = acked
    <3>1. server' = server /\ forks' = forks /\ backend.at = "check"
      BY <1>13 DEF RetryCheck, Asks, serverVars
    <3>2. server.turns = Cmd.turn /\ server.running = 0
      BY <2>1 DEF ForkPoint
    <3>3. /\ \A i \in 1..Len(forks) : forks[i].turn # Cmd.turn
          /\ ~backend.cached => Lost(Cmd.turn, acked[Cmd.turn], tried)
      BY <3>1 DEF BusyInv, From
    <3>4. From({"retry", "check", "fork", "restart"})
      BY <3>1 DEF From
    <3> QED
      BY <1>4, <1>10, <2>1, <3>1, <3>2, <3>3, <3>4
  <2> QED
    BY <1>2, <1>13, <2>1 DEF RetryCheck, GiveUp, Fail
<1>14. CASE RetryFork
  <2>1. CASE /\ backend' = [backend EXCEPT !.at = "emit", !.out = <<Note("created", 0)>>,
                                           !.then = "restart"]
             /\ acked' = acked
    <3>1. server' = server /\ forks' = forks /\ backend.at = "fork"
      BY <1>14 DEF RetryFork, Asks, serverVars
    <3>2. backend'.cmd = backend.cmd /\ backend'.cached = backend.cached
      BY <1>0, <2>1
    <3>3. /\ \A i \in 1..Len(forks) : forks[i].turn # Cmd.turn
          /\ ~backend.cached => Lost(Cmd.turn, acked[Cmd.turn], tried)
          /\ server.turns = Cmd.turn /\ server.running = 0
      BY <3>1 DEF BusyInv, From
    <3>4. From({"retry", "check", "fork", "restart"})
      BY <3>1 DEF From
    <3> QED
      BY <1>4, <2>1, <3>1, <3>2, <3>3, <3>4
  <2> QED
    BY <1>2, <1>14, <2>1 DEF RetryFork, GiveUp, Fail
<1>15. CASE RetryRestart
  BY <1>2, <1>3, <1>15 DEF RetryRestart, Ask, GiveUp, Fail
<1>16. CASE User \/ Reduce \/ Server \/ Rest \/ UNCHANGED vars
  <2>1. UNCHANGED backend
    BY <1>16
    DEF User, Type, Submit, Stop, Retry, DismissBanner, Select, notUser,
         Reduce, ReduceStarted, ReduceRecorded, ReduceSteered, ReduceEnded, ReduceStopFailed,
         ReduceBuffering, ReduceSpoke, ReduceRuntime, ReduceSubmissionFailed, ReduceRetryFailed,
         ReduceCreated, ReduceLost, ReduceConnected, NextIs,
         Server, Speak, Buffer, Finish, Die, notServer, Rest, vars
  <2> QED
    BY <1>5, <1>8, <1>15, <2>1
<1> QED
  BY <1>6, <1>7, <1>8, <1>9, <1>11, <1>12, <1>13, <1>14, <1>15, <1>16 DEF Next, Backend

(* What the invariant says of the retries. *)
LEMMA ForksSuffice == HistInv /\ ForksInv => RetryKeepsSteers
<1> SUFFICES ASSUME HistInv, ForksInv, NEW i \in DOMAIN forks
             PROVE  /\ forks[i].messages # <<>> /\ Among(forks[i].messages, acked[forks[i].turn])
                    /\ "missed" \notin holes =>
                         forks[i].messages
                           = SubSeq(acked[forks[i].turn], 1, Len(forks[i].messages))
                    /\ IF forks[i].cached THEN forks[i].messages = acked[forks[i].turn]
                       ELSE forks[i].turn \in tried
                              \/ Len(acked[forks[i].turn]) > MaxMessages
                    /\ \A j \in DOMAIN forks : forks[j].turn = forks[i].turn => i = j
  BY DEF RetryKeepsSteers
<1>0. forks \in Seq(Forks) /\ DOMAIN forks = 1..Len(forks) /\ forks[i] \in Forks
  BY DEF HistInv
<1> DEFINE ms == forks[i].messages
           all == acked[forks[i].turn]
<1>1. /\ ms # <<>> /\ Among(ms, all) /\ ("missed" \notin holes => Prefix(ms, all))
      /\ IF forks[i].cached THEN ms = all ELSE forks[i].turn \in tried \/ Len(all) > MaxMessages
      /\ \A j \in DOMAIN forks : forks[j].turn = forks[i].turn => i = j
  BY <1>0 DEF ForksInv, Resends, Selected, Lost, Missed
<1>2. ms \in Seq(Message) /\ all \in Seq(Message)
  BY <1>0 DEF HistInv, Forks, Batch
<1> HIDE DEF ms, all
<1>3. Prefix(ms, all) => ms = SubSeq(all, 1, Len(ms))
  <2> SUFFICES ASSUME Prefix(ms, all) PROVE ms = SubSeq(all, 1, Len(ms))
    OBVIOUS
  <2>1. Len(ms) \in Nat /\ Len(ms) <= Len(all)
    BY <1>2 DEF Prefix
  <2> DEFINE sub == SubSeq(all, 1, Len(ms))
  <2>2. sub \in Seq(Message) /\ Len(sub) = Len(ms) /\ \A k \in 1..Len(ms) : sub[k] = all[k]
    BY <1>2, <2>1
  <2> HIDE DEF sub
  <2>3. \A k \in 1..Len(ms) : sub[k] = ms[k]
    BY <2>2 DEF Prefix
  <2>4. sub = ms
    BY <1>2, <2>2, <2>3
  <2> QED
    BY <2>4 DEF sub
<1> QED
  BY <1>1, <1>3 DEF ms, all

(* All that the messages rest on.                                            *)
KeptInv ==
    /\ TypeInv /\ SentInv /\ OutInv /\ PairInv /\ PromptInv
    /\ HistInv /\ TurnsInv /\ LogInv /\ RetriesInv /\ NotesInv /\ EntryInv
    /\ BusyInv /\ ForksInv

(* What the user has written is kept, whatever fails, is late or is lost in  *)
(* between: a retry sends again what the turn accepted, all of it with the   *)
(* backend's entry and without one, which only an earlier retry or an        *)
(* overflow costs it, no more than the timeline was told; a failed           *)
(* submission is back or on its way unless the code drops it, and a draft is *)
(* not overwritten (backend.rs:9815, lib.rs:12385).                          *)
THEOREM MessagesHold == Spec => MessagesAreKept
<1>1. Init => KeptInv
  BY InitTypes, InitSends, InitQuiet, InitPair, InitPrompts, InitForks, InitLogs, InitEntry
  DEF KeptInv
<1>2. KeptInv /\ [Next]_vars => KeptInv'
  BY StepTypes, StepSends, StepQuiet, StepPair, StepPrompts, StepHistory, StepTurns, StepLogs,
     StepRetries, StepNotes, StepEntry, StepBusy, StepForks
  DEF KeptInv
<1>3. KeptInv => RetryKeepsSteers /\ PromptComesBack
  BY ForksSuffice, PromptsSuffice DEF KeptInv
<1>4. KeptInv /\ [Next]_vars => DraftIsKept
  BY DraftStays DEF KeptInv
<1>5. KeptInv' => RetryKeepsSteers' /\ PromptComesBack'
  BY <1>3, PTL
<1> QED
  BY <1>1, <1>2, <1>4, <1>5, PTL DEF Spec, MessagesAreKept

-----------------------------------------------------------------------------
(* The turns of which the reducer has been told that the assistant spoke.    *)

(* The record of a turn's messages is answered before the backend reads that *)
(* the assistant spoke in it, and both go through the queue of events: once  *)
(* the reducer was told, no record of the turn is behind, and the timeline   *)
(* has nothing to retry it with.                                             *)
HeardInv ==
    /\ \A t \in tl.heard :
         t <= server.turns /\ ~RecordedIn(events, t) /\ ~RecordedIn(backend.out, t)
    /\ tl.active \in tl.heard => tl.retry = <<>>
    /\ \A e \in Elements(backend.out) : e.kind # "spoke"
    /\ \A i \in 1..Len(events) : events[i].kind = "spoke" =>
         /\ events[i].turn <= server.turns /\ ~RecordedIn(backend.out, events[i].turn)
         /\ \A j \in 1..Len(events) :
              i < j /\ events[j].kind = "recorded" => events[j].turn # events[i].turn

(* A turn that has started and is not to be recorded will not be. *)
LEMMA Unrecorded ==
    ASSUME TypeInv, [Next]_vars, NEW t \in Turns, t <= server.turns, ~RecordedIn(backend.out, t)
    PROVE  t <= server'.turns /\ ~RecordedIn(backend'.out, t)
<1>0. t \in Nat /\ server.turns \in Nat
  BY DEF Turns, TypeInv, ServerInv, Turn0
<1>1. t <= server'.turns
  BY <1>0, TurnsMove
<1>2. ASSUME RecordedIn(backend'.out, t) PROVE FALSE
  <2>1. PICK e \in Elements(backend'.out) : e.kind = "recorded" /\ e.turn = t
    BY <1>2 DEF RecordedIn
  <2>2. e \notin Elements(backend.out)
    BY <2>1 DEF RecordedIn
  <2>3. e.turn = server.turns + 1
    BY <2>1, <2>2, OutComes
  <2> QED
    BY <1>0, <2>1, <2>3
<1> QED
  BY <1>1, <1>2

(* How the queue of events moves. *)
LEMMA EventsMove ==
    ASSUME TypeInv, HistInv, OutInv, NotesInv, HeardInv, [Next]_vars
    PROVE  \/ events' = events
           \/ events # <<>> /\ events' = Tail(events) /\ Reduce
           \/ \E x \in Events :
                /\ events' = Append(events, x)
                /\ x.kind = "recorded" => x \in Elements(backend.out)
                /\ x.kind = "spoke" =>
                     x.turn \in Turns /\ x.turn <= server.turns /\ backend.out = <<>>
<1>1. CASE Reduce
  BY <1>1
  DEF Reduce, ReduceStarted, ReduceRecorded, ReduceSteered, ReduceEnded, ReduceStopFailed,
      ReduceBuffering, ReduceSpoke, ReduceRuntime, ReduceSubmissionFailed, ReduceRetryFailed,
      ReduceCreated, ReduceLost, ReduceConnected, NextIs
<1>2. CASE Emit
  <2>1. Head(backend.out) \in Events /\ Head(backend.out) \in Elements(backend.out)
    BY <1>2, EmitDoes, ElementsTail
  <2>2. Head(backend.out).kind # "spoke"
    BY <2>1 DEF HeardInv
  <2> QED
    BY <1>2, <2>1, <2>2 DEF Emit
<1>3. CASE Signal
  <2>1. Note("lost", 0) \in Events /\ Note("lost", 0).kind = "lost"
    BY NoteTypes DEF Note, Turn0
  <2> QED
    BY <1>3, <2>1 DEF Signal
<1>4. CASE Drain
  <2>1. notes # <<>> /\ notes \in Seq(PlainEvents) /\ backend.out = <<>>
        /\ events' \in {events, Append(events, Head(notes))}
    BY <1>4 DEF Drain, Lose, HistInv, OutInv
  <2>2. Head(notes) \in PlainEvents /\ Head(notes) \in Elements(notes)
    BY <2>1, TailTypes, ElementsTail
  <2>3. /\ Head(notes) \in Events /\ Head(notes).kind # "recorded"
        /\ Head(notes).kind = "spoke" =>
             Head(notes).turn \in Turns /\ Head(notes).turn <= server.turns
    BY <2>2 DEF PlainEvents, NotesInv
  <2> QED
    BY <2>1, <2>3
<1>5. CASE \/ User \/ Server \/ Rest \/ UNCHANGED vars \/ Take \/ TakeOffline \/ Reconnect
           \/ RunStart \/ RunSteer \/ RunStop \/ RunResume
           \/ RetryInterrupt \/ RetryCheck \/ RetryFork \/ RetryRestart
  <2>1. events' = events
    BY <1>5
    DEF User, Type, Submit, Stop, Retry, DismissBanner, Select, notUser, Server, Speak, Buffer,
        Finish, Die, notServer, Rest, vars,
        Take, TakeOffline, Reconnect, RunSteer, RunStart, Asks,
        RunStop, RunResume, RetryInterrupt, RetryCheck, RetryFork, RetryRestart
  <2> QED
    BY <2>1
<1> QED
  BY <1>1, <1>2, <1>3, <1>4, <1>5 DEF Next, Backend

(* Every step keeps the order of records and first words. *)
LEMMA StepHeard ==
    /\ TypeInv /\ HistInv /\ OutInv /\ NotesInv /\ HeardInv
    /\ [Next]_vars
    => HeardInv'
<1> SUFFICES ASSUME TypeInv, HistInv, OutInv, NotesInv, HeardInv, [Next]_vars PROVE HeardInv'
  OBVIOUS
<1>0. /\ events \in Seq(Events) /\ Len(events) \in Nat /\ tl.heard \subseteq Turns
      /\ \A t \in Turns : t # 0
      /\ \A i \in 1..Len(events) : events[i] \in Events
  BY DEF TypeInv, EventsInv, UiInv, Timelines, Turns
(* The turns that have been heard. *)
<1>1. ASSUME NEW t \in tl'.heard
      PROVE  t <= server'.turns /\ ~RecordedIn(events', t) /\ ~RecordedIn(backend'.out, t)
  <2>1. CASE t \in tl.heard
    <3>1. /\ t \in Turns /\ t <= server.turns
          /\ ~RecordedIn(events, t) /\ ~RecordedIn(backend.out, t)
      BY <1>0, <2>1 DEF HeardInv
    <3>2. ASSUME NEW e \in Elements(events'), e.kind = "recorded", e.turn = t PROVE FALSE
      <4>1. e \notin Elements(notes)
        BY <3>2 DEF HistInv, PlainEvents, Elements
      <4>2. e \in Elements(events) \/ e \in Elements(backend.out)
        BY <3>2, <4>1, EventsCome
      <4> QED
        BY <3>1, <3>2, <4>2 DEF RecordedIn
    <3>3. ~RecordedIn(events', t)
      BY <3>2 DEF RecordedIn
    <3> QED
      BY <3>1, <3>3, Unrecorded
  <2>2. CASE t \notin tl.heard
    <3>1. /\ Reduce /\ events # <<>> /\ events' = Tail(events)
          /\ Head(events).kind = "spoke" /\ Head(events).turn = t
      <4>1. /\ Reduce /\ Head(events).kind = "spoke" /\ Head(events).turn = t
        BY <2>2, TimelineComes
      <4>2. events # <<>> /\ events' = Tail(events)
        BY <4>1
        DEF Reduce, ReduceStarted, ReduceRecorded, ReduceSteered, ReduceEnded, ReduceStopFailed,
            ReduceBuffering, ReduceSpoke, ReduceRuntime, ReduceSubmissionFailed,
            ReduceRetryFailed, ReduceCreated, ReduceLost, ReduceConnected, NextIs
      <4> QED
        BY <4>1, <4>2
    <3>2. /\ Head(events) = events[1] /\ 1 \in 1..Len(events)
          /\ Len(Tail(events)) = Len(events) - 1
          /\ \A i \in 1..Len(Tail(events)) :
               Tail(events)[i] = events[i + 1] /\ i + 1 \in 1..Len(events)
      BY <1>0, <3>1, TailTypes
    <3>3. t \in Turns
      BY <1>0, <3>1, <3>2, EventFields
    <3>4. t <= server.turns /\ ~RecordedIn(backend.out, t)
      BY <3>1, <3>2 DEF HeardInv
    <3>5. ASSUME NEW i \in 1..Len(events'), events'[i].kind = "recorded", events'[i].turn = t
          PROVE  FALSE
      <4>1. events'[i] = events[i + 1] /\ i + 1 \in 1..Len(events) /\ 1 < i + 1
        BY <3>1, <3>2, <3>5
      <4> QED
        BY <3>1, <3>2, <3>5, <4>1 DEF HeardInv
    <3>6. ~RecordedIn(events', t)
      BY <3>5 DEF RecordedIn, Elements
    <3> QED
      BY <3>3, <3>4, <3>6, Unrecorded
  <2> QED
    BY <2>1, <2>2
(* The turn that is active. *)
<1>2. ASSUME tl'.active \in tl'.heard, tl'.retry # <<>> PROVE FALSE
  <2>1. CASE tl'.heard = tl.heard
    <3>1. tl.active \in tl.heard
      BY <1>0, <1>2, <2>1, TimelineComes
    <3>2. tl.retry = <<>> /\ ~RecordedIn(events, tl.active)
      BY <3>1 DEF HeardInv
    <3> QED
      BY <1>2, <3>2, TimelineComes
  <2>2. CASE tl'.heard # tl.heard
    <3>1. PICK e \in Elements(events) :
             /\ tl'.heard = tl.heard \cup {e.turn} /\ tl'.active = tl.active
             /\ tl.active = e.turn => tl'.retry = <<>>
             /\ tl'.retry \in {tl.retry, <<>>}
      BY <2>2, TimelineComes
    <3>2. tl.active \in tl.heard
      BY <1>2, <3>1
    <3> QED
      BY <1>2, <3>1, <3>2 DEF HeardInv
  <2> QED
    BY <2>1, <2>2
(* The answers tell of no words. *)
<1>3. \A e \in Elements(backend'.out) : e.kind # "spoke"
  BY OutComes DEF HeardInv
(* The words that are still to be heard. *)
<1>4. ASSUME NEW i \in 1..Len(events), events[i].kind = "spoke"
      PROVE  events[i].turn <= server'.turns /\ ~RecordedIn(backend'.out, events[i].turn)
  <2>1. events[i].turn \in Turns
    BY <1>0, <1>4, EventFields
  <2>2. events[i].turn <= server.turns /\ ~RecordedIn(backend.out, events[i].turn)
    BY <1>4 DEF HeardInv
  <2> QED
    BY <2>1, <2>2, Unrecorded
<1> DEFINE Ordered(s) ==
             \A i \in 1..Len(s) : s[i].kind = "spoke" =>
               /\ s[i].turn <= server'.turns /\ ~RecordedIn(backend'.out, s[i].turn)
               /\ \A j \in 1..Len(s) :
                    i < j /\ s[j].kind = "recorded" => s[j].turn # s[i].turn
<1>5. Ordered(events)
  BY <1>4 DEF HeardInv
<1>6. Ordered(events')
  <2>1. CASE events' = events
    BY <1>5, <2>1
  <2>2. CASE events # <<>> /\ events' = Tail(events)
    <3> DEFINE s == Tail(events)
               n == Len(events)
    <3>1. /\ n \in Nat /\ Len(s) = n - 1
          /\ \A i \in 1..Len(s) : s[i] = events[i + 1] /\ i + 1 \in 1..n
      BY <1>0, <2>2, TailTypes
    <3> HIDE DEF s
    <3>2. ASSUME NEW i \in 1..Len(s), s[i].kind = "spoke"
          PROVE  /\ s[i].turn <= server'.turns /\ ~RecordedIn(backend'.out, s[i].turn)
                 /\ \A j \in 1..Len(s) :
                      i < j /\ s[j].kind = "recorded" => s[j].turn # s[i].turn
      <4>1. s[i] = events[i + 1] /\ i + 1 \in 1..n
        BY <3>1
      <4>2. \A j \in 1..Len(s) : s[j] = events[j + 1] /\ j + 1 \in 1..n
                                 /\ (i < j => i + 1 < j + 1)
        BY <3>1
      <4> QED
        BY <1>5, <3>2, <4>1, <4>2
    <3> QED
      BY <2>2, <3>2 DEF s
  <2>3. ASSUME NEW x \in Events, events' = Append(events, x),
               x.kind = "recorded" => x \in Elements(backend.out),
               x.kind = "spoke" =>
                  x.turn \in Turns /\ x.turn <= server.turns /\ backend.out = <<>>
        PROVE  Ordered(events')
    <3> DEFINE s == Append(events, x)
               n == Len(events)
    <3>1. /\ n \in Nat /\ Len(s) = n + 1 /\ s[n + 1] = x
          /\ \A i \in 1..n : s[i] = events[i]
      BY <1>0, AppendTypes
    <3> HIDE DEF s
    <3>2. \A i \in 1..(n + 1) : i \in 1..n \/ i = n + 1
      BY <3>1
    <3>3. ASSUME NEW i \in 1..(n + 1), s[i].kind = "spoke"
          PROVE  /\ s[i].turn <= server'.turns /\ ~RecordedIn(backend'.out, s[i].turn)
                 /\ \A j \in 1..(n + 1) :
                      i < j /\ s[j].kind = "recorded" => s[j].turn # s[i].turn
      <4>1. CASE i \in 1..n
        <5>1. s[i] = events[i] /\ events[i].kind = "spoke"
          BY <3>1, <3>3, <4>1
        <5>2. x.kind = "recorded" => x.turn # events[i].turn
          <6>1. ~RecordedIn(backend.out, events[i].turn)
            BY <4>1, <5>1 DEF HeardInv
          <6> QED
            BY <2>3, <6>1 DEF RecordedIn
        <5>3. ASSUME NEW j \in 1..(n + 1), i < j, s[j].kind = "recorded"
              PROVE  s[j].turn # s[i].turn
          <6>1. CASE j = n + 1
            BY <3>1, <5>1, <5>2, <5>3, <6>1
          <6>2. CASE j \in 1..n
            <7>1. s[j] = events[j]
              BY <3>1, <6>2
            <7> QED
              BY <1>5, <4>1, <5>1, <5>3, <6>2, <7>1
          <6> QED
            BY <3>2, <6>1, <6>2
        <5> QED
          BY <1>4, <4>1, <5>1, <5>3
      <4>2. CASE i = n + 1
        <5>1. s[i] = x /\ x.turn \in Turns /\ x.turn <= server.turns /\ backend.out = <<>>
          BY <2>3, <3>1, <3>3, <4>2
        <5>2. ~RecordedIn(backend.out, x.turn)
          BY <5>1, ElementsFew DEF RecordedIn
        <5>3. x.turn <= server'.turns /\ ~RecordedIn(backend'.out, x.turn)
          BY <5>1, <5>2, Unrecorded
        <5>4. \A j \in 1..(n + 1) : ~(i < j)
          BY <3>1, <4>2
        <5> QED
          BY <5>1, <5>3, <5>4
      <4> QED
        BY <3>2, <4>1, <4>2
    <3>4. Ordered(s)
      BY <3>1, <3>3
    <3> QED
      BY <2>3, <3>4 DEF s
  <2> QED
    BY <2>1, <2>2, <2>3, EventsMove
<1> QED
  BY <1>1, <1>2, <1>3, <1>6 DEF HeardInv

(* Nobody has spoken at the start. *)
LEMMA InitHeard == Init => HeardInv
<1> SUFFICES ASSUME Init PROVE HeardInv
  OBVIOUS
<1>1. tl.heard = {} /\ events = <<>> /\ backend.out = <<>> /\ Elements(<<>>) = {}
  BY ElementsFew DEF Init, Idle
<1> QED
  BY <1>1 DEF HeardInv

(* All that the banner rests on.                                             *)
BannerInv ==
    /\ TypeInv /\ OutInv /\ HistInv /\ TurnsInv /\ NotesInv
    /\ HeardInv /\ Right(tl)

(* The banner of a safety-buffered turn belongs to the active turn, and      *)
(* offers a retry only with a model and messages to retry with, and never    *)
(* once the reducer was told that the assistant spoke, in whatever order     *)
(* notices, answers and snapshots come (lib.rs:12332-12737).                 *)
THEOREM BannerHolds == Spec => []BannerIsLive
<1>1. Init => BannerInv
  <2>1. Init => Right(tl)
    BY DEF Init, NoBanner, Right
  <2> QED
    BY <2>1, InitTypes, InitQuiet, InitForks, InitEntry, InitHeard DEF BannerInv
<1>2. BannerInv /\ [Next]_vars => BannerInv'
  <2>1. TypeInv /\ Right(tl) /\ [Next]_vars => Right(tl)'
    BY StepKeepsBanner DEF Right
  <2> QED
    BY <2>1, StepTypes, StepQuiet, StepHistory, StepTurns, StepNotes, StepHeard DEF BannerInv
<1>3. BannerInv => BannerIsLive
  BY DEF BannerInv, HeardInv, Right, BannerIsLive
<1> QED
  BY <1>1, <1>2, <1>3, PTL DEF Spec

-----------------------------------------------------------------------------
(* Where the chat stands, and where a row of events leads it.                *)

(* Where the chat stands: connected, loaded, and with which turn; the turn of  *)
(* one that is not loaded does not count.                                    *)
Places == {x \in [up : BOOLEAN, ready : BOOLEAN, active : Turn0] :
              (x.ready => x.up) /\ (~x.ready => x.active = 0)}
On(t)    == [up |-> TRUE, ready |-> TRUE, active |-> t]
Steady   == {On(t) : t \in Turn0}
Unloaded(up) == [up |-> up, ready |-> FALSE, active |-> 0]

(* What an event makes of it, in the generation g.  The runtime comes to a   *)
(* chat that is connected, a connection to one that is not.                  *)
After(g, e, x) ==
    IF e.kind = "lost" THEN Unloaded(FALSE)
    ELSE IF e.kind = "connected" THEN Unloaded(TRUE)
    ELSE IF e.kind = "runtime" /\ e.generation = g THEN On(e.turn)
    ELSE IF e.kind = "started" /\ x.ready THEN On(e.turn)
    ELSE IF e.kind = "ended" /\ x.ready /\ x.active = e.turn THEN On(0)
    ELSE x
Leads(g, e, x, y) == /\ e.kind = "runtime" => x.up
                     /\ e.kind = "connected" => ~x.up
                     /\ y = After(g, e, x)

(* A row of events leads from x to y; h[k] is where k of them lead.          *)
Passes(P, g, s, x, y, h) ==
    /\ h \in [0..Len(s) -> P] /\ h[0] = x /\ h[Len(s)] = y
    /\ \A k \in 1..Len(s) : Leads(g, s[k], h[k - 1], h[k])
Walk(P, g, s, x, y) == \E h : Passes(P, g, s, x, y, h)

(* It leads to a place. *)
LEMMA LeadsToPlace ==
    ASSUME NEW g, NEW e \in Events, NEW x \in Places
    PROVE  After(g, e, x) \in Places
<1>1. e.kind \in {"started", "runtime"} => e.turn \in Turn0
  BY EventFields
<1>2. 0 \in Turn0
  BY DEF Turn0
<1> QED
  BY <1>1, <1>2 DEF After, Places, On, Unloaded

(* No event leads nowhere. *)
LEMMA WalkOfNone ==
    ASSUME NEW P, NEW g, NEW x \in P, NEW y
    PROVE  Walk(P, g, <<>>, x, y) <=> x = y
<1>1. ASSUME x = y PROVE Walk(P, g, <<>>, x, y)
  <2> DEFINE h == [k \in 0..0 |-> x]
  <2>1. Passes(P, g, <<>>, x, y, h)
    BY <1>1 DEF Passes
  <2> QED
    BY <2>1 DEF Walk
<1>2. ASSUME Walk(P, g, <<>>, x, y) PROVE x = y
  BY <1>2 DEF Walk, Passes
<1> QED
  BY <1>1, <1>2

(* One more event leads on. *)
LEMMA WalkOfMore ==
    ASSUME NEW P, NEW g, NEW s \in Seq(Events), NEW e \in Events,
           NEW x \in P, NEW y \in P, NEW z \in P,
           Walk(P, g, s, x, y), Leads(g, e, y, z)
    PROVE  Walk(P, g, Append(s, e), x, z)
<1> DEFINE r == Append(s, e)
           n == Len(s)
<1>0. /\ n \in Nat /\ Len(r) = n + 1 /\ r[n + 1] = e
      /\ \A k \in 1..n : r[k] = s[k]
  BY AppendTypes
<1>1. PICK h : Passes(P, g, s, x, y, h)
  BY DEF Walk
<1> HIDE DEF r, n
<1>2. /\ h \in [0..n -> P] /\ h[0] = x /\ h[n] = y
      /\ \A k \in 1..n : Leads(g, s[k], h[k - 1], h[k])
  BY <1>1 DEF Passes, n
<1> DEFINE f == [k \in 0..(n + 1) |-> IF k \in 0..n THEN h[k] ELSE z]
<1>4. /\ f \in [0..(n + 1) -> P] /\ f[n + 1] = z /\ n + 1 \in 1..(n + 1)
      /\ \A k \in 0..n : f[k] = h[k]
  BY <1>0, <1>2
<1> HIDE DEF f
<1>5. ASSUME NEW k \in 1..(n + 1) PROVE Leads(g, r[k], f[k - 1], f[k])
  <2>1. CASE k \in 1..n
    <3>0. k \in 0..n /\ k - 1 \in 0..n
      BY <1>0, <2>1
    <3>1. r[k] = s[k] /\ f[k - 1] = h[k - 1] /\ f[k] = h[k]
      BY <1>0, <1>4, <2>1, <3>0
    <3> QED
      BY <1>2, <2>1, <3>1
  <2>2. CASE k = n + 1
    <3>1. r[k] = e /\ f[k - 1] = y /\ f[k] = z
      BY <1>0, <1>2, <1>4, <2>2
    <3> QED
      BY <3>1
  <2> QED
    BY <1>0, <2>1, <2>2
<1>6. f[0] = x
  BY <1>0, <1>2, <1>4
<1>7. Passes(P, g, r, x, z, f)
  BY <1>0, <1>4, <1>5, <1>6 DEF Passes
<1>8. Walk(P, g, r, x, z)
  BY <1>7 DEF Walk
<1> QED
  BY <1>8 DEF r

(* The first event leads to where the others start. *)
LEMMA WalkOfTail ==
    ASSUME NEW P, NEW g, NEW s \in Seq(Events), s # <<>>, NEW x \in P, NEW y, Walk(P, g, s, x, y)
    PROVE  \E c \in P : Leads(g, Head(s), x, c) /\ Walk(P, g, Tail(s), c, y)
<1> DEFINE r == Tail(s)
           n == Len(s)
           e == Head(s)
<1>0. /\ n \in Nat /\ Len(r) = n - 1 /\ 1 \in 1..n /\ e = s[1]
      /\ \A k \in 1..(n - 1) : r[k] = s[k + 1]
  BY TailTypes
<1>1. PICK h : Passes(P, g, s, x, y, h)
  BY DEF Walk
<1> HIDE DEF r, n, e
<1>2. /\ h \in [0..n -> P] /\ h[0] = x /\ h[n] = y
      /\ \A k \in 1..n : Leads(g, s[k], h[k - 1], h[k])
  BY <1>1 DEF Passes, n
<1> DEFINE f == [k \in 0..(n - 1) |-> h[k + 1]]
<1>3. /\ f \in [0..(n - 1) -> P]
      /\ \A k \in 0..(n - 1) : f[k] = h[k + 1] /\ k + 1 \in 0..n
  BY <1>0, <1>2
<1> HIDE DEF f
<1>4. f[0] = h[1] /\ f[n - 1] = y /\ f[0] \in P
  BY <1>0, <1>2, <1>3
<1>5. Leads(g, e, x, f[0])
  <2>1. Leads(g, s[1], h[1 - 1], h[1])
    BY <1>0, <1>2
  <2>2. 1 - 1 = 0
    OBVIOUS
  <2> QED
    BY <1>0, <1>2, <1>4, <2>1, <2>2
<1>6. ASSUME NEW k \in 1..(n - 1) PROVE Leads(g, r[k], f[k - 1], f[k])
  <2>1. /\ r[k] = s[k + 1] /\ f[k - 1] = h[k] /\ f[k] = h[k + 1] /\ k + 1 \in 1..n
        /\ (k + 1) - 1 = k
    BY <1>0, <1>3
  <2>2. Leads(g, s[k + 1], h[(k + 1) - 1], h[k + 1])
    BY <1>2, <2>1
  <2> QED
    BY <2>1, <2>2
<1>7. Passes(P, g, r, f[0], y, f)
  BY <1>0, <1>3, <1>4, <1>6 DEF Passes
<1>8. Walk(P, g, r, f[0], y)
  BY <1>7 DEF Walk
<1> QED
  BY <1>4, <1>5, <1>8 DEF r, e

(* What two events lead to. *)
LEMMA WalkOfTwo ==
    ASSUME NEW g, NEW e \in Events, NEW f \in Events, NEW x \in Places, NEW y, NEW z,
           Leads(g, e, x, y)
    PROVE  /\ y \in Places /\ Walk(Places, g, <<e>>, x, y)
           /\ Leads(g, f, y, z) => z \in Places /\ Walk(Places, g, <<e, f>>, x, z)
<1>1. Walk(Places, g, <<>>, x, x) /\ <<>> \in Seq(Events)
  BY WalkOfNone
<1>2. Append(<<>>, e) = <<e>>
  OBVIOUS
<1>0. y \in Places /\ (Leads(g, f, y, z) => z \in Places)
  BY LeadsToPlace DEF Leads
<1>3. Walk(Places, g, <<e>>, x, y)
  BY <1>0, <1>1, <1>2, WalkOfMore
<1>4. ASSUME Leads(g, f, y, z) PROVE z \in Places /\ Walk(Places, g, <<e, f>>, x, z)
  <2>0. <<e>> \in Seq(Events)
    OBVIOUS
  <2>1. Append(<<e>>, f) = <<e, f>>
    <3> DEFINE p == Append(<<e>>, f)
               q == <<e, f>>
    <3>1. p \in Seq(Events) /\ Len(p) = 2 /\ p[1] = e /\ p[2] = f
      BY <2>0, AppendTypes
    <3>2. q \in Seq(Events) /\ Len(q) = 2 /\ q[1] = e /\ q[2] = f
      OBVIOUS
    <3> HIDE DEF p, q
    <3>3. p \in [1..2 -> Events] /\ q \in [1..2 -> Events] /\ \A i \in 1..2 : p[i] = q[i]
      BY <3>1, <3>2
    <3>4. p = q
      BY <3>3
    <3> QED
      BY <3>4 DEF p, q
  <2> QED
    BY <1>0, <1>3, <1>4, <2>0, <2>1, WalkOfMore
<1> QED
  BY <1>0, <1>3, <1>4

(* Without the answer to the latest request, the chat is not loaded. *)
LEMMA UnloadedStays ==
    ASSUME NEW g, NEW n, NEW e, NEW x \in Places, NEW y, Leads(g, e, x, y),
           e.kind = "runtime" => e.generation # n
    PROVE  Leads(n, e, Unloaded(x.up), Unloaded(y.up))
<1> DEFINE u == Unloaded(x.up)
<1>1. u.up = x.up /\ ~u.ready
  BY DEF Unloaded
<1>2. \A b : Unloaded(b).up = b
  BY DEF Unloaded
<1>3. On(e.turn).up = TRUE /\ On(0).up = TRUE
  BY DEF On
<1>4. y.up = IF e.kind = "lost" THEN FALSE ELSE IF e.kind = "connected" THEN TRUE ELSE x.up
  BY <1>2, <1>3 DEF Leads, After, Places
<1> HIDE DEF u
<1>5. After(n, e, u) = IF e.kind = "lost" THEN Unloaded(FALSE)
                       ELSE IF e.kind = "connected" THEN Unloaded(TRUE) ELSE u
  BY <1>1 DEF After
<1>6. After(n, e, u) = Unloaded(y.up)
  BY <1>4, <1>5 DEF u
<1> QED
  BY <1>1, <1>6 DEF Leads, u

(* When the runtime was asked for anew, no answer of before counts.          *)
LEMMA WalkUnloaded ==
    ASSUME NEW g, NEW n, NEW s \in Seq(Events), NEW x, NEW y, Walk(Places, g, s, x, y),
           \A i \in 1..Len(s) : s[i].kind = "runtime" => s[i].generation # n
    PROVE  Walk(Places, n, s, Unloaded(x.up), Unloaded(y.up))
<1>1. PICK h : Passes(Places, g, s, x, y, h)
  BY DEF Walk
<1> DEFINE m == Len(s)
           f == [k \in 0..m |-> Unloaded(h[k].up)]
<1>2. /\ h \in [0..m -> Places] /\ h[0] = x /\ h[m] = y /\ m \in Nat
      /\ \A k \in 1..m : Leads(g, s[k], h[k - 1], h[k])
  BY <1>1 DEF Passes
<1> HIDE DEF m
<1>3. \A k \in 0..m : f[k] = Unloaded(h[k].up) /\ f[k] \in Places
  BY <1>2 DEF Unloaded, Places, Turn0
<1>4. f \in [0..m -> Places] /\ f[0] = Unloaded(x.up) /\ f[m] = Unloaded(y.up)
  BY <1>2, <1>3
<1> HIDE DEF f
<1>5. ASSUME NEW k \in 1..m PROVE Leads(n, s[k], f[k - 1], f[k])
  <2>1. /\ k \in 0..m /\ k - 1 \in 0..m
        /\ s[k].kind = "runtime" => s[k].generation # n
    BY <1>2 DEF m
  <2>2. Leads(g, s[k], h[k - 1], h[k]) /\ h[k - 1] \in Places /\ h[k] \in Places
    BY <1>2, <2>1
  <2>3. f[k - 1] = Unloaded(h[k - 1].up) /\ f[k] = Unloaded(h[k].up)
    BY <1>3, <2>1
  <2>4. Leads(n, s[k], Unloaded(h[k - 1].up), Unloaded(h[k].up))
    BY <2>1, <2>2, UnloadedStays
  <2> QED
    BY <2>3, <2>4
<1>6. Passes(Places, n, s, Unloaded(x.up), Unloaded(y.up), f)
  BY <1>4, <1>5 DEF Passes, m
<1> QED
  BY <1>6 DEF Walk

(* The order of the natural numbers.                                         *)
Precedes == {ab \in Nat \X Nat : ab[1] < ab[2]}

(* A set of natural numbers that is not empty has a least element. *)
LEMMA LeastNumber ==
  ASSUME NEW T \in SUBSET Nat, T # {}
  PROVE  \E least \in T : \A n \in T : least <= n
<1>1. IsWellFoundedOn(Precedes, Nat)
  BY NatLessThanWellFounded DEF OpToRel, Precedes
<1>2. \E least \in T : \A n \in T : <<n, least>> \notin Precedes
  BY <1>1, WFMin
<1>3. ASSUME NEW n \in Nat, NEW least \in Nat, <<n, least>> \notin Precedes PROVE least <= n
  <2>1. <<n, least>> \in Nat \X Nat /\ <<n, least>>[1] = n /\ <<n, least>>[2] = least
    OBVIOUS
  <2>2. ~(n < least)
    BY <1>3, <2>1 DEF Precedes
  <2> QED
    BY <2>2
<1> QED
  BY <1>2, <1>3

(* The notices between two losses: a start, once read, tells the turn that   *)
(* is active whatever was thought before, and without one they do not touch  *)
(* a turn whose end they do not tell.                                        *)
NoticeKinds == {"started", "ended", "buffering", "spoke"}
HasStart(s) == \E i \in 1..Len(s) : s[i].kind = "started"

(* A notice that is none of a start or of this turn's end. *)
LEMMA Unmoved ==
    ASSUME NEW g, NEW e, NEW t, e.kind \in {"ended", "buffering", "spoke"},
           e.kind = "ended" => e.turn # t
    PROVE  Leads(g, e, On(t), On(t))
<1>1. On(t).active = t
  BY DEF On
<1> QED
  BY <1>1 DEF Leads, After

(* A start. *)
LEMMA Moved ==
    ASSUME NEW g, NEW e, NEW t, e.kind = "started"
    PROVE  Leads(g, e, On(t), On(e.turn))
<1>1. On(t).ready
  BY DEF On
<1> QED
  BY <1>1 DEF Leads, After

(* What notices lead to from another turn: the same once there is a start. *)
LEMMA WalkFromAnother ==
    ASSUME NEW s \in Seq(Events), NEW a \in Turn0, NEW b \in Turn0, NEW t \in Turn0,
           \A i \in 1..Len(s) : /\ s[i].kind \in NoticeKinds
                                /\ s[i].kind = "ended" => s[i].turn \notin {0, t},
           Walk(Steady, 0, s, On(a), On(b))
    PROVE  \E c \in Turn0 : /\ Walk(Steady, 0, s, On(t), On(c))
                            /\ c = IF HasStart(s) THEN b ELSE t
<1>1. PICK h : Passes(Steady, 0, s, On(a), On(b), h)
  BY DEF Walk
<1> DEFINE m == Len(s)
<1>2. /\ h \in [0..m -> Steady] /\ h[0] = On(a) /\ h[m] = On(b) /\ m \in Nat
      /\ \A k \in 1..m : Leads(0, s[k], h[k - 1], h[k])
      /\ \A k \in 1..m : /\ s[k] \in Events /\ s[k].kind \in NoticeKinds
                         /\ s[k].kind = "ended" => s[k].turn \notin {0, t}
  BY <1>1 DEF Passes
<1>3. On(t) \in Steady
  BY DEF Steady
<1>4. CASE ~HasStart(s)
  <2> DEFINE f == [k \in 0..m |-> On(t)]
  <2>0. m \in Nat /\ 0 \in 0..m /\ m \in 0..m /\ \A k \in 1..m : k - 1 \in 0..m /\ k \in 0..m
    <3>1. m \in Nat
      BY <1>2
    <3> HIDE DEF m
    <3> QED
      BY <3>1
  <2>1. f \in [0..m -> Steady] /\ f[0] = On(t) /\ f[m] = On(t) /\ \A k \in 0..m : f[k] = On(t)
    BY <1>3, <2>0
  <2>2. ASSUME NEW k \in 1..m PROVE Leads(0, s[k], f[k - 1], f[k])
    <3>1. f[k - 1] = On(t) /\ f[k] = On(t)
      BY <2>0, <2>1
    <3>2. s[k].kind \in {"ended", "buffering", "spoke"}
      BY <1>2, <1>4 DEF NoticeKinds, HasStart, m
    <3> HIDE DEF f
    <3> QED
      BY <1>2, <3>1, <3>2, Unmoved
  <2>3. Passes(Steady, 0, s, On(t), On(t), f)
    BY <2>1, <2>2 DEF Passes, m
  <2> QED
    BY <1>4, <2>3 DEF Walk
<1>5. CASE HasStart(s)
  <2> DEFINE T == {k \in 1..m : s[k].kind = "started"}
  <2>1. T \in SUBSET Nat /\ T # {}
    BY <1>2, <1>5 DEF HasStart, m
  <2>2. PICK first \in T : \A k \in T : first <= k
    BY <2>1, LeastNumber
  <2> DEFINE f == [k \in 0..m |-> IF k < first THEN On(t) ELSE h[k]]
  <2>3. first \in 1..m /\ s[first].kind = "started"
    BY <2>2
  <2>4. /\ f \in [0..m -> Steady] /\ f[0] = On(t) /\ f[m] = On(b)
        /\ \A k \in 0..m : f[k] = IF k < first THEN On(t) ELSE h[k]
    BY <1>2, <1>3, <2>3
  <2>5. ASSUME NEW k \in 1..m PROVE Leads(0, s[k], f[k - 1], f[k])
    <3>0. k \in 0..m /\ k - 1 \in 0..m
      BY <1>2
    <3>1. CASE k < first
      <4>1. f[k - 1] = On(t) /\ f[k] = On(t)
        BY <2>3, <2>4, <3>0, <3>1
      <4>2. s[k].kind \in {"ended", "buffering", "spoke"}
        BY <1>2, <2>2, <2>3, <3>1 DEF NoticeKinds
      <4> HIDE DEF f, T
      <4> QED
        BY <1>2, <4>1, <4>2, Unmoved
    <3>2. CASE k = first
      <4>1. f[k - 1] = On(t) /\ f[k] = h[k] /\ s[k].kind = "started"
        BY <2>3, <2>4, <3>0, <3>2
      <4> HIDE DEF f, T
      <4>2. PICK u \in Turn0 : h[k - 1] = On(u)
        BY <1>2, <3>0 DEF Steady
      <4>3. Leads(0, s[k], On(u), h[k])
        BY <1>2, <4>2
      <4>4. h[k] = On(s[k].turn)
        BY <4>1, <4>3, Moved DEF Leads
      <4> QED
        BY <4>1, <4>4, Moved
    <3>3. CASE k > first
      <4>1. f[k - 1] = h[k - 1] /\ f[k] = h[k]
        BY <2>3, <2>4, <3>0, <3>3
      <4> HIDE DEF f, T
      <4> QED
        BY <1>2, <4>1
    <3> QED
      BY <2>3, <3>1, <3>2, <3>3
  <2>6. Passes(Steady, 0, s, On(t), On(b), f)
    BY <2>4, <2>5 DEF Passes, m
  <2> QED
    BY <1>5, <2>6 DEF Walk
<1> QED
  BY <1>4, <1>5

-----------------------------------------------------------------------------
(* The connection of the backend, and the notices that are not read yet.     *)

(* The backend loses the connection between two commands, and without one it *)
(* only reports that.                                                        *)
LinkInv ==
    /\ backend.at = "signal" => ~connected
    /\ connected \/ (backend.at \in {"idle", "emit", "signal"} /\ backend.then = "idle")

(* No step leaves the backend at work without a connection. *)
LEMMA StepLink == TypeInv /\ OutInv /\ LinkInv /\ [Next]_vars => LinkInv'
<1> SUFFICES ASSUME TypeInv, OutInv, LinkInv, [Next]_vars PROVE LinkInv'
  OBVIOUS
<1>0. backend \in [at : {"idle", "check", "fork", "restart", "emit", "signal"} \cup Kinds,
                   cmd : Commands, cached : BOOLEAN, out : Seq(Events),
                   then : {"idle", "restart"}]
  BY DEF TypeInv, BackendInv, AtInv
<1>1. CASE UNCHANGED <<backend, connected>>
  BY <1>1 DEF LinkInv
<1>2. ASSUME NEW out, Reply(out) PROVE LinkInv'
  BY <1>2 DEF Reply, Idle, LinkInv
<1>3. CASE Done
  BY <1>3 DEF Done, Idle, LinkInv
<1>4. ASSUME NEW at \in {"check", "fork"}, Goto(at), connected' = TRUE PROVE LinkInv'
  BY <1>0, <1>4 DEF Goto, LinkInv
<1>5. CASE Take
  <2> DEFINE cmd == Head(commands)
  <2>0. commands # <<>> /\ commands \in Seq(Commands) /\ connected' = TRUE
    BY <1>5 DEF Take, TypeInv, CommandsInv, BackendInv
  <2>1. cmd \in Commands
    BY <2>0, TailTypes
  <2>2. backend' = [Idle EXCEPT !.at = cmd.kind, !.cmd = cmd]
        \/ backend' = [Idle EXCEPT !.at = "retry", !.cached = TRUE,
                                  !.cmd = [cmd EXCEPT !.messages = cache.messages]]
    BY <1>5 DEF Take
  <2> HIDE DEF cmd
  <2>3. cmd.kind \in Kinds
    BY <2>1 DEF Commands
  <2>4. backend'.at \in {cmd.kind, "retry"}
    BY <2>2 DEF Idle
  <2>5. backend'.at # "signal"
    BY <2>3, <2>4 DEF Kinds
  <2> QED
    BY <2>0, <2>5 DEF LinkInv
<1>6. CASE Emit
  <2>1. \/ backend'.at = "emit" /\ backend'.then = backend.then
        \/ backend'.at = backend.then /\ backend'.then = "idle"
    BY <1>0, <1>6 DEF Emit
  <2>2. connected' = connected /\ backend.then \in {"idle", "restart"}
    BY <1>0, <1>6 DEF Emit
  <2> QED
    BY <2>1, <2>2 DEF LinkInv
<1>7. CASE Drain
  <2>1. CASE Goto("signal") /\ connected' = FALSE
    <3>1. backend'.at = "signal" /\ backend'.then = "idle"
      BY <1>0, <1>7, <2>1 DEF Goto, Drain, OutInv
    <3> QED
      BY <2>1, <3>1 DEF LinkInv
  <2> QED
    BY <1>1, <1>7, <2>1 DEF Drain, Lose
<1>8. CASE RunStart \/ RunSteer
  BY <1>2, <1>8, StartDoes, SteerDoes DEF Fail
<1>9. CASE RunStop \/ RunResume \/ TakeOffline \/ Signal \/ Reconnect
  BY <1>2, <1>3, <1>9 DEF RunStop, RunResume, TakeOffline, Signal, Reconnect
<1>10. CASE RetryInterrupt \/ RetryCheck \/ RetryFork \/ RetryRestart
  <2>1. connected' = TRUE /\ backend.at \notin {"idle", "emit", "signal"}
    BY <1>10
    DEF RetryInterrupt, RetryCheck, RetryFork, RetryRestart, Asks, LinkInv, TypeInv, BackendInv
  <2>2. CASE backend' = [backend EXCEPT !.at = "emit", !.out = <<Note("created", 0)>>,
                                        !.then = "restart"]
    BY <1>0, <2>1, <2>2 DEF LinkInv
  <2> QED
    BY <1>2, <1>3, <1>4, <1>10, <2>1, <2>2
    DEF RetryInterrupt, RetryCheck, RetryFork, RetryRestart, Ask, GiveUp, Fail
<1>11. CASE User \/ Reduce \/ Server \/ Rest \/ UNCHANGED vars
  <2>1. UNCHANGED <<backend, connected>>
    BY <1>11
    DEF User, Type, Submit, Stop, Retry, DismissBanner, Select, notUser,
         Reduce, ReduceStarted, ReduceRecorded, ReduceSteered, ReduceEnded, ReduceStopFailed,
         ReduceBuffering, ReduceSpoke, ReduceRuntime, ReduceSubmissionFailed, ReduceRetryFailed,
         ReduceCreated, ReduceLost, ReduceConnected, NextIs,
         Server, Speak, Buffer, Finish, Die, notServer, Rest, vars
  <2> QED
    BY <1>1, <2>1
<1> QED
  BY <1>5, <1>6, <1>7, <1>8, <1>9, <1>10, <1>11 DEF Next, Backend

-----------------------------------------------------------------------------
(* What the notices that are not read yet can be: the end of a turn that has *)
(* run, and a loss once the app-server is gone.                              *)
Notices ==
    {e \in Events : /\ e.kind \in NoticeKinds \cup {"lost"}
                    /\ e.kind = "lost" => ~server.alive
                    /\ e.kind = "ended" => e.turn \in 1..server.turns /\ e.turn # server.running}

LiveInv ==
    /\ ~server.alive => server.running = 0
    /\ ~connected => ~server.alive /\ notes = <<>>
    /\ connected /\ ~server.alive => \E e \in Elements(notes) : e.kind = "lost"
    /\ notes \in Seq(Notices)

(* A turn that starts. *)
LEMMA StartRuns ==
    ASSUME TypeInv, RunStart
    PROVE  \/ UNCHANGED serverVars
           \/ /\ server.alive /\ server'.alive = TRUE /\ server'.running = server.turns + 1
              /\ server'.turns = server.turns + 1 /\ server.turns + 1 \in Turns
              /\ server.running = 0
              /\ notes' = Append(notes, Note("started", server.turns + 1))
<1> DEFINE t == server.turns + 1
<1>1. CASE UNCHANGED serverVars
  BY <1>1
<1>2. CASE /\ server.alive /\ server.running = 0 /\ t \in Turns
           /\ server' = [server EXCEPT !.running = t, !.turns = t, !.halting = FALSE,
                                       !.spoke = FALSE]
           /\ notes' = Append(notes, Note("started", t))
  <2> HIDE DEF t
  <2>1. server'.running = t /\ server'.turns = t /\ server'.alive = TRUE
    BY <1>2 DEF TypeInv, ServerInv
  <2> QED
    BY <1>2, <2>1 DEF t
<1> QED
  BY <1>1, <1>2 DEF RunStart, Ask

(* The other steps of the backend leave the turns alone. *)
LEMMA OthersRunNone ==
    ASSUME TypeInv, Backend, ~RunStart, ~Reconnect
    PROVE  /\ UNCHANGED <<notes, connected>> /\ server'.alive = server.alive
           /\ server'.running = server.running /\ server'.turns = server.turns
<1>1. CASE Take \/ TakeOffline \/ Emit \/ Signal
  BY <1>1 DEF Take, TakeOffline, Emit, Signal, serverVars
<1>2. CASE RunSteer
  BY <1>2 DEF RunSteer, Ask, Asks, serverVars
<1>3. CASE RunStop \/ RunResume \/ RetryInterrupt \/ RetryCheck \/ RetryFork \/ RetryRestart
  <2>1. server' = server \/ server' = [server EXCEPT !.halting = TRUE]
    BY <1>3
    DEF RunStop, RunResume, RetryInterrupt, RetryCheck, RetryFork, RetryRestart, Ask, Halt,
        serverVars
  <2>2. /\ server'.alive = server.alive /\ server'.running = server.running
        /\ server'.turns = server.turns
    BY <2>1 DEF TypeInv, ServerInv
  <2> QED
    BY <1>3, <2>2
    DEF RunStop, RunResume, RetryInterrupt, RetryCheck, RetryFork, RetryRestart, Ask, Asks, Halt,
        serverVars
<1> QED
  BY <1>1, <1>2, <1>3 DEF Backend

(* Every step keeps the notices to what the app-server has done. *)
LEMMA StepLive == TypeInv /\ LinkInv /\ TurnsInv /\ LiveInv /\ [Next]_vars => LiveInv'
<1> SUFFICES ASSUME TypeInv, LinkInv, TurnsInv, LiveInv, [Next]_vars PROVE LiveInv'
  OBVIOUS
<1>0. /\ server \in [alive : BOOLEAN, running : Turn0, turns : Turn0, halting : BOOLEAN,
                     spoke : BOOLEAN]
      /\ server.turns \in Nat /\ server.running \in Nat /\ notes \in Seq(Notices)
      /\ connected \in BOOLEAN /\ notes \in Seq(Events)
  BY DEF TypeInv, ServerInv, Turn0, Turns, LiveInv, BackendInv
<1>1. ASSUME UNCHANGED <<notes, connected>>, server'.alive = server.alive,
             server'.running = server.running, server'.turns = server.turns
      PROVE  LiveInv'
  <2>1. Notices' = Notices
    BY <1>1 DEF Notices
  <2> QED
    BY <1>1, <2>1 DEF LiveInv
(* A notice is added or not, and nothing that was said becomes wrong. *)
<1>2. ASSUME Notices \subseteq Notices', NEW e \in Notices', notes' = Append(notes, e),
             connected' = connected, connected,
             ~server'.alive => server'.running = 0 /\ e.kind = "lost"
      PROVE  LiveInv'
  <2>1. notes \in Seq(Notices')
    BY <1>0, <1>2, SeqGrows
  <2>2. notes' \in Seq(Notices') /\ Elements(notes') = Elements(notes) \cup {e}
    BY <1>2, <2>1, ElementsAppend, AppendTypes
  <2> QED
    BY <1>2, <2>2 DEF LiveInv
<1>3. CASE User \/ Reduce \/ Rest \/ UNCHANGED vars
  <2>1. UNCHANGED <<server, notes, connected>>
    BY <1>3
    DEF User, Type, Submit, Stop, Retry, DismissBanner, Select, notUser,
         Reduce, ReduceStarted, ReduceRecorded, ReduceSteered, ReduceEnded, ReduceStopFailed,
         ReduceBuffering, ReduceSpoke, ReduceRuntime, ReduceSubmissionFailed, ReduceRetryFailed,
         ReduceCreated, ReduceLost, ReduceConnected, NextIs, Rest, vars, serverVars
  <2> QED
    BY <1>1, <2>1
<1>4. CASE Backend /\ ~RunStart /\ ~Reconnect
  BY <1>1, <1>4, OthersRunNone
<1>5. CASE RunStart
  <2> DEFINE t == server.turns + 1
             e == Note("started", t)
  <2>0. connected' = connected /\ connected
    BY <1>5 DEF RunStart, Asks, LinkInv
  <2>1. CASE UNCHANGED serverVars
    BY <1>1, <2>0, <2>1 DEF serverVars
  <2>2. CASE ~UNCHANGED serverVars
    <3>1. /\ server.alive /\ server'.alive = TRUE /\ server'.running = t /\ server'.turns = t
          /\ t \in Turns /\ server.running = 0 /\ notes' = Append(notes, e)
      BY <1>5, <2>2, StartRuns
    <3>2. Notices \subseteq Notices'
      BY <1>0, <3>1 DEF Notices
    <3>3. e \in Events /\ e.kind = "started"
      BY <3>1, NoteTypes DEF Turn0, Note
    <3>4. e \in Notices'
      BY <3>3 DEF Notices, NoticeKinds
    <3> HIDE DEF e, t
    <3> QED
      BY <1>2, <2>0, <3>1, <3>2, <3>4
  <2> QED
    BY <2>1, <2>2
<1>6. CASE Reconnect
  <2>1. server'.alive = TRUE /\ server'.running = server.running /\ server'.turns = server.turns
        /\ connected' = TRUE /\ notes' = <<>>
    BY <1>0, <1>6 DEF Reconnect, LiveInv
  <2> QED
    BY <2>1 DEF LiveInv
<1>7. CASE Drain
  <2>0. notes # <<>> /\ connected /\ Head(notes) \in Notices
    BY <1>0, <1>7, TailTypes DEF Drain
  <2>1. CASE Lose
    <3>1. server'.alive = FALSE /\ server'.running = 0 /\ connected' = FALSE /\ notes' = <<>>
      BY <1>0, <2>1 DEF Lose
    <3> QED
      BY <3>1 DEF LiveInv
  <2>2. CASE ~Lose
    <3>1. /\ UNCHANGED <<server, connected>> /\ notes' = Tail(notes)
          /\ Head(notes).kind # "lost"
      BY <1>7, <2>2 DEF Drain
    <3>2. Elements(notes) = {Head(notes)} \cup Elements(notes') /\ notes' \in Seq(Notices)
      BY <1>0, <2>0, <3>1, ElementsTail, TailTypes
    <3>3. Notices' = Notices
      BY <3>1 DEF Notices
    <3> QED
      BY <3>1, <3>2, <3>3 DEF LiveInv
  <2> QED
    BY <2>1, <2>2
<1>8. CASE Server
  <2>0. connected' = connected /\ server.alive /\ connected
    BY <1>8 DEF Server, Speak, Buffer, Finish, Die, notServer, LiveInv
  <2>1. CASE Speak \/ Buffer
    <3>1. /\ server'.alive = server.alive /\ server'.running = server.running
          /\ server'.turns = server.turns /\ server.running # 0
      BY <1>0, <2>1 DEF Speak, Buffer
    <3>2. PICK e \in Events : notes' = Append(notes, e) /\ e.kind \in {"spoke", "buffering"}
      BY <1>0, <2>1, NoteTypes DEF Speak, Buffer, Says, Note, Buffering
    <3>3. Notices' = Notices /\ e \in Notices
      BY <3>1, <3>2 DEF Notices, NoticeKinds
    <3> QED
      BY <1>2, <2>0, <3>1, <3>2, <3>3
  <2>2. CASE Finish
    <3> DEFINE e == Note("ended", server.running)
    <3>1. /\ server'.alive = server.alive /\ server'.running = 0 /\ server.running # 0
          /\ server'.turns = server.turns /\ notes' = Append(notes, e)
      BY <1>0, <2>2 DEF Finish, Says
    <3>2. e \in Events /\ e.kind = "ended" /\ e.turn = server.running
      BY <1>0, NoteTypes DEF Note
    <3>3. server.running \in 1..server.turns
      BY <1>0, <3>1 DEF TurnsInv
    <3> HIDE DEF e
    <3>4. Notices \subseteq Notices'
      <4>1. ASSUME NEW x \in Notices, x.kind = "ended" PROVE x.turn # 0
        BY <4>1 DEF Notices
      <4> QED
        BY <3>1, <4>1 DEF Notices
    <3>5. e \in Notices'
      BY <3>1, <3>2, <3>3 DEF Notices, NoticeKinds
    <3> QED
      BY <1>2, <2>0, <3>1, <3>4, <3>5
  <2>3. CASE Die
    <3> DEFINE e == Note("lost", 0)
    <3>1. /\ server'.alive = FALSE /\ server'.running = 0
          /\ server'.turns = server.turns /\ notes' = Append(notes, e)
      BY <1>0, <2>3 DEF Die, Says
    <3>2. e \in Events /\ e.kind = "lost"
      BY NoteTypes DEF Note, Turn0
    <3> HIDE DEF e
    <3>4. Notices \subseteq Notices'
      <4>1. ASSUME NEW x \in Notices, x.kind = "ended" PROVE x.turn # 0
        BY <4>1 DEF Notices
      <4> QED
        BY <3>1, <4>1 DEF Notices
    <3>5. e \in Notices'
      BY <3>1, <3>2 DEF Notices
    <3> QED
      BY <1>2, <2>0, <3>1, <3>2, <3>4, <3>5
  <2> QED
    BY <1>8, <2>1, <2>2, <2>3 DEF Server
<1> QED
  BY <1>3, <1>4, <1>5, <1>6, <1>7, <1>8 DEF Next

-----------------------------------------------------------------------------
(* The generations of the requests for the runtime, and the answers.         *)

(* A request for the runtime, and its answer, is of the generation that the  *)
(* timeline waits for or of an earlier one.                                  *)
OldCommands == {c \in Commands : c.kind = "resume" => c.draft <= tl.generation}
OldEvents   == {e \in Events : e.kind = "runtime" => e.generation <= tl.generation}
GenInv ==
    /\ commands \in Seq(OldCommands) /\ events \in Seq(OldEvents)
    /\ backend.out \in Seq(OldEvents)
    /\ backend.at = "resume" => Cmd.draft <= tl.generation

(* Only these two ask for the runtime. *)
LEMMA WhoAsks ==
    ASSUME TypeInv, [Next]_vars
    PROVE  \/ tl'.generation = tl.generation
           \/ AskRuntime /\ tl' = [tl EXCEPT !.generation = @ + 1, !.ready = FALSE]
<1>0. tl \in Timelines
  BY DEF TypeInv, UiInv
<1>1. CASE User
  BY <1>0, <1>1
  DEF User, Type, Submit, Stop, Retry, DismissBanner, Select, AskRuntime, Timelines
<1>2. CASE Reduce
  <2>1. CASE ReduceStarted
    <3>1. Quiet(tl) \in Timelines /\ Quiet(tl).generation = tl.generation
      BY <1>0 DEF Quiet, Timelines, NoBanner, Banners, Turn0
    <3> QED
      BY <1>0, <2>1, <3>1 DEF ReduceStarted, Timeline, Timelines
  <2>2. CASE ReduceSpoke
    <3>1. Quiet(tl) \in Timelines /\ Quiet(tl).generation = tl.generation
      BY <1>0 DEF Quiet, Timelines, NoBanner, Banners, Turn0
    <3> QED
      BY <1>0, <2>2, <3>1 DEF ReduceSpoke, Timeline, Timelines
  <2>3. CASE ReduceRuntime
    <3> DEFINE loaded == [tl EXCEPT !.ready = TRUE, !.active = Said.turn,
                                    !.banner = IF @.turn = Said.turn THEN @ ELSE NoBanner]
    <3>1. tl' = tl \/ tl' = loaded \/ tl' = [Quiet(loaded) EXCEPT !.stopping = FALSE]
      BY <2>3 DEF ReduceRuntime, Timeline, Same
    <3>2. loaded.generation = tl.generation
      BY <1>0 DEF Timelines
    <3> HIDE DEF loaded
    <3>3. Quiet(loaded).generation = loaded.generation
      BY DEF Quiet
    <3>4. [Quiet(loaded) EXCEPT !.stopping = FALSE].generation = Quiet(loaded).generation
      BY DEF Quiet
    <3> QED
      BY <3>1, <3>2, <3>3, <3>4
  <2>4. CASE ~ReduceStarted /\ ~ReduceSpoke /\ ~ReduceRuntime
    BY <1>0, <1>2, <2>4
    DEF Reduce, ReduceRecorded, ReduceSteered, ReduceEnded, ReduceStopFailed,
      ReduceBuffering, ReduceSubmissionFailed, ReduceRetryFailed, ReduceCreated,
      ReduceLost, ReduceConnected, Timeline, Same, AskRuntime, Timelines
  <2> QED
    BY <2>1, <2>2, <2>3, <2>4
<1>3. CASE Backend \/ Drain \/ Server \/ Rest \/ UNCHANGED vars
  <2>1. tl' = tl
    BY <1>3
    DEF Backend, Take, TakeOffline, RunStart, RunSteer, RunStop, RunResume, RetryInterrupt,
        RetryCheck, RetryFork, RetryRestart, Emit, Signal, Reconnect, Drain, Server, Speak,
        Buffer, Finish, Die, Rest, Asks, notBackend, notServer, uiVars, vars
  <2> QED
    BY <2>1
<1> QED
  BY <1>1, <1>2, <1>3 DEF Next

(* The answers that say nothing of the turns that run. *)
Answers == {e \in Events : e.kind \in {"submissionFailed", "stopFailed", "steered", "retryFailed",
                                       "created"}}
Plainly(out) == \E e \in Answers : out = <<>> \/ out = <<e>>

(* The requests but a start and the one for the runtime are answered so. *)
LEMMA PlainAnswers ==
    ASSUME TypeInv, OutInv,
           Take \/ RunSteer \/ RunStop \/ RetryInterrupt \/ RetryCheck \/ RetryFork \/ RetryRestart
    PROVE  /\ backend.at # "emit" /\ Plainly(backend'.out)
           /\ backend'.at \notin {"resume", "signal"} \/ Take
<1>0. /\ backend \in [at : {"idle", "check", "fork", "restart", "emit", "signal"} \cup Kinds,
                      cmd : Commands, cached : BOOLEAN, out : Seq(Events),
                      then : {"idle", "restart"}]
      /\ backend.at # "emit" /\ Cmd \in Commands /\ SubmissionFailed(Cmd) \in Events
  BY CmdTypes
  DEF TypeInv, BackendInv, AtInv, Take, RunSteer, RunStop, RetryInterrupt, RetryCheck, RetryFork,
      RetryRestart, Asks
<1>1. Note("stopFailed", 0) \in Answers /\ Note("created", 0) \in Answers
  BY NoteTypes DEF Turn0, Answers, Note
<1>2. ASSUME NEW e \in Answers, Reply(<<e>>)
      PROVE  backend'.out = <<e>> /\ backend'.at = "emit"
  BY <1>2 DEF Reply, Idle
<1>3. Done => backend'.out = <<>> /\ backend'.at = "idle"
  BY DEF Done, Idle
<1>4. ASSUME NEW at \in {"check", "fork"}, Goto(at) PROVE backend'.out = <<>> /\ backend'.at = at
  BY <1>0, <1>4 DEF Goto, OutInv
<1>5. CASE Take
  <2>1. backend'.out = <<>>
    BY <1>5 DEF Take, Idle
  <2> QED
    BY <1>0, <1>1, <1>5, <2>1 DEF Plainly
<1>6. CASE RunSteer
  <2>1. CASE Fail(SubmissionFailed(Cmd))
    <3>1. SubmissionFailed(Cmd) \in Answers
      BY <1>0 DEF Answers, SubmissionFailed
    <3> QED
      BY <1>0, <1>2, <2>1, <3>1 DEF Fail, Plainly
  <2>2. CASE ~Fail(SubmissionFailed(Cmd))
    <3>1. /\ Cmd.turn \in Turns /\ Cmd.message \in Message
          /\ Reply(<<Steered(Cmd.turn, Cmd.message)>>)
      BY <1>6, <2>2, SteerDoes
    <3>2. Steered(Cmd.turn, Cmd.message) \in Answers
      BY <3>1, NoteTypes DEF Turn0, Answers, Steered
    <3> QED
      BY <1>0, <1>2, <3>1, <3>2 DEF Plainly
  <2> QED
    BY <2>1, <2>2
<1>7. CASE RunStop
  <2>1. Done \/ Reply(<<Note("stopFailed", 0)>>)
    BY <1>7 DEF RunStop
  <2> QED
    BY <1>0, <1>1, <1>2, <1>3, <2>1 DEF Plainly
<1>8. CASE RetryInterrupt \/ RetryCheck \/ RetryFork \/ RetryRestart
  <2>1. Cmd.turn \in Turn0 /\ Cmd.messages # <<>> /\ Cmd.messages \in Batch
    BY <1>0, <1>8, CmdTypes
    DEF RetryInterrupt, RetryCheck, RetryFork, RetryRestart, Asks, Carries, Commands, TypeInv
  <2>2. Head(Cmd.messages) \in Messages /\ {} \in Messages
    BY <2>1, TailTypes DEF Batch, Message, Messages
  <2>3. ASSUME NEW chat \in {"none", "here", "fork"}, NEW m \in {{}, Head(Cmd.messages)},
               Fail(RetryFailed(Cmd.turn, chat, m))
        PROVE  Plainly(backend'.out) /\ backend'.at = "emit"
    <3>1. RetryFailed(Cmd.turn, chat, m) \in Events
      BY <2>1, <2>2, NoteTypes
    <3>2. RetryFailed(Cmd.turn, chat, m) \in Answers
      BY <3>1 DEF Answers, RetryFailed
    <3> QED
      BY <1>2, <2>3, <3>2 DEF Plainly, Fail
  <2>4. CASE Done \/ Goto("check") \/ Goto("fork")
    BY <1>0, <1>1, <1>3, <1>4, <2>4 DEF Plainly
  <2>5. CASE backend' = [backend EXCEPT !.at = "emit", !.out = <<Note("created", 0)>>,
                                        !.then = "restart"]
    <3> DEFINE out == <<Note("created", 0)>>
    <3>1. backend'.out = out /\ backend'.at = "emit"
      <4>1. backend' = [backend EXCEPT !.at = "emit", !.out = out, !.then = "restart"]
        BY <2>5
      <4> HIDE DEF out
      <4> QED
        BY <1>0, <4>1
    <3> QED
      BY <1>0, <1>1, <3>1 DEF Plainly
  <2> QED
    BY <1>0, <1>8, <2>3, <2>4, <2>5
    DEF RetryInterrupt, RetryCheck, RetryFork, RetryRestart, Ask, GiveUp
<1> QED
  BY <1>5, <1>6, <1>7, <1>8

(* What a start is answered. *)
LEMMA StartAnswers ==
    ASSUME TypeInv, RunStart
    PROVE  \/ Plainly(backend'.out) /\ backend'.at = "emit"
           \/ \E m \in Batch : /\ ~UNCHANGED serverVars /\ server.turns + 1 \in Turns
                               /\ backend'.at = "emit"
                               /\ backend'.out = <<Note("started", server.turns + 1),
                                                   Recorded(server.turns + 1, m)>>
<1>1. CASE Fail(SubmissionFailed(Cmd))
  <2>1. SubmissionFailed(Cmd) \in Answers
    BY CmdTypes DEF Answers, SubmissionFailed, TypeInv
  <2> QED
    BY <1>1, <2>1 DEF Fail, Reply, Plainly, Idle
<1>2. CASE ~Fail(SubmissionFailed(Cmd))
  <2> DEFINE batch == <<Cmd.message>>
  <2>1. PICK t \in Turns :
          /\ t = server.turns + 1 /\ server'.turns = t
          /\ Reply(<<Note("started", t), Recorded(t, batch)>>)
    BY <1>2, StartDoes
  <2>2. batch \in Batch
    BY StartDoes, Single
  <2> HIDE DEF batch
  <2>3. /\ backend'.out = <<Note("started", t), Recorded(t, batch)>>
        /\ backend'.at = "emit"
    BY <2>1 DEF Reply, Idle
  <2>4. ~UNCHANGED serverVars
    <3>1. server.turns \in Nat
      BY DEF TypeInv, ServerInv, Turn0, Turns
    <3> QED
      BY <2>1, <3>1 DEF serverVars
  <2> QED
    BY <2>1, <2>2, <2>3, <2>4
<1> QED
  BY <1>1, <1>2

(* No request for the runtime is ahead of the timeline. *)
LEMMA StepGen == TypeInv /\ OutInv /\ LinkInv /\ LiveInv /\ GenInv /\ [Next]_vars => GenInv'
<1> SUFFICES ASSUME TypeInv, OutInv, LinkInv, LiveInv, GenInv, [Next]_vars PROVE GenInv'
  OBVIOUS
<1>0. /\ tl.generation \in Nat /\ tl'.generation \in Nat /\ tl'.generation >= tl.generation
      /\ tl \in Timelines /\ tl.generation + 1 \in Nat
  <2>1. tl \in Timelines /\ tl.generation \in Nat
    BY DEF TypeInv, UiInv, Timelines
  <2>2. [tl EXCEPT !.generation = @ + 1, !.ready = FALSE].generation = tl.generation + 1
    BY <2>1 DEF Timelines
  <2>3. tl'.generation \in {tl.generation, tl.generation + 1}
    BY <2>2, WhoAsks
  <2> QED
    BY <2>1, <2>3
<1>1. OldCommands \subseteq OldCommands' /\ OldEvents \subseteq OldEvents'
  <2>1. \A n \in Nat : n <= tl.generation => n <= tl'.generation
    BY <1>0
  <2>2. \A e \in Events : e.kind = "runtime" => e.generation \in Nat
    BY EventFields
  <2> QED
    BY <2>1, <2>2 DEF OldCommands, OldEvents, Commands
<1>2. /\ commands \in Seq(OldCommands') /\ events \in Seq(OldEvents')
      /\ backend.out \in Seq(OldEvents')
      /\ backend.at = "resume" => Cmd.draft <= tl'.generation
  <2>1. commands \in Seq(OldCommands') /\ events \in Seq(OldEvents') /\ backend.out \in Seq(OldEvents')
    BY <1>1, SeqGrows DEF GenInv
  <2>2. Cmd.draft \in Nat
    BY CmdTypes DEF TypeInv, Commands
  <2> QED
    BY <1>0, <2>1, <2>2 DEF GenInv
<1>3. ASSUME UNCHANGED backend PROVE backend'.at = "resume" => Cmd'.draft <= tl'.generation
  BY <1>2, <1>3 DEF Cmd
<1>4. <<>> \in Seq(OldEvents') /\ \A e \in OldEvents' : <<e>> \in Seq(OldEvents')
  OBVIOUS
<1>5. ASSUME Plainly(backend'.out) PROVE backend'.out \in Seq(OldEvents')
  <2>1. Answers \subseteq OldEvents'
    BY DEF Answers, OldEvents
  <2> QED
    BY <1>4, <1>5, <2>1 DEF Plainly
(* Nothing is asked or answered. *)
<1>6. ASSUME UNCHANGED <<commands, events>>, backend'.out \in Seq(OldEvents'),
             backend'.at # "resume"
      PROVE  GenInv'
  BY <1>2, <1>6 DEF GenInv
<1>7. CASE User
  <2>1. UNCHANGED <<events, backend>>
    BY <1>7 DEF User, Type, Submit, Stop, Retry, DismissBanner, Select, notUser
  <2>2. ASSUME NEW c \in OldCommands', Dispatch(c) PROVE commands' \in Seq(OldCommands')
    <3>1. commands' \in {commands, Append(commands, c)}
      BY <2>2 DEF Dispatch
    <3> QED
      BY <1>2, <2>2, <3>1, AppendTypes
  <2>4. CASE Submit
    <3> DEFINE c == [NoCommand EXCEPT !.kind = IF tl.active = 0 THEN "start" ELSE "steer",
                                      !.turn = tl.active, !.message = composer, !.draft = draft]
    <3>1. c \in Commands /\ c.kind # "resume"
      BY DEF TypeInv, UiInv, NoCommand, Commands, Kinds, Messages, Timelines
    <3>2. Dispatch(c)
      BY <2>4 DEF Submit
    <3> HIDE DEF c
    <3>3. c \in OldCommands'
      BY <3>1 DEF OldCommands
    <3> QED
      BY <1>2, <1>3, <2>1, <2>2, <3>2, <3>3 DEF GenInv
  <2>5. CASE Stop
    <3> DEFINE c == [NoCommand EXCEPT !.kind = "stop", !.turn = tl.active]
    <3>1. c \in Commands /\ c.kind # "resume"
      BY DEF TypeInv, UiInv, NoCommand, Commands, Kinds, Messages, Timelines
    <3>2. Dispatch(c)
      BY <2>5 DEF Stop
    <3> HIDE DEF c
    <3>3. c \in OldCommands'
      BY <3>1 DEF OldCommands
    <3> QED
      BY <1>2, <1>3, <2>1, <2>2, <3>2, <3>3 DEF GenInv
  <2>6. CASE Retry
    <3> DEFINE c == [NoCommand EXCEPT !.kind = "retry", !.turn = tl.active, !.messages = tl.retry]
    <3>1. c \in Commands /\ c.kind # "resume"
      BY <1>0 DEF NoCommand, Commands, Kinds, Messages, Timelines
    <3>2. Dispatch(c)
      BY <2>6 DEF Retry
    <3> HIDE DEF c
    <3>3. c \in OldCommands'
      BY <3>1 DEF OldCommands
    <3> QED
      BY <1>2, <1>3, <2>1, <2>2, <3>2, <3>3 DEF GenInv
  <2>7. CASE AskRuntime
    <3>1. Resume \in Commands /\ Resume.draft = tl.generation + 1
      BY <1>0 DEF Resume, NoCommand, Commands, Kinds, Turn0, Messages
    <3>2. tl'.generation = tl.generation + 1
      BY <1>0, <2>7 DEF AskRuntime, Timelines
    <3>3. Resume \in OldCommands'
      BY <1>0, <3>1, <3>2 DEF OldCommands
    <3> QED
      BY <1>2, <1>3, <2>1, <2>2, <2>7, <3>3 DEF GenInv, AskRuntime
  <2>8. CASE UNCHANGED commands
    BY <1>2, <1>3, <2>1, <2>8 DEF GenInv
  <2> QED
    BY <1>7, <2>4, <2>5, <2>6, <2>7, <2>8 DEF User, Type, DismissBanner, Select
<1>8. CASE Reduce
  <2>1. /\ UNCHANGED backend /\ events # <<>> /\ events' = Tail(events)
        /\ AskRuntime \/ UNCHANGED commands
    BY <1>8
    DEF Reduce, ReduceStarted, ReduceRecorded, ReduceSteered, ReduceEnded, ReduceStopFailed,
      ReduceBuffering, ReduceSpoke, ReduceRuntime, ReduceSubmissionFailed, ReduceRetryFailed,
      ReduceCreated, ReduceLost, ReduceConnected, Timeline, Same, NextIs
  <2>2. events' \in Seq(OldEvents')
    BY <1>2, <2>1, TailTypes
  <2>3. commands' \in Seq(OldCommands')
    <3>1. CASE AskRuntime
      <4>1. Resume \in Commands /\ Resume.draft = tl.generation + 1
        BY <1>0 DEF Resume, NoCommand, Commands, Kinds, Turn0, Messages
      <4>2. tl'.generation = tl.generation + 1
        BY <1>0, <3>1 DEF AskRuntime, Timelines
      <4>3. Resume \in OldCommands'
        BY <1>0, <4>1, <4>2 DEF OldCommands
      <4>4. commands' \in {commands, Append(commands, Resume)}
        BY <3>1 DEF AskRuntime, Dispatch
      <4> QED
        BY <1>2, <4>3, <4>4, AppendTypes
    <3> QED
      BY <1>2, <2>1, <3>1
  <2> QED
    BY <1>2, <1>3, <2>1, <2>2, <2>3 DEF GenInv
<1>9. CASE Take \/ TakeOffline
  <2> DEFINE cmd == Head(commands)
  <2>1. /\ commands # <<>> /\ commands' = Tail(commands) /\ UNCHANGED <<events, tl>>
        /\ backend.at # "emit"
    BY <1>9 DEF Take, TakeOffline, notBackend, uiVars
  <2>2. cmd \in OldCommands' /\ commands' \in Seq(OldCommands')
    BY <1>2, <2>1, TailTypes
  <2>3. CASE Take
    <3>1. backend'.out \in Seq(OldEvents')
      BY <1>5, <2>3, PlainAnswers
    <3>2. ASSUME backend'.at = "resume" PROVE backend'.cmd.draft <= tl'.generation
      <4>1. backend' = [Idle EXCEPT !.at = cmd.kind, !.cmd = cmd]
            \/ backend' = [Idle EXCEPT !.at = "retry", !.cached = TRUE,
                                      !.cmd = [cmd EXCEPT !.messages = cache.messages]]
        BY <2>3 DEF Take
      <4> HIDE DEF cmd
      <4>2. backend'.at = cmd.kind /\ backend'.cmd = cmd
        BY <3>2, <4>1 DEF Idle
      <4> QED
        BY <2>2, <3>2, <4>2 DEF OldCommands
    <3> QED
      BY <1>2, <2>1, <2>2, <3>1, <3>2 DEF GenInv, Cmd
  <2>4. CASE TakeOffline
    <3>1. backend'.out = <<Note("lost", 0)>> /\ backend'.at = "emit"
      BY <2>4 DEF TakeOffline, Reply, Idle
    <3>2. Note("lost", 0) \in OldEvents'
      BY NoteTypes DEF OldEvents, Note, Turn0
    <3> QED
      BY <1>2, <1>4, <2>1, <2>2, <3>1, <3>2 DEF GenInv
  <2> QED
    BY <1>9, <2>3, <2>4
<1>10. CASE RunSteer \/ RunStop \/ RetryInterrupt \/ RetryCheck \/ RetryFork \/ RetryRestart
  <2>1. Plainly(backend'.out) /\ (backend'.at \notin {"resume", "signal"} \/ Take)
    BY <1>10, PlainAnswers
  <2>2. UNCHANGED <<commands, events>> /\ ~Take
    BY <1>10
    DEF RunSteer, RunStop, RetryInterrupt, RetryCheck, RetryFork, RetryRestart, Asks, Take
  <2> QED
    BY <1>5, <1>6, <2>1, <2>2
<1>11. CASE RunStart
  <2>1. UNCHANGED <<commands, events>>
    BY <1>11, StartDoes
  <2>2. CASE Plainly(backend'.out) /\ backend'.at = "emit"
    BY <1>5, <1>6, <2>1, <2>2
  <2>3. ASSUME NEW m \in Batch, server.turns + 1 \in Turns, backend'.at = "emit",
               backend'.out = <<Note("started", server.turns + 1), Recorded(server.turns + 1, m)>>
        PROVE  GenInv'
    <3> DEFINE e == Note("started", server.turns + 1)
               f == Recorded(server.turns + 1, m)
    <3>1. e \in Events /\ f \in Events /\ e.kind = "started" /\ f.kind = "recorded"
      BY <2>3, NoteTypes DEF Turn0, Note, Recorded
    <3>2. backend'.out = <<e, f>>
      BY <2>3
    <3> HIDE DEF e, f
    <3>3. e \in OldEvents' /\ f \in OldEvents'
      BY <3>1 DEF OldEvents
    <3>4. backend'.out \in Seq(OldEvents')
      BY <3>2, <3>3
    <3> QED
      BY <1>6, <2>1, <2>3, <3>4
  <2> QED
    BY <1>11, <2>2, <2>3, StartAnswers
<1>12. CASE RunResume
  <2>1. UNCHANGED <<commands, events>> /\ backend.at = "resume"
    BY <1>12 DEF RunResume, Asks
  <2>2. CASE Done
    <3>1. backend'.out = <<>> /\ backend'.at = "idle"
      BY <2>2 DEF Done, Idle
    <3> QED
      BY <1>4, <1>6, <2>1, <3>1
  <2>3. CASE ~Done
    <3> DEFINE e == Runtime(server.running, Cmd.draft)
    <3>1. backend'.out = <<e>> /\ backend'.at = "emit"
      BY <1>12, <2>3 DEF RunResume, Reply, Idle
    <3>2. server.running \in Turn0 /\ Cmd.draft \in Nat
      BY CmdTypes DEF TypeInv, ServerInv, Commands
    <3>3. e \in Events /\ e.generation = Cmd.draft
      BY <3>2, NoteTypes DEF Runtime
    <3> HIDE DEF e
    <3>4. e \in OldEvents'
      BY <1>2, <2>1, <3>3 DEF OldEvents
    <3> QED
      BY <1>4, <1>6, <2>1, <3>1, <3>4
  <2> QED
    BY <2>2, <2>3
<1>13. CASE Reconnect
  <2>1. /\ backend'.out = <<Note("connected", 0)>> /\ backend'.at = "emit"
        /\ UNCHANGED <<commands, events>>
    BY <1>13 DEF Reconnect, Reply, Idle
  <2>2. Note("connected", 0) \in OldEvents'
    BY NoteTypes DEF OldEvents, Note, Turn0
  <2> QED
    BY <1>4, <1>6, <2>1, <2>2
<1>14. CASE Emit
  <2> DEFINE e == Head(backend.out)
  <2>0. /\ backend \in [at : {"idle", "check", "fork", "restart", "emit", "signal"} \cup Kinds,
                        cmd : Commands, cached : BOOLEAN, out : Seq(Events),
                        then : {"idle", "restart"}]
        /\ backend.out # <<>> /\ backend.at = "emit" /\ commands' = commands
    BY <1>14 DEF TypeInv, BackendInv, AtInv, Emit
  <2>1. e \in OldEvents' /\ Tail(backend.out) \in Seq(OldEvents')
    BY <1>2, <2>0, TailTypes
  <2>2. events' \in {events, Append(events, e)}
    BY <1>14 DEF Emit
  <2>3. /\ backend'.out \in {Tail(backend.out), <<>>} /\ backend'.at # "resume"
    BY <1>14, <2>0 DEF Emit
  <2> HIDE DEF e
  <2>4. events' \in Seq(OldEvents')
    BY <1>2, <2>1, <2>2, AppendTypes
  <2>5. backend'.out \in Seq(OldEvents')
    BY <1>4, <2>1, <2>3
  <2> QED
    BY <1>2, <2>0, <2>3, <2>4, <2>5 DEF GenInv
<1>15. CASE Drain \/ Signal
  <2>1. PICK e \in OldEvents' : events' \in {events, Append(events, e)}
    <3>1. Note("lost", 0) \in OldEvents'
      BY NoteTypes DEF OldEvents, Note, Turn0
    <3>2. notes # <<>> => Head(notes) \in Notices
      BY TailTypes DEF LiveInv
    <3>3. Notices \subseteq OldEvents'
      BY DEF Notices, NoticeKinds, OldEvents
    <3> QED
      BY <1>15, <3>1, <3>2, <3>3 DEF Drain, Lose, Signal
  <2>2. /\ commands' = commands /\ backend'.out = backend.out /\ backend'.at # "resume"
    BY <1>15 DEF Drain, Lose, Goto, Signal, Done, Idle, OutInv, TypeInv, BackendInv, AtInv
  <2>3. events' \in Seq(OldEvents')
    BY <1>2, <2>1, AppendTypes
  <2> QED
    BY <1>2, <2>2, <2>3 DEF GenInv
<1>16. CASE Server \/ Rest \/ UNCHANGED vars
  <2>1. UNCHANGED <<commands, events, backend>>
    BY <1>16 DEF Server, Speak, Buffer, Finish, Die, notServer, Rest, vars
  <2> QED
    BY <1>2, <1>3, <2>1 DEF GenInv
<1> QED
  BY <1>7, <1>8, <1>9, <1>10, <1>11, <1>12, <1>13, <1>14, <1>15, <1>16 DEF Next, Backend

-----------------------------------------------------------------------------
(* From the events over the answers and the notices to the turn that runs.   *)

(* Where the chat stands.                                                    *)
Ui == [up |-> online, ready |-> tl.ready, active |-> IF tl.ready THEN tl.active ELSE 0]

(* From z the notices s lead to the turn r that runs, if z was loaded or if  *)
(* they have a start.                                                        *)
Settled(z, s, r) ==
    \E a, b \in Turn0 : /\ Walk(Steady, 0, s, On(a), On(b))
                        /\ z.ready => z.active = a
                        /\ z.ready \/ HasStart(s) => b = r

(* What is queued and to be emitted leads to a place that has a connection   *)
(* iff the backend has one and from where the notices lead to the turn that  *)
(* runs; unless an event was missed.                                         *)
PathInv ==
    "missed" \notin holes =>
        /\ Ui \in Places
        /\ \E y, z \in Places :
             /\ Walk(Places, tl.generation, events, Ui, y)
             /\ Walk(Places, tl.generation, backend.out, y, z)
             /\ connected => z.up
             /\ connected \/ backend.at = "signal" \/ ~z.up
             /\ server.alive => Settled(z, notes, server.running)

(* At the start nothing has been said, and nothing is wrong. *)
LEMMA InitPath == Init => LinkInv /\ LiveInv /\ GenInv /\ PathInv
<1> SUFFICES ASSUME Init PROVE LinkInv /\ LiveInv /\ GenInv /\ PathInv
  OBVIOUS
<1>0. 0 \in Turn0
  BY DEF Turn0
<1>1. /\ Ui = On(0) /\ events = <<>> /\ backend.out = <<>> /\ notes = <<>> /\ connected
      /\ server.running = 0 /\ backend.at = "idle" /\ backend.then = "idle" /\ server.alive
      /\ commands = <<>>
  BY DEF Init, Ui, On, Idle
<1>2. On(0) \in Places /\ On(0) \in Steady /\ On(0).up /\ On(0).ready /\ On(0).active = 0
  BY <1>0 DEF On, Places, Steady
<1>3. Walk(Places, tl.generation, <<>>, On(0), On(0)) /\ Walk(Steady, 0, <<>>, On(0), On(0))
  BY <1>2, WalkOfNone
<1>4. Settled(On(0), <<>>, 0)
  BY <1>0, <1>2, <1>3 DEF Settled
<1>5. PathInv
  BY <1>1, <1>2, <1>3, <1>4 DEF PathInv
<1>6. <<>> \in Seq(Notices) /\ <<>> \in Seq(OldEvents) /\ <<>> \in Seq(OldCommands)
  OBVIOUS
<1> QED
  BY <1>1, <1>5, <1>6 DEF LinkInv, LiveInv, GenInv

(* With nothing left to be said, the chat shows the turn that runs.          *)
LEMMA PathSuffices == TypeInv /\ OutInv /\ LiveInv /\ PathInv => UiAgrees
<1> SUFFICES ASSUME TypeInv, OutInv, LiveInv, PathInv, AllQuiet, online, tl.ready,
                    "missed" \notin holes
             PROVE  tl.active = server.running
  BY DEF UiAgrees
<1>1. events = <<>> /\ backend.out = <<>> /\ notes = <<>> /\ connected
  BY DEF AllQuiet, OutInv
<1>2. server.alive
  BY <1>1, ElementsFew DEF LiveInv
<1>3. PICK y \in Places, z \in Places :
         /\ Walk(Places, tl.generation, events, Ui, y)
         /\ Walk(Places, tl.generation, backend.out, y, z)
         /\ Settled(z, notes, server.running)
  BY <1>2 DEF PathInv
<1>4. z = Ui
  <2>1. Ui \in Places
    BY DEF PathInv
  <2> QED
    BY <1>1, <1>3, <2>1, WalkOfNone
<1>5. z.ready /\ z.active = tl.active
  BY <1>4 DEF Ui
<1>6. PICK a \in Turn0, b \in Turn0 :
         Walk(Steady, 0, <<>>, On(a), On(b)) /\ z.active = a /\ b = server.running
  BY <1>1, <1>3, <1>5 DEF Settled
<1>7. On(a) = On(b) /\ On(a).active = a /\ On(b).active = b
  <2>1. On(a) \in Steady
    BY DEF Steady
  <2>2. On(a) = On(b)
    BY <1>6, <2>1, WalkOfNone
  <2> QED
    BY <2>2 DEF On
<1> QED
  BY <1>5, <1>6, <1>7

(* Nothing that the path is about changes. *)
LEMMA PathStays ==
    ASSUME PathInv, "missed" \in holes => "missed" \in holes',
           UNCHANGED <<online, events, notes, connected>>, backend'.out = backend.out,
           tl'.ready = tl.ready, tl'.active = tl.active, tl'.generation = tl.generation,
           server'.alive = server.alive, server'.running = server.running,
           connected \/ backend'.at = "signal" \/ backend.at # "signal"
    PROVE  PathInv'
<1>1. Ui' = Ui
  BY DEF Ui
<1> QED
  BY <1>1 DEF PathInv

(* What the app-server does is in its notices. *)
LEMMA SettledGoesOn ==
    ASSUME NEW s \in Seq(Events), NEW z \in Places, NEW r \in Turn0, Settled(z, s, r),
           NEW e \in Events, NEW q \in Turn0,
           \/ e.kind = "started" /\ q = e.turn
           \/ e.kind = "ended" /\ e.turn = r /\ q = 0
           \/ e.kind \in {"spoke", "buffering"} /\ q = r
    PROVE  Settled(z, Append(s, e), q)
<1>1. PICK a \in Turn0, b \in Turn0 : /\ Walk(Steady, 0, s, On(a), On(b))
                                      /\ z.ready => z.active = a
                                      /\ z.ready \/ HasStart(s) => b = r
  BY DEF Settled
<1>2. \A t \in Turn0 : On(t) \in Steady /\ On(t).active = t /\ On(t).ready
  BY DEF Steady, On
<1>3. e.turn \in Turn0 /\ 0 \in Turn0
  BY EventFields DEF Turn0
<1>4. HasStart(Append(s, e)) => HasStart(s) \/ e.kind = "started"
  <2> DEFINE l == Append(s, e)
  <2>1. /\ Len(l) = Len(s) + 1 /\ l[Len(s) + 1] = e /\ Len(s) \in Nat
        /\ \A i \in 1..Len(s) : l[i] = s[i]
    BY AppendTypes
  <2> HIDE DEF l
  <2>2. \A i \in 1..(Len(s) + 1) : i \in 1..Len(s) \/ i = Len(s) + 1
    BY <2>1
  <2>3. HasStart(l) => HasStart(s) \/ e.kind = "started"
    BY <2>1, <2>2 DEF HasStart
  <2> QED
    BY <2>3 DEF l
<1>5. ASSUME NEW c \in Turn0, Leads(0, e, On(b), On(c)),
             z.ready \/ HasStart(s) \/ e.kind = "started" => c = q
      PROVE  Settled(z, Append(s, e), q)
  <2>1. Walk(Steady, 0, Append(s, e), On(a), On(c))
    BY <1>1, <1>2, <1>5, WalkOfMore
  <2> QED
    BY <1>1, <1>4, <1>5, <2>1 DEF Settled
<1>6. CASE e.kind = "started" /\ q = e.turn
  BY <1>3, <1>5, <1>6, Moved
<1>7. CASE e.kind \in {"spoke", "buffering"} /\ q = r
  <2>1. Leads(0, e, On(b), On(b))
    BY <1>7, Unmoved
  <2> QED
    BY <1>1, <1>5, <1>7, <2>1
<1>8. CASE e.kind = "ended" /\ e.turn = r /\ q = 0
  <2>1. CASE b = r
    <3>1. Leads(0, e, On(b), On(0))
      BY <1>2, <1>8, <2>1 DEF Leads, After
    <3> QED
      BY <1>3, <1>5, <1>8, <3>1
  <2>2. CASE b # r
    <3>1. Leads(0, e, On(b), On(b))
      BY <1>8, <2>2, Unmoved
    <3> QED
      BY <1>1, <1>5, <1>8, <2>2, <3>1
  <2> QED
    BY <2>1, <2>2
<1> QED
  BY <1>6, <1>7, <1>8

(* A turn that the chat learns of by an answer: what the notices said before *)
(* a start does not matter, and an end of it is behind its start.            *)
LEMMA SettledAnew ==
    ASSUME NEW s \in Seq(Events), NEW z \in Places, NEW r \in Turn0, NEW t \in Turn0,
           Settled(z, s, r),
           \A i \in 1..Len(s) : /\ s[i].kind \in NoticeKinds
                                /\ s[i].kind = "ended" => s[i].turn \notin {0, t}
    PROVE  \E c \in Turn0 : /\ Walk(Steady, 0, s, On(t), On(c))
                            /\ HasStart(s) => c = r
                            /\ ~HasStart(s) => c = t
<1>1. PICK a \in Turn0, b \in Turn0 : /\ Walk(Steady, 0, s, On(a), On(b))
                                      /\ z.ready \/ HasStart(s) => b = r
  BY DEF Settled
<1>2. PICK c \in Turn0 : /\ Walk(Steady, 0, s, On(t), On(c))
                         /\ c = IF HasStart(s) THEN b ELSE t
  BY <1>1, WalkFromAnother
<1> QED
  BY <1>1, <1>2

(* A notice is forwarded. *)
LEMMA SettledOfTail ==
    ASSUME NEW s \in Seq(Events), s # <<>>, NEW z \in Places, NEW r \in Turn0, NEW g,
           Head(s).kind \in NoticeKinds, Settled(z, s, r)
    PROVE  /\ Leads(g, Head(s), z, After(g, Head(s), z))
           /\ After(g, Head(s), z) \in Places /\ After(g, Head(s), z).up = z.up
           /\ Settled(After(g, Head(s), z), Tail(s), r)
           /\ Head(s).kind = "buffering" => After(g, Head(s), z) = z
<1> DEFINE e == Head(s)
           n == After(g, e, z)
<1>0. e \in Events /\ Len(s) \in Nat /\ e.kind \in NoticeKinds
  BY TailTypes
<1>1. PICK a \in Turn0, b \in Turn0 : /\ Walk(Steady, 0, s, On(a), On(b))
                                      /\ z.ready => z.active = a
                                      /\ z.ready \/ HasStart(s) => b = r
  BY DEF Settled
<1>2. \A t \in Turn0 : On(t) \in Steady /\ On(t).active = t /\ On(t).ready /\ On(t).up
  BY DEF Steady, On
<1>3. PICK c \in Steady : Leads(0, e, On(a), c) /\ Walk(Steady, 0, Tail(s), c, On(b))
  BY <1>1, <1>2, WalkOfTail
<1>4. PICK d \in Turn0 : c = On(d)
  BY DEF Steady
<1>5. HasStart(Tail(s)) => HasStart(s)
  <2> DEFINE l == Tail(s)
  <2>1. \A i \in 1..Len(l) : l[i] = s[i + 1] /\ i + 1 \in 1..Len(s)
    BY TailTypes
  <2> HIDE DEF l
  <2>2. HasStart(l) => HasStart(s)
    BY <2>1 DEF HasStart
  <2> QED
    BY <2>2 DEF l
<1> HIDE DEF e
<1>6. Leads(g, e, z, n) /\ n \in Places
  BY <1>0, LeadsToPlace DEF Leads, NoticeKinds
<1>7. n.up = z.up /\ n.ready = z.ready
  BY <1>0, <1>2, EventFields DEF After, NoticeKinds, Places, Turn0
<1>8. e.kind = "buffering" => n = z
  BY DEF After
<1>9. ASSUME z.ready PROVE n.active = d
  <2>1. d = After(0, e, On(a)).active
    BY <1>2, <1>3, <1>4 DEF Leads
  <2>2. CASE e.kind = "started"
    <3>1. n = On(e.turn) /\ After(0, e, On(a)) = On(e.turn)
      BY <1>2, <1>9, <2>2 DEF After
    <3> QED
      BY <2>1, <3>1
  <2>3. CASE e.kind = "ended" /\ e.turn = a
    <3>1. n = On(0) /\ After(0, e, On(a)) = On(0)
      BY <1>1, <1>2, <1>9, <2>3 DEF After
    <3> QED
      BY <2>1, <3>1
  <2>4. CASE e.kind # "started" /\ ~(e.kind = "ended" /\ e.turn = a)
    <3>1. n = z /\ After(0, e, On(a)) = On(a)
      BY <1>0, <1>1, <1>2, <1>9, <2>4 DEF After, NoticeKinds
    <3> QED
      BY <1>1, <1>2, <1>9, <2>1, <3>1
  <2> QED
    BY <2>2, <2>3, <2>4
<1>10. Settled(n, Tail(s), r)
  BY <1>1, <1>3, <1>4, <1>5, <1>7, <1>9 DEF Settled
<1> QED
  BY <1>6, <1>7, <1>8, <1>10 DEF e

-----------------------------------------------------------------------------
(* The user and the reducer go along the path.                               *)

(* Where the chat stands when it is not loaded. *)
LEMMA UnloadedPlace ==
    /\ \A up \in BOOLEAN : Unloaded(up) \in Places
    /\ \A up : Unloaded(up).up = up /\ ~Unloaded(up).ready
<1>1. 0 \in Turn0
  BY DEF Turn0
<1> QED
  BY <1>1 DEF Unloaded, Places

(* A chat that is not loaded expects no more of the notices than another.    *)
LEMMA SettledUnloaded ==
    ASSUME NEW z, NEW up, NEW s, NEW r, Settled(z, s, r)
    PROVE  Settled(Unloaded(up), s, r)
  BY UnloadedPlace DEF Settled

(* The runtime is asked for: what comes before its answer leaves the chat    *)
(* unloaded.                                                                 *)
LEMMA AskedAnew ==
    ASSUME TypeInv, GenInv, UNCHANGED <<backend, connected, server, notes>>,
           tl' = [tl EXCEPT !.generation = @ + 1, !.ready = FALSE],
           events' \in Seq(OldEvents),
           NEW x \in Places, NEW y \in Places, NEW z \in Places, online' = x.up,
           Walk(Places, tl.generation, events', x, y),
           Walk(Places, tl.generation, backend.out, y, z),
           connected => z.up, connected \/ backend.at = "signal" \/ ~z.up,
           server.alive => Settled(z, notes, server.running)
    PROVE  PathInv'
<1> DEFINE g == tl.generation
           n == g + 1
<1>1. g \in Nat /\ tl'.generation = n /\ tl'.ready = FALSE
  BY DEF TypeInv, UiInv, Timelines
<1>2. \A e \in OldEvents : e.kind = "runtime" => e.generation # n
  BY <1>1, EventFields DEF OldEvents
<1>3. ASSUME NEW s \in Seq(OldEvents)
      PROVE  s \in Seq(Events) /\ \A i \in 1..Len(s) : s[i].kind = "runtime" => s[i].generation # n
  <2>1. \A i \in 1..Len(s) : s[i] \in OldEvents
    OBVIOUS
  <2>2. OldEvents \subseteq Events
    BY DEF OldEvents
  <2>3. s \in Seq(Events)
    BY <2>2, SeqGrows
  <2> HIDE DEF n
  <2> QED
    BY <1>2, <2>1, <2>3
<1>4. backend.out \in Seq(OldEvents)
  BY DEF GenInv
<1> HIDE DEF g, n
<1>5. Walk(Places, n, events', Unloaded(x.up), Unloaded(y.up))
  BY <1>3, WalkUnloaded DEF g
<1>6. Walk(Places, n, backend.out, Unloaded(y.up), Unloaded(z.up))
  BY <1>3, <1>4, WalkUnloaded DEF g
<1>7. Ui' = Unloaded(x.up)
  BY <1>1 DEF Ui, Unloaded
<1>8. /\ Unloaded(x.up) \in Places /\ Unloaded(y.up) \in Places /\ Unloaded(z.up) \in Places
      /\ Unloaded(z.up).up = z.up
  BY UnloadedPlace DEF Places
<1>9. server.alive => Settled(Unloaded(z.up), notes, server.running)
  BY SettledUnloaded
<1> QED
  BY <1>1, <1>5, <1>6, <1>7, <1>8, <1>9 DEF PathInv

(* What the reducer makes of an event is what the event leads to; or it asks *)
(* for the runtime anew.                                                     *)
LEMMA ReduceMoves ==
    ASSUME TypeInv, Reduce, Ui \in Places, NEW c, Leads(tl.generation, Said, Ui, c)
    PROVE  \/ tl'.generation = tl.generation /\ Ui' = c
           \/ /\ tl' = [tl EXCEPT !.generation = @ + 1, !.ready = FALSE]
              /\ online' = TRUE /\ c.up = TRUE
<1>0. /\ tl \in Timelines /\ online \in BOOLEAN /\ tl.ready \in BOOLEAN
      /\ tl.ready => online
  BY DEF TypeInv, UiInv, Timelines, Ui, Places
<1>1. /\ Ui.up = online /\ Ui.ready = tl.ready
      /\ tl.ready => Ui.active = tl.active
  BY DEF Ui
<1>2. ASSUME Said.kind \notin {"started", "ended", "runtime", "lost", "connected"},
             UNCHANGED online, tl'.ready = tl.ready, tl'.active = tl.active,
             tl'.generation = tl.generation
      PROVE  tl'.generation = tl.generation /\ Ui' = c
  BY <1>2 DEF Leads, After, Ui
<1>3. CASE ReduceStarted
  <2>1. Quiet(tl) \in Timelines /\ Quiet(tl).generation = tl.generation
        /\ Quiet(tl).ready = tl.ready
    BY <1>0 DEF Quiet, Timelines, NoBanner, Banners, Turn0
  <2>2. /\ tl'.generation = tl.generation /\ tl'.ready = tl.ready /\ tl'.active = Said.turn
        /\ online' = online /\ Said.kind = "started"
    BY <1>0, <1>3, <2>1 DEF ReduceStarted, Timeline, Timelines, NextIs, Said
  <2>3. c = IF tl.ready THEN On(Said.turn) ELSE Ui
    BY <1>1, <2>2 DEF Leads, After
  <2> QED
    BY <1>0, <2>2, <2>3 DEF Ui, On
<1>4. CASE ReduceEnded
  <2>1. /\ tl'.generation = tl.generation /\ tl'.ready = tl.ready
        /\ tl'.active = IF tl.active = Said.turn THEN 0 ELSE tl.active
        /\ online' = online /\ Said.kind = "ended"
    BY <1>0, <1>4 DEF ReduceEnded, Timeline, Same, Timelines, NextIs, Said
  <2>2. c = IF tl.ready /\ tl.active = Said.turn THEN On(0) ELSE Ui
    BY <1>1, <2>1 DEF Leads, After
  <2> QED
    BY <1>0, <2>1, <2>2 DEF Ui, On
<1>5. CASE ReduceRuntime
  <2>0. Said.kind = "runtime" /\ online' = online
    BY <1>5 DEF ReduceRuntime, Timeline, Same, NextIs, Said
  <2>1. CASE Said.generation # tl.generation
    <3>1. tl' = tl /\ c = Ui
      BY <1>5, <2>0, <2>1 DEF ReduceRuntime, Same, Leads, After
    <3> QED
      BY <2>0, <3>1 DEF Ui
  <2>2. CASE Said.generation = tl.generation
    <3> DEFINE loaded == [tl EXCEPT !.ready = TRUE, !.active = Said.turn,
                                    !.banner = IF @.turn = Said.turn THEN @ ELSE NoBanner]
    <3>1. tl' = loaded \/ tl' = [Quiet(loaded) EXCEPT !.stopping = FALSE]
      BY <1>5, <2>2 DEF ReduceRuntime, Timeline
    <3>2. /\ loaded.generation = tl.generation /\ loaded.ready = TRUE
          /\ loaded.active = Said.turn
      BY <1>0 DEF Timelines
    <3> HIDE DEF loaded
    <3>3. /\ Quiet(loaded).generation = loaded.generation /\ Quiet(loaded).ready = loaded.ready
          /\ Quiet(loaded).active = loaded.active
      BY DEF Quiet
    <3> DEFINE q == Quiet(loaded)
    <3> HIDE DEF q
    <3>4. LET l == [q EXCEPT !.stopping = FALSE]
          IN  l.generation = q.generation /\ l.ready = q.ready /\ l.active = q.active
      OBVIOUS
    <3>5. /\ tl'.generation = tl.generation /\ tl'.ready = TRUE /\ tl'.active = Said.turn
      BY <3>1, <3>2, <3>3, <3>4 DEF q
    <3>6. c = On(Said.turn) /\ online
      BY <1>1, <2>0, <2>2 DEF Leads, After
    <3> QED
      BY <2>0, <3>5, <3>6 DEF Ui, On
  <2> QED
    BY <2>1, <2>2
<1>6. CASE ReduceLost
  <2>1. /\ Said.kind = "lost" /\ tl'.generation = tl.generation /\ online' = FALSE
        /\ tl'.ready = FALSE
    BY <1>0, <1>6 DEF ReduceLost, Same, Timelines, NextIs, Said
  <2>2. c = Unloaded(FALSE)
    BY <2>1 DEF Leads, After
  <2> QED
    BY <2>1, <2>2 DEF Ui, Unloaded
<1>7. CASE ReduceConnected
  <2>1. Said.kind = "connected" /\ online' = TRUE
    BY <1>7 DEF ReduceConnected, NextIs, Said
  <2>2. c = Unloaded(TRUE) /\ ~online
    BY <1>1, <2>1 DEF Leads, After
  <2>3. CASE AskRuntime
    BY <2>1, <2>2, <2>3, UnloadedPlace DEF AskRuntime
  <2>4. CASE tl' = tl
    BY <1>0, <2>1, <2>2, <2>4 DEF Ui, Unloaded
  <2> QED
    BY <1>7, <2>3, <2>4 DEF ReduceConnected
<1>8. CASE ReduceSpoke
  <2>1. Quiet(tl) \in Timelines /\ Quiet(tl).generation = tl.generation
        /\ Quiet(tl).ready = tl.ready /\ Quiet(tl).active = tl.active
    BY <1>0 DEF Quiet, Timelines, NoBanner, Banners, Turn0
  <2>2. /\ tl'.generation = tl.generation /\ tl'.ready = tl.ready /\ tl'.active = tl.active
        /\ online' = online /\ Said.kind = "spoke"
    BY <1>0, <1>8, <2>1 DEF ReduceSpoke, Timeline, Timelines, NextIs, Said
  <2> QED
    BY <1>2, <2>2
<1>9. CASE ReduceRecorded \/ ReduceSteered \/ ReduceStopFailed \/ ReduceBuffering
  <2>1. /\ tl'.generation = tl.generation /\ tl'.ready = tl.ready /\ tl'.active = tl.active
        /\ online' = online /\ Said.kind \in {"recorded", "steered", "stopFailed", "buffering"}
    BY <1>0, <1>9
    DEF ReduceRecorded, ReduceSteered, ReduceStopFailed, ReduceBuffering, Timeline, Same,
        Timelines, NextIs, Said
  <2> QED
    BY <1>2, <2>1
<1>10. CASE ReduceSubmissionFailed \/ ReduceRetryFailed \/ ReduceCreated
  <2>1. /\ tl'.generation = tl.generation /\ tl'.ready = tl.ready /\ tl'.active = tl.active
        /\ online' = online /\ Said.kind \in {"submissionFailed", "retryFailed", "created"}
    BY <1>0, <1>10
    DEF ReduceSubmissionFailed, ReduceRetryFailed, ReduceCreated, Timelines, NextIs, Said
  <2> QED
    BY <1>2, <2>1
<1> QED
  BY <1>3, <1>4, <1>5, <1>6, <1>7, <1>8, <1>9, <1>10 DEF Reduce

(* The reducer goes one event along the path. *)
LEMMA ReducePath == TypeInv /\ GenInv /\ PathInv /\ Reduce => PathInv'
<1> SUFFICES ASSUME TypeInv, GenInv, PathInv, Reduce, "missed" \notin holes' PROVE PathInv'
  BY DEF PathInv
<1>0. /\ events # <<>> /\ events' = Tail(events) /\ "missed" \notin holes
      /\ UNCHANGED <<backend, connected, server, notes>>
  <2>1. /\ events # <<>> /\ events' = Tail(events)
        /\ UNCHANGED <<backend, connected, serverVars>>
    BY DEF Reduce, ReduceStarted, ReduceRecorded, ReduceSteered, ReduceEnded, ReduceStopFailed,
      ReduceBuffering, ReduceSpoke, ReduceRuntime, ReduceSubmissionFailed, ReduceRetryFailed,
      ReduceCreated, ReduceLost, ReduceConnected, NextIs
  <2> QED
    BY <2>1, HolesStay DEF serverVars
<1>1. events \in Seq(OldEvents) /\ events \in Seq(Events) /\ events' \in Seq(OldEvents)
  BY <1>0, TailTypes DEF GenInv, TypeInv, EventsInv
<1>2. PICK y \in Places, z \in Places :
         /\ Walk(Places, tl.generation, events, Ui, y)
         /\ Walk(Places, tl.generation, backend.out, y, z)
         /\ connected => z.up
         /\ connected \/ backend.at = "signal" \/ ~z.up
         /\ server.alive => Settled(z, notes, server.running)
  BY <1>0 DEF PathInv
<1>3. Ui \in Places
  BY <1>0 DEF PathInv
<1>4. PICK c \in Places : /\ Leads(tl.generation, Said, Ui, c)
                          /\ Walk(Places, tl.generation, events', c, y)
  BY <1>0, <1>1, <1>2, <1>3, WalkOfTail DEF Said
<1>5. CASE tl'.generation = tl.generation /\ Ui' = c
  BY <1>0, <1>2, <1>4, <1>5 DEF PathInv
<1>6. CASE /\ tl' = [tl EXCEPT !.generation = @ + 1, !.ready = FALSE]
           /\ online' = TRUE /\ c.up = TRUE
  BY <1>0, <1>1, <1>2, <1>4, <1>6, AskedAnew
<1> QED
  BY <1>3, <1>4, <1>5, <1>6, ReduceMoves

(* What the user does leaves the path alone, or asks for the runtime anew.   *)
LEMMA UserPath == TypeInv /\ GenInv /\ PathInv /\ User => PathInv'
<1> SUFFICES ASSUME TypeInv, GenInv, PathInv, User PROVE PathInv'
  OBVIOUS
<1>0. /\ UNCHANGED <<online, events, backend, connected, server, notes>>
      /\ "missed" \in holes => "missed" \in holes'
  <2>1. UNCHANGED <<online, events, backend, connected, serverVars>>
    BY DEF User, Type, Submit, Stop, Retry, DismissBanner, Select, notUser
  <2> QED
    BY <2>1, HolesStay DEF serverVars
<1>1. CASE tl' = [tl EXCEPT !.generation = @ + 1, !.ready = FALSE]
  <2>1. CASE "missed" \in holes
    BY <1>0, <2>1 DEF PathInv
  <2>2. CASE "missed" \notin holes
    <3>1. PICK y \in Places, z \in Places :
             /\ Walk(Places, tl.generation, events, Ui, y)
             /\ Walk(Places, tl.generation, backend.out, y, z)
             /\ connected => z.up
             /\ connected \/ backend.at = "signal" \/ ~z.up
             /\ server.alive => Settled(z, notes, server.running)
      BY <2>2 DEF PathInv
    <3>2. Ui \in Places /\ Ui.up = online /\ events' \in Seq(OldEvents)
      BY <1>0, <2>2 DEF PathInv, Ui, GenInv
    <3> QED
      BY <1>0, <1>1, <3>1, <3>2, AskedAnew
  <2> QED
    BY <2>1, <2>2
<1>2. CASE ~AskRuntime
  <2>1. tl'.ready = tl.ready /\ tl'.active = tl.active /\ tl'.generation = tl.generation
    BY <1>2
    DEF User, Type, Submit, Stop, Retry, DismissBanner, Select, TypeInv, UiInv, Timelines
  <2> QED
    BY <1>0, <2>1, PathStays
<1> QED
  BY <1>1, <1>2 DEF AskRuntime

-----------------------------------------------------------------------------
(* The backend goes on with it.                                              *)

(* Between two commands the path has no answers. *)
LEMMA PathSoFar ==
    ASSUME OutInv, PathInv, "missed" \notin holes, backend.at # "emit"
    PROVE  /\ Ui \in Places
           /\ \E z \in Places : /\ Walk(Places, tl.generation, events, Ui, z)
                                /\ connected => z.up
                                /\ connected \/ backend.at = "signal" \/ ~z.up
                                /\ server.alive => Settled(z, notes, server.running)
<1>1. PICK y \in Places, z \in Places :
         /\ Walk(Places, tl.generation, events, Ui, y)
         /\ Walk(Places, tl.generation, <<>>, y, z)
         /\ connected => z.up
         /\ connected \/ backend.at = "signal" \/ ~z.up
         /\ server.alive => Settled(z, notes, server.running)
  BY DEF PathInv, OutInv
<1>2. y = z
  BY <1>1, WalkOfNone
<1> QED
  BY <1>1, <1>2 DEF PathInv

(* The path goes on with what is answered. *)
LEMMA PathGoesOn ==
    ASSUME UNCHANGED <<tl, online>>, Ui \in Places, NEW y \in Places, NEW z \in Places,
           Walk(Places, tl.generation, events', Ui, y),
           Walk(Places, tl.generation, backend'.out, y, z),
           connected' => z.up, connected' \/ backend'.at = "signal" \/ ~z.up,
           server'.alive => Settled(z, notes', server'.running)
    PROVE  PathInv'
<1>1. Ui' = Ui
  BY DEF Ui
<1> QED
  BY <1>1 DEF PathInv

(* An answer that says nothing of the turns leads nowhere else. *)
LEMMA PlainLeads ==
    ASSUME NEW g, NEW out, NEW z \in Places, Plainly(out)
    PROVE  Walk(Places, g, out, z, z)
<1>1. PICK e \in Answers : out = <<>> \/ out = <<e>>
  BY DEF Plainly
<1>2. e \in Events /\ Leads(g, e, z, z)
  BY DEF Answers, Leads, After
<1>3. Walk(Places, g, <<>>, z, z)
  BY WalkOfNone
<1>4. Walk(Places, g, <<e>>, z, z)
  BY <1>2, WalkOfTwo
<1> QED
  BY <1>1, <1>3, <1>4

(* The requests that start no turn and do not ask for the runtime. *)
LEMMA PlainPath ==
    ASSUME TypeInv, OutInv, LinkInv, PathInv, "missed" \notin holes,
           Take \/ RunSteer \/ RunStop \/ RetryInterrupt \/ RetryCheck \/ RetryFork \/ RetryRestart
    PROVE  PathInv'
<1>1. /\ UNCHANGED <<tl, online, events, notes, connected>> /\ server'.alive = server.alive
      /\ server'.running = server.running
  <2>1. Backend /\ ~RunStart /\ ~Reconnect
    BY DEF Backend, Take, RunSteer, RunStop, RetryInterrupt, RetryCheck, RetryFork, RetryRestart,
           RunStart, Reconnect, Asks
  <2>2. UNCHANGED <<tl, online, events>>
    BY DEF Take, RunSteer, RunStop, RetryInterrupt, RetryCheck, RetryFork, RetryRestart, Asks,
           notBackend, uiVars
  <2> QED
    BY <2>1, <2>2, OthersRunNone
<1>2. backend.at # "emit" /\ Plainly(backend'.out)
  BY PlainAnswers
<1>3. backend.at # "signal"
  BY DEF Take, RunSteer, RunStop, RetryInterrupt, RetryCheck, RetryFork, RetryRestart, Asks
<1>4. PICK z \in Places : /\ Ui \in Places
                          /\ Walk(Places, tl.generation, events, Ui, z)
                          /\ connected => z.up
                          /\ connected \/ backend.at = "signal" \/ ~z.up
                          /\ server.alive => Settled(z, notes, server.running)
  BY <1>2, PathSoFar
<1>5. Walk(Places, tl.generation, backend'.out, z, z)
  BY <1>2, PlainLeads
<1> QED
  BY <1>1, <1>3, <1>4, <1>5, PathGoesOn

(* A turn that starts: its notice is behind its answer. *)
LEMMA StartPath ==
    ASSUME TypeInv, OutInv, LinkInv, LiveInv, PathInv, "missed" \notin holes, RunStart
    PROVE  PathInv'
<1>0. /\ UNCHANGED <<tl, online, events, connected>> /\ backend.at = "start" /\ connected
      /\ tl.generation \in Nat /\ notes \in Seq(Events) /\ server.running \in Turn0
  BY DEF RunStart, Asks, notBackend, uiVars, LinkInv, TypeInv, UiInv, Timelines, ServerInv
<1>1. PICK z \in Places : /\ Ui \in Places
                          /\ Walk(Places, tl.generation, events, Ui, z)
                          /\ connected => z.up
                          /\ server.alive => Settled(z, notes, server.running)
  BY <1>0, PathSoFar
<1> DEFINE t == server.turns + 1
           e == Note("started", t)
<1>2. ASSUME ~UNCHANGED serverVars
      PROVE  /\ server.alive /\ server'.running = t /\ notes' = Append(notes, e) /\ t \in Turn0
             /\ e \in Events /\ e.kind = "started" /\ e.turn = t
             /\ Settled(z, Append(notes, e), t)
  <2>1. /\ server.alive /\ server'.running = t /\ notes' = Append(notes, e) /\ t \in Turns
    BY <1>2, StartRuns
  <2>2. t \in Turn0 /\ e.kind = "started" /\ e.turn = t
    BY <2>1 DEF Turn0, Note
  <2>3. e \in Events
    BY <2>2, NoteTypes
  <2> HIDE DEF e, t
  <2>4. Settled(z, Append(notes, e), t)
    BY <1>0, <1>1, <2>1, <2>2, <2>3, SettledGoesOn
  <2> QED
    BY <2>1, <2>2, <2>3, <2>4
<1>3. CASE Plainly(backend'.out)
  <2>1. Walk(Places, tl.generation, backend'.out, z, z)
    BY <1>3, PlainLeads
  <2>2. server'.alive => Settled(z, notes', server'.running)
    <3>1. CASE UNCHANGED serverVars
      BY <1>1, <3>1 DEF serverVars
    <3>2. CASE ~UNCHANGED serverVars
      BY <1>2, <3>2
    <3> QED
      BY <3>1, <3>2
  <2> QED
    BY <1>0, <1>1, <2>1, <2>2, PathGoesOn
<1>4. ASSUME NEW m \in Batch, ~UNCHANGED serverVars, server.turns + 1 \in Turns,
             backend'.out = <<Note("started", server.turns + 1), Recorded(server.turns + 1, m)>>
      PROVE  PathInv'
  <2> DEFINE f == Recorded(t, m)
             n == IF z.ready THEN On(t) ELSE z
  <2>1. /\ backend'.out = <<e, f>> /\ t \in Turn0 /\ f.kind = "recorded"
        /\ e \in Events /\ e.kind = "started" /\ e.turn = t
    BY <1>2, <1>4 DEF Recorded
  <2>2. f \in Events
    BY <2>1, NoteTypes
  <2>3. \A i \in 1..Len(notes) : /\ notes[i].kind \in NoticeKinds
                                 /\ notes[i].kind = "ended" => notes[i].turn \notin {0, t}
    <3>1. \A i \in 1..Len(notes) : notes[i] \in Notices
      BY DEF LiveInv
    <3>2. server.turns \in Nat /\ server.alive
      BY <1>2, <1>4 DEF TypeInv, ServerInv, Turn0, Turns
    <3>3. \A k \in 1..server.turns : k \notin {0, t}
      BY <3>2
    <3> HIDE DEF t
    <3> QED
      BY <3>1, <3>2, <3>3 DEF Notices
  <2>4. Settled(z, notes, server.running) /\ Settled(z, Append(notes, e), t)
    BY <1>1, <1>2, <1>4
  <2>5. /\ notes' = Append(notes, e) /\ server'.running = t
    BY <1>2, <1>4
  <2> HIDE DEF e, f, t
  <2>6. Leads(tl.generation, e, z, n) /\ Leads(tl.generation, f, n, n)
    BY <2>1 DEF Leads, After
  <2> HIDE DEF n
  <2>7. n \in Places /\ Walk(Places, tl.generation, <<e, f>>, z, n)
    BY <2>1, <2>2, <2>6, WalkOfTwo
  <2>8. n.up
    BY <1>0, <1>1 DEF n, On
  <2>9. Settled(n, Append(notes, e), t)
    <3>1. CASE ~z.ready
      BY <2>4, <3>1 DEF n
    <3>2. CASE z.ready
      <4>1. PICK c \in Turn0 : Walk(Steady, 0, notes, On(t), On(c))
        BY <1>0, <2>1, <2>3, <2>4, SettledAnew
      <4>2. On(t) \in Steady /\ On(c) \in Steady
        BY <2>1 DEF Steady
      <4>3. Walk(Steady, 0, Append(notes, e), On(t), On(t))
        BY <1>0, <2>1, <4>1, <4>2, Moved, WalkOfMore
      <4>4. n.active = t
        BY <3>2 DEF n, On
      <4> QED
        BY <2>1, <4>3, <4>4 DEF Settled
    <3> QED
      BY <3>1, <3>2
  <2> QED
    BY <1>0, <1>1, <2>1, <2>5, <2>7, <2>8, <2>9, PathGoesOn
<1> QED
  BY <1>3, <1>4, StartAnswers

(* The answer to the latest request for the runtime tells the turn that runs. *)
LEMMA ResumePath ==
    ASSUME TypeInv, OutInv, LinkInv, LiveInv, PathInv, "missed" \notin holes, RunResume
    PROVE  PathInv'
<1>0. /\ UNCHANGED <<tl, online, events, connected, server, notes>>
      /\ backend.at = "resume" /\ connected /\ notes \in Seq(Events) /\ server.running \in Turn0
  BY DEF RunResume, Asks, notBackend, uiVars, serverVars, LinkInv, TypeInv, ServerInv
<1>1. PICK z \in Places : /\ Ui \in Places
                          /\ Walk(Places, tl.generation, events, Ui, z)
                          /\ connected => z.up
                          /\ server.alive => Settled(z, notes, server.running)
  BY <1>0, PathSoFar
<1>2. CASE Done
  <2>1. backend'.out = <<>>
    BY <1>2 DEF Done, Idle
  <2>2. Walk(Places, tl.generation, backend'.out, z, z)
    BY <2>1, WalkOfNone
  <2> QED
    BY <1>0, <1>1, <2>2, PathGoesOn
<1>3. CASE ~Done
  <2> DEFINE r == server.running
             e == Runtime(r, Cmd.draft)
             n == IF Cmd.draft = tl.generation THEN On(r) ELSE z
  <2>1. server.alive /\ backend'.out = <<e>>
    BY <1>3 DEF RunResume, Reply, Idle
  <2>2. Cmd.draft \in Nat
    BY CmdTypes DEF TypeInv, Commands
  <2>3. e \in Events /\ e.kind = "runtime" /\ e.turn = r /\ e.generation = Cmd.draft
    BY <1>0, <2>2, NoteTypes DEF Runtime
  <2>4. \A i \in 1..Len(notes) : /\ notes[i].kind \in NoticeKinds
                                 /\ notes[i].kind = "ended" => notes[i].turn \notin {0, r}
    <3>1. \A i \in 1..Len(notes) : notes[i] \in Notices
      BY DEF LiveInv
    <3>2. \A k \in 1..server.turns : k # 0
      OBVIOUS
    <3> QED
      BY <2>1, <3>1, <3>2 DEF Notices
  <2> HIDE DEF e, r
  <2>5. Leads(tl.generation, e, z, n)
    BY <1>0, <1>1, <2>3 DEF Leads, After
  <2>6. n \in Places /\ Walk(Places, tl.generation, <<e>>, z, n)
    BY <2>3, <2>5, WalkOfTwo
  <2>7. n.up
    BY <1>0, <1>1 DEF On
  <2>8. Settled(n, notes, r)
    <3>1. Settled(z, notes, r)
      BY <1>1, <2>1 DEF r
    <3>2. CASE Cmd.draft # tl.generation
      BY <3>1, <3>2
    <3>3. CASE Cmd.draft = tl.generation
      <4>0. r \in Turn0
        BY <1>0 DEF r
      <4>1. PICK c \in Turn0 : /\ Walk(Steady, 0, notes, On(r), On(c))
                               /\ HasStart(notes) => c = r
                               /\ ~HasStart(notes) => c = r
        BY <1>0, <2>4, <3>1, <4>0, SettledAnew
      <4>2. n.active = r
        BY <3>3 DEF On
      <4> QED
        BY <4>0, <4>1, <4>2 DEF Settled
    <3> QED
      BY <3>2, <3>3
  <2> HIDE DEF n
  <2> QED
    BY <1>0, <1>1, <2>1, <2>6, <2>7, <2>8, PathGoesOn DEF r
<1> QED
  BY <1>2, <1>3

(* The loss and the return of the connection. *)
LEMMA LinkPath ==
    ASSUME TypeInv, OutInv, LinkInv, LiveInv, PathInv, "missed" \notin holes,
           TakeOffline \/ Reconnect \/ Signal
    PROVE  PathInv'
<1>0. /\ UNCHANGED <<tl, online, notes>> /\ ~connected /\ backend.at # "emit"
      /\ events \in Seq(Events) /\ ~server.alive /\ notes = <<>>
  BY DEF TakeOffline, Reconnect, Signal, notBackend, uiVars, serverVars, TypeInv, EventsInv,
         LinkInv, LiveInv
<1>1. PICK z \in Places : /\ Ui \in Places
                          /\ Walk(Places, tl.generation, events, Ui, z)
                          /\ connected \/ backend.at = "signal" \/ ~z.up
  BY <1>0, PathSoFar
<1> DEFINE l == Note("lost", 0)
           c == Note("connected", 0)
<1>2. /\ l \in Events /\ l.kind = "lost" /\ c \in Events /\ c.kind = "connected"
  BY NoteTypes DEF Turn0, Note
<1>3. /\ Unloaded(FALSE) \in Places /\ Unloaded(TRUE) \in Places /\ ~Unloaded(FALSE).up
      /\ Unloaded(TRUE).up /\ ~Unloaded(TRUE).ready
  BY UnloadedPlace
<1>4. CASE TakeOffline
  <2>1. /\ backend'.out = <<l>> /\ events' = events /\ connected' = connected
        /\ server'.alive = server.alive
    BY <1>4 DEF TakeOffline, Reply, Idle, serverVars
  <2> HIDE DEF l
  <2>2. Leads(tl.generation, l, z, Unloaded(FALSE))
    BY <1>2 DEF Leads, After
  <2>3. Walk(Places, tl.generation, <<l>>, z, Unloaded(FALSE))
    BY <1>2, <2>2, WalkOfTwo
  <2> QED
    BY <1>0, <1>1, <1>3, <2>1, <2>3, PathGoesOn
<1>5. CASE Reconnect
  <2>1. /\ backend'.out = <<c>> /\ events' = events /\ connected' = TRUE /\ ~z.up
    BY <1>0, <1>1, <1>5 DEF Reconnect, Reply, Idle
  <2> HIDE DEF c
  <2>2. Leads(tl.generation, c, z, Unloaded(TRUE))
    BY <1>2, <2>1 DEF Leads, After
  <2>3. Walk(Places, tl.generation, <<c>>, z, Unloaded(TRUE))
    BY <1>2, <2>2, WalkOfTwo
  <2>4. Settled(Unloaded(TRUE), <<>>, server'.running)
    <3>1. On(0) \in Steady /\ 0 \in Turn0
      BY DEF Steady, Turn0
    <3>2. Walk(Steady, 0, <<>>, On(0), On(0))
      BY <3>1, WalkOfNone
    <3>3. ~HasStart(<<>>)
      BY DEF HasStart
    <3> QED
      BY <1>3, <3>1, <3>2, <3>3 DEF Settled
  <2> QED
    BY <1>0, <1>1, <1>3, <2>1, <2>3, <2>4, PathGoesOn
<1>6. CASE Signal
  <2>1. /\ backend'.out = <<>> /\ events' = Append(events, l) /\ connected' = connected
        /\ server'.alive = server.alive
    BY <1>6 DEF Signal, Done, Idle, serverVars
  <2> HIDE DEF l
  <2>2. Leads(tl.generation, l, z, Unloaded(FALSE))
    BY <1>2 DEF Leads, After
  <2>3. Walk(Places, tl.generation, events', Ui, Unloaded(FALSE))
    BY <1>0, <1>1, <1>2, <1>3, <2>1, <2>2, WalkOfMore
  <2>4. Walk(Places, tl.generation, <<>>, Unloaded(FALSE), Unloaded(FALSE))
    BY <1>3, WalkOfNone
  <2> QED
    BY <1>0, <1>1, <1>3, <2>1, <2>3, <2>4, PathGoesOn
<1> QED
  BY <1>4, <1>5, <1>6

(* What is emitted goes from the answers to the events. *)
LEMMA EmitPath ==
    ASSUME TypeInv, PathInv, "missed" \notin holes', Emit
    PROVE  PathInv'
<1> DEFINE e == Head(backend.out)
<1>0. /\ backend \in [at : {"idle", "check", "fork", "restart", "emit", "signal"} \cup Kinds,
                      cmd : Commands, cached : BOOLEAN, out : Seq(Events),
                      then : {"idle", "restart"}]
      /\ backend.out # <<>> /\ events \in Seq(Events) /\ backend.out \in Seq(Events)
      /\ UNCHANGED <<tl, online, connected, server, notes>> /\ backend.at = "emit"
  BY DEF TypeInv, BackendInv, AtInv, EventsInv, Emit, notBackend, uiVars, serverVars
<1>1. events' = Append(events, e) /\ holes' = holes
  BY DEF Emit, Hole
<1>2. backend'.out = Tail(backend.out)
  <2>1. CASE Len(backend.out) > 1
    <3>1. backend' = [backend EXCEPT !.out = Tail(@)]
      BY <2>1 DEF Emit
    <3> QED
      BY <1>0, <3>1
  <2>2. CASE ~(Len(backend.out) > 1)
    <3>1. backend'.out = <<>>
      BY <1>0, <2>2 DEF Emit
    <3>2. Tail(backend.out) = <<>>
      BY <1>0, <2>2
    <3> QED
      BY <3>1, <3>2
  <2> QED
    BY <2>1, <2>2
<1>3. e \in Events
  BY <1>0, TailTypes
<1>4. PICK y \in Places, z \in Places :
         /\ Ui \in Places
         /\ Walk(Places, tl.generation, events, Ui, y)
         /\ Walk(Places, tl.generation, backend.out, y, z)
         /\ connected => z.up
         /\ connected \/ backend.at = "signal" \/ ~z.up
         /\ server.alive => Settled(z, notes, server.running)
  BY <1>1 DEF PathInv
<1>5. PICK c \in Places : /\ Leads(tl.generation, e, y, c)
                          /\ Walk(Places, tl.generation, Tail(backend.out), c, z)
  BY <1>0, <1>4, WalkOfTail
<1> HIDE DEF e
<1>6. Walk(Places, tl.generation, events', Ui, c)
  BY <1>0, <1>1, <1>3, <1>4, <1>5, WalkOfMore
<1>7. connected \/ ~z.up
  BY <1>0, <1>4
<1> QED
  BY <1>0, <1>2, <1>4, <1>5, <1>6, <1>7, PathGoesOn

(* A notice is forwarded, dropped, or costs the connection. *)
LEMMA DrainPath ==
    ASSUME TypeInv, OutInv, LiveInv, PathInv, "missed" \notin holes, Drain
    PROVE  PathInv'
<1> DEFINE e == Head(notes)
           g == tl.generation
<1>0. /\ UNCHANGED <<tl, online, holes>> /\ connected /\ backend.at = "idle" /\ notes # <<>>
      /\ backend.out = <<>> /\ events \in Seq(Events) /\ notes \in Seq(Events)
      /\ backend'.out = <<>> /\ server.running \in Turn0
  BY DEF Drain, Lose, Goto, notBackend, uiVars, OutInv, TypeInv, EventsInv, BackendInv, AtInv,
         ServerInv
<1>1. PICK z \in Places : /\ Ui \in Places
                          /\ Walk(Places, g, events, Ui, z)
                          /\ connected => z.up
                          /\ server.alive => Settled(z, notes, server.running)
  BY <1>0, PathSoFar
<1>2. e \in Notices /\ e \in Events
  BY <1>0, TailTypes DEF LiveInv
<1>3. ASSUME NEW w \in Places PROVE Walk(Places, g, backend'.out, w, w)
  <2>1. Walk(Places, g, <<>>, w, w)
    BY WalkOfNone
  <2> QED
    BY <1>0, <2>1
<1>4. CASE Lose
  <2>1. events' = events /\ connected' = FALSE /\ server'.alive = FALSE /\ backend'.at = "signal"
    BY <1>4 DEF Lose, Goto, TypeInv, ServerInv, BackendInv, AtInv
  <2> QED
    BY <1>0, <1>1, <1>3, <2>1, PathGoesOn
<1>5. CASE ~Lose
  <2>1. /\ e.kind # "lost" /\ UNCHANGED <<server, connected>> /\ notes' = Tail(notes)
        /\ events' = Append(events, e) \/ (events' = events /\ e.kind = "buffering")
    BY <1>5 DEF Drain
  <2>2. e.kind \in NoticeKinds
    BY <1>2, <2>1 DEF Notices
  <2> DEFINE n == After(g, e, z)
  <2>3. server.alive => Settled(n, Tail(notes), server.running)
    BY <1>0, <1>1, <2>2, SettledOfTail
  <2>4. e.kind = "buffering" => n = z
    BY DEF After
  <2>5. n \in Places /\ Leads(g, e, z, n)
    BY <1>2, <2>2, LeadsToPlace DEF Leads, NoticeKinds
  <2>6. n.up
    BY <1>0, <1>1, <2>2 DEF After, NoticeKinds, On
  <2> HIDE DEF e, n
  <2>7. Walk(Places, g, events', Ui, n)
    <3>1. CASE events' = Append(events, e)
      BY <1>0, <1>1, <1>2, <2>5, <3>1, WalkOfMore DEF e
    <3>2. CASE events' = events /\ e.kind = "buffering"
      BY <1>1, <2>4, <3>2
    <3> QED
      BY <2>1, <3>1, <3>2
  <2> HIDE DEF g
  <2>8. server'.alive => Settled(n, notes', server'.running)
    BY <2>1, <2>3
  <2>9. Walk(Places, g, backend'.out, n, n) /\ connected' /\ Ui \in Places
    BY <1>0, <1>1, <1>3, <2>1, <2>5
  <2>10. UNCHANGED <<tl, online>> /\ n \in Places /\ n.up
    BY <1>0, <2>5, <2>6
  <2> QED
    BY <2>7, <2>8, <2>9, <2>10, PathGoesOn DEF g
<1> QED
  BY <1>4, <1>5

(* What the app-server does. *)
LEMMA ServerPath ==
    ASSUME TypeInv, PathInv, "missed" \notin holes, Server
    PROVE  PathInv'
<1>0. /\ UNCHANGED <<tl, online, events, backend, connected, holes>>
      /\ notes \in Seq(Events) /\ server.running \in Turn0
      /\ server \in [alive : BOOLEAN, running : Turn0, turns : Turn0, halting : BOOLEAN,
                     spoke : BOOLEAN]
  BY DEF Server, Speak, Buffer, Finish, Die, notServer, uiVars, TypeInv, ServerInv
<1>1. PICK y \in Places, z \in Places :
         /\ Ui \in Places
         /\ Walk(Places, tl.generation, events, Ui, y)
         /\ Walk(Places, tl.generation, backend.out, y, z)
         /\ connected => z.up
         /\ connected \/ backend.at = "signal" \/ ~z.up
         /\ server.alive => Settled(z, notes, server.running)
  BY DEF PathInv
<1>2. ASSUME NEW e \in Events, NEW q \in Turn0, notes' = Append(notes, e), server'.running = q,
             \/ e.kind = "ended" /\ e.turn = server.running /\ q = 0
             \/ e.kind \in {"spoke", "buffering"} /\ q = server.running,
             server.alive
      PROVE  Settled(z, notes', server'.running)
  BY <1>0, <1>1, <1>2, SettledGoesOn
<1>3. server'.alive => Settled(z, notes', server'.running)
  <2>1. CASE Speak \/ Buffer
    <3>1. server'.alive = server.alive /\ server'.running = server.running /\ server.running # 0
      BY <1>0, <2>1 DEF Speak, Buffer
    <3>2. PICK e \in Events : notes' = Append(notes, e) /\ e.kind \in {"spoke", "buffering"}
      BY <1>0, <2>1, NoteTypes DEF Speak, Buffer, Says, Note, Buffering
    <3> QED
      BY <1>0, <1>2, <3>1, <3>2
  <2>2. CASE Finish
    <3> DEFINE e == Note("ended", server.running)
    <3>1. server'.alive = server.alive /\ server'.running = 0 /\ notes' = Append(notes, e)
      BY <1>0, <2>2 DEF Finish, Says
    <3>2. e \in Events /\ e.kind = "ended" /\ e.turn = server.running /\ 0 \in Turn0
      BY <1>0, NoteTypes DEF Note, Turn0
    <3> HIDE DEF e
    <3> QED
      BY <1>2, <3>1, <3>2
  <2>3. CASE Die
    BY <1>0, <2>3 DEF Die
  <2> QED
    BY <2>1, <2>2, <2>3 DEF Server
<1> QED
  BY <1>0, <1>1, <1>3, PathGoesOn

(* Every step keeps to the path. *)
LEMMA StepPath ==
    TypeInv /\ OutInv /\ LinkInv /\ LiveInv /\ GenInv /\ PathInv /\ [Next]_vars => PathInv'
<1> SUFFICES ASSUME TypeInv, OutInv, LinkInv, LiveInv, GenInv, PathInv, [Next]_vars,
                    "missed" \notin holes'
             PROVE  PathInv'
  BY DEF PathInv
<1>0. "missed" \notin holes
  BY MissedStays
<1>1. CASE Rest \/ UNCHANGED vars
  <2>1. UNCHANGED <<tl, online, events, backend, connected, server, notes>>
    BY <1>1 DEF Rest, vars, uiVars, serverVars
  <2> QED
    BY <1>0, <2>1, PathStays
<1>2. CASE Backend
  BY <1>0, <1>2, PlainPath, StartPath, ResumePath, LinkPath, EmitPath DEF Backend
<1> QED
  BY <1>0, <1>1, <1>2, UserPath, ReducePath, DrainPath, ServerPath DEF Next

(* All that the turn that is shown rests on.                                 *)
AgreeInv ==
    /\ TypeInv /\ OutInv /\ HistInv /\ TurnsInv
    /\ LinkInv /\ LiveInv /\ GenInv /\ PathInv

(* When all that was said has been read, the chat shows the turn that runs,  *)
(* in whatever order answers, notices and reconnections came                 *)
(* (lib.rs:10005, backend.rs:6817).                                         *)
THEOREM AgreementHolds == Spec => []UiAgrees
<1>1. Init => AgreeInv
  BY InitTypes, InitQuiet, InitForks, InitPath DEF AgreeInv
<1>2. AgreeInv /\ [Next]_vars => AgreeInv'
  BY StepTypes, StepQuiet, StepHistory, StepTurns, StepLink, StepLive, StepGen, StepPath
  DEF AgreeInv
<1>3. AgreeInv => UiAgrees
  BY PathSuffices DEF AgreeInv
<1> QED
  BY <1>1, <1>2, <1>3, PTL DEF Spec
=============================================================================
