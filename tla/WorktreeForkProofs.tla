------------------------- MODULE WorktreeForkProofs -------------------------
(***************************************************************************)
(* Theorems of WorktreeFork: types, ForkIsReal and the refinement of       *)
(* WorktreeHandoff.                                                        *)
(*                                                                         *)
(* A fork is made, and its chat opened, by one job that is handed from the *)
(* command queue to the backend, to its Git worker and, as a message, back *)
(* to the reducer.  The argument is that there is never more than one job, *)
(* that it is of the fork in hand and fits the phase of that fork, and     *)
(* that it is ahead of a cancellation of the same fork all the way.        *)
(***************************************************************************)
EXTENDS WorktreeFork, TLAPS

CommandKinds == {"fork", "cancel", "start", "other"}
CommandSet == [kind : CommandKinds, fork : {0} \cup Forks]
MessageSet == [kind : MessageKinds, fork : {0} \cup Forks, worker : {0} \cup Workers]
WorkerStates == {"none", "probing", "building", "cleaning", "ready", "failed", "ending", "gone"}
WorkerSet == [fork : {0} \cup Forks, at : WorkerStates, cancelled : BOOLEAN]
BackendSet == [at : {"idle", "join", "cancel", "ask", "emit", "stopping", "stopped"},
               fork : {0} \cup Forks, out : Seq(MessageSet)]

(* The values of the variables. *)
UiTypes ==
    /\ active \in [id : {0} \cup Forks, phase : Phases, root : {0} \cup Workers]
    /\ queue \in Seq(Forks) /\ Len(queue) + 1 <= MaxPendingForks
    /\ requested \in 0..MaxForks
    /\ commands \in Seq(CommandSet) /\ Len(commands) <= CommandCapacity
BackendTypes ==
    /\ events \in Seq(MessageSet) /\ Len(events) <= EventCapacity
    /\ backend \in BackendSet /\ (backend.at = "emit" <=> backend.out # <<>>)
    /\ runtime \in {0} \cup Workers
    /\ worker \in [Workers -> WorkerSet]
    /\ disk \in [Workers -> [fork : {0} \cup Forks, is : {"nothing", "partial", "whole"}]]
    /\ missed \in BOOLEAN /\ quitting \in BOOLEAN

Types == UiTypes /\ BackendTypes

(* The fork in hand and the queue behind it: in the order of the requests.   *)
Line ==
    /\ active.id = 0 <=> active.phase = "none"
    /\ active.root # 0 <=> active.phase \in {"starting", "failedStarting"}
    /\ active = NoFork => queue = <<>>
    /\ active.id <= requested
    /\ \A i \in DOMAIN queue : active.id < queue[i] /\ queue[i] <= requested
    /\ \A i, j \in DOMAIN queue : i < j => queue[i] < queue[j]

(* Only the worker the backend knows of is still there.                      *)
OneWorker == \A w \in Workers : w # runtime => worker[w].at \in {"none", "gone"}

(* Where the job is.                                                         *)
Jobs    == {"fork", "start"}
Results == {"ready", "creationFailed", "completed", "conversationFailed"}

Carries(s, kinds) == \E i \in DOMAIN s : s[i].kind \in kinds
Once(s, kinds) == \A i, j \in DOMAIN s : s[i].kind \in kinds /\ s[j].kind \in kinds => i = j

Reports(w) == worker[w].at \in {"probing", "building", "cleaning", "ready", "failed"}

Sent     == Carries(commands, Jobs)
InHand   == backend.at \in {"join", "ask"}
InGit    == \E w \in Workers : Reports(w)
Leaving  == Carries(backend.out, Results)
Arriving == Carries(events, Results)
Job      == Sent \/ InHand \/ InGit \/ Leaving \/ Arriving

OneJob ==
    /\ Once(commands, Jobs) /\ Once(backend.out, Results) /\ Once(events, Results)
    /\ Sent => ~InHand /\ ~InGit /\ ~Leaving /\ ~Arriving
    /\ InHand => ~InGit /\ ~Leaving /\ ~Arriving
    /\ InGit => ~Leaving /\ ~Arriving
    /\ Leaving => ~Arriving

(* The job is of the fork in hand and fits its phase; a cancellation is of a *)
(* fork that nothing will be made for again.                                 *)
CreatingKinds == {"fork", "ready", "creationFailed"}
OpeningKinds  == {"start", "completed", "conversationFailed"}
CancelKinds   == {"cancel", "cancelled"}

Begun(f)    == f \in 1..requested /\ ~Queued(f)
Creating(f) == active.id = f /\ active.phase \in {"creating", "cancelling"}
Opening(f)  == active.id = f /\ active.phase = "starting"
GivenUp(f)  == Begun(f) /\ (f = active.id => active.phase \notin {"creating", "failedCreating"})

Fits(m) ==
    /\ m.kind \in CreatingKinds => Creating(m.fork)
    /\ m.kind \in OpeningKinds => Opening(m.fork)
    /\ m.kind \in CancelKinds => GivenUp(m.fork)
    /\ m.kind = "ready" => m.worker # 0

Fitting == {m \in CommandSet \cup MessageSet : Fits(m)}
AllIn(s, set) == \A i \in DOMAIN s : s[i] \in set

JobFits ==
    /\ AllIn(commands, Fitting) /\ AllIn(backend.out, Fitting) /\ AllIn(events, Fitting)
    /\ backend.at = "join" => Creating(backend.fork)
    /\ backend.at = "ask" => Opening(backend.fork)
    /\ backend.at = "cancel" => GivenUp(backend.fork)
    /\ \A w \in Workers : Reports(w) => Creating(worker[w].fork)

(* While a fork is being cancelled its job is ahead of its cancellation.     *)
Cancels(s, kind, f) == \E j \in DOMAIN s : s[j].kind = kind /\ s[j].fork = f
Ahead(s, kinds, kind, f) ==
    \A i, j \in DOMAIN s : s[i].kind \in kinds /\ s[j].kind = kind /\ s[j].fork = f => i < j

CancelComesLast ==
    active.phase = "cancelling" =>
    /\ Ahead(commands, Jobs, "cancel", active.id)
    /\ BackendAt("cancel", active.id) => ~Sent
    /\ Cancels(backend.out, "cancelled", active.id) => ~Sent /\ ~InGit /\ ~Leaving
    /\ Cancels(events, "cancelled", active.id) => ~Sent /\ ~InHand /\ ~InGit /\ ~Leaving
    /\ Ahead(events, Results, "cancelled", active.id)

(* What the phase waits for is there.                                        *)
CancelComes ==
    \/ Cancels(commands, "cancel", active.id) \/ BackendAt("cancel", active.id)
    \/ Cancels(backend.out, "cancelled", active.id) \/ Cancels(events, "cancelled", active.id)

InProgressIsReal ==
    ~missed /\ ~quitting =>
    /\ active.phase \in {"creating", "starting"} => Job
    /\ active.phase = "cancelling" => CancelComes
    /\ active.phase = "creating" => \A w \in Workers : Reports(w) => ~worker[w].cancelled

(* Worktrees: one for each fork, and none while the fork's is being made.    *)
BeingMade ==
    \/ Carries(commands, {"fork"}) \/ backend.at = "join"
    \/ \E w \in Workers : worker[w].at \in {"probing", "building", "cleaning", "failed"}
    \/ Carries(backend.out, {"creationFailed"}) \/ Carries(events, {"creationFailed"})
KnownOf(w) == missed \/ quitting \/ Announced(w) \/ active.root = w \/ w \in kept

Worktrees ==
    \A w \in Workers :
        /\ disk[w].is = "partial" => worker[w].at \in {"building", "cleaning"}
        /\ disk[w].is = "whole" =>
             /\ Begun(disk[w].fork)
             /\ disk[w].fork = active.id => active.phase # "failedCreating" /\ ~BeingMade
             /\ KnownOf(w)
             /\ \A v \in Workers \ {w} : disk[v].is = "whole" => disk[v].fork # disk[w].fork

Control == Line /\ OneWorker /\ OneJob /\ JobFits /\ CancelComesLast
IInv == Types /\ Control /\ InProgressIsReal /\ Worktrees

-----------------------------------------------------------------------------
(* The queues as sequences.                                                  *)
LEMMA Limits == /\ {MaxPendingForks, CommandCapacity, EventCapacity, MaxForks} \subseteq Nat \ {0}
                /\ MaxExtras \in Nat /\ 0 \notin Forks /\ 0 \notin Workers
                /\ Forks \subseteq Nat /\ Workers \subseteq Nat
BY CapacityAssumption, BoundsAssumption DEF Forks, Workers

LEMMA PuttingLast ==
    ASSUME NEW S, NEW s \in Seq(S), NEW x \in S
    PROVE  /\ Append(s, x) \in Seq(S) /\ Len(Append(s, x)) = Len(s) + 1
           /\ DOMAIN Append(s, x) = 1..(Len(s) + 1) /\ DOMAIN s = 1..Len(s) /\ Len(s) \in Nat
           /\ Append(s, x)[Len(s) + 1] = x
           /\ \A i \in 1..Len(s) : Append(s, x)[i] = s[i]
OBVIOUS

LEMMA TakingFirst ==
    ASSUME NEW S, NEW s \in Seq(S), s # <<>>
    PROVE  /\ Tail(s) \in Seq(S) /\ Len(s) \in Nat \ {0} /\ Len(Tail(s)) = Len(s) - 1
           /\ DOMAIN Tail(s) = 1..(Len(s) - 1) /\ DOMAIN s = 1..Len(s)
           /\ Head(s) \in S /\ Head(s) = s[1]
           /\ \A i \in 1..(Len(s) - 1) : Tail(s)[i] = s[i + 1]
OBVIOUS

(* What a queue carries, when something is put into it, ...                  *)
LEMMA PutCarries ==
    ASSUME NEW S, NEW s \in Seq(S), NEW x \in S, NEW kinds
    PROVE  /\ Carries(Append(s, x), kinds) <=> (Carries(s, kinds) \/ x.kind \in kinds)
           /\ Once(s, kinds) /\ (~Carries(s, kinds) \/ x.kind \notin kinds)
                => Once(Append(s, x), kinds)
<1> DEFINE t == Append(s, x)
<1>1. /\ DOMAIN t = 1..(Len(s) + 1) /\ DOMAIN s = 1..Len(s) /\ Len(s) \in Nat
      /\ t[Len(s) + 1] = x /\ \A i \in 1..Len(s) : t[i] = s[i]
  BY PuttingLast
<1> HIDE DEF t
<1>2. \A i \in DOMAIN t : (i \in DOMAIN s /\ t[i] = s[i]) \/ (i = Len(s) + 1 /\ t[i] = x)
  BY <1>1
<1>3. \A i \in DOMAIN s : i \in DOMAIN t /\ t[i] = s[i]
  BY <1>1
<1>4. Len(s) + 1 \in DOMAIN t
  BY <1>1
<1>5. Carries(t, kinds) <=> (Carries(s, kinds) \/ x.kind \in kinds)
  BY <1>1, <1>2, <1>3, <1>4 DEF Carries
<1>6. Once(s, kinds) /\ (~Carries(s, kinds) \/ x.kind \notin kinds) => Once(t, kinds)
  BY <1>2 DEF Carries, Once
<1> QED
  BY <1>5, <1>6 DEF t

LEMMA PutCancels ==
    ASSUME NEW S, NEW s \in Seq(S), NEW x \in S, NEW kinds, NEW kind, NEW f
    PROVE  /\ Cancels(Append(s, x), kind, f)
                <=> (Cancels(s, kind, f) \/ (x.kind = kind /\ x.fork = f))
           /\ /\ Ahead(s, kinds, kind, f)
              /\ x.kind \in kinds => ~Cancels(s, kind, f) /\ x.kind # kind
              => Ahead(Append(s, x), kinds, kind, f)
<1> DEFINE t == Append(s, x)
<1>1. /\ DOMAIN t = 1..(Len(s) + 1) /\ DOMAIN s = 1..Len(s) /\ Len(s) \in Nat
      /\ t[Len(s) + 1] = x /\ \A i \in 1..Len(s) : t[i] = s[i]
  BY PuttingLast
<1> HIDE DEF t
<1>2. \A i \in DOMAIN t : (i \in DOMAIN s /\ t[i] = s[i]) \/ (i = Len(s) + 1 /\ t[i] = x)
  BY <1>1
<1>3. \A i \in DOMAIN s : i \in DOMAIN t /\ t[i] = s[i] /\ i < Len(s) + 1
  BY <1>1
<1>4. Len(s) + 1 \in DOMAIN t
  BY <1>1
<1>5. Cancels(t, kind, f) <=> (Cancels(s, kind, f) \/ (x.kind = kind /\ x.fork = f))
  BY <1>1, <1>2, <1>3, <1>4 DEF Cancels
<1>6. ASSUME Ahead(s, kinds, kind, f), x.kind \in kinds => ~Cancels(s, kind, f) /\ x.kind # kind
      PROVE  Ahead(t, kinds, kind, f)
  BY <1>2, <1>3, <1>6 DEF Cancels, Ahead
<1> QED
  BY <1>5, <1>6 DEF t

(* ... and when its head is taken.                                           *)
LEMMA TakeCarries ==
    ASSUME NEW S, NEW s \in Seq(S), s # <<>>, NEW kinds
    PROVE  /\ Carries(s, kinds) <=> (Carries(Tail(s), kinds) \/ Head(s).kind \in kinds)
           /\ Once(s, kinds) => /\ Once(Tail(s), kinds)
                                /\ Head(s).kind \in kinds => ~Carries(Tail(s), kinds)
<1> DEFINE t == Tail(s)
<1>1. /\ DOMAIN t = 1..(Len(s) - 1) /\ DOMAIN s = 1..Len(s) /\ Len(s) \in Nat \ {0}
      /\ Head(s) = s[1] /\ \A i \in 1..(Len(s) - 1) : t[i] = s[i + 1]
  BY TakingFirst
<1> HIDE DEF t
<1>2. \A i \in DOMAIN t : i \in Nat /\ i + 1 \in DOMAIN s /\ i + 1 # 1 /\ t[i] = s[i + 1]
  BY <1>1
<1>3. \A i \in DOMAIN s : i = 1 \/ (i - 1 \in DOMAIN t /\ t[i - 1] = s[i])
  BY <1>1
<1>4. 1 \in DOMAIN s
  BY <1>1
<1>5. Carries(s, kinds) <=> (Carries(t, kinds) \/ Head(s).kind \in kinds)
  BY <1>1, <1>2, <1>3, <1>4 DEF Carries
<1>6. Once(s, kinds) => Once(t, kinds)
  <2> SUFFICES ASSUME Once(s, kinds), NEW i \in DOMAIN t, NEW j \in DOMAIN t,
                      t[i].kind \in kinds, t[j].kind \in kinds
               PROVE  i = j
    BY DEF Once
  <2>1. i + 1 = j + 1
    BY <1>2 DEF Once
  <2> QED
    BY <1>2, <2>1
<1>7. Once(s, kinds) /\ Head(s).kind \in kinds => ~Carries(t, kinds)
  BY <1>1, <1>2, <1>4 DEF Once, Carries
<1> QED
  BY <1>5, <1>6, <1>7 DEF t

LEMMA TakeCancels ==
    ASSUME NEW S, NEW s \in Seq(S), s # <<>>, NEW kinds, NEW kind, NEW f
    PROVE  /\ Cancels(s, kind, f)
                <=> (Cancels(Tail(s), kind, f) \/ (Head(s).kind = kind /\ Head(s).fork = f))
           /\ Ahead(s, kinds, kind, f) =>
                /\ Ahead(Tail(s), kinds, kind, f)
                /\ Head(s).kind = kind /\ Head(s).fork = f => ~Carries(s, kinds)
<1> DEFINE t == Tail(s)
<1>1. /\ DOMAIN t = 1..(Len(s) - 1) /\ DOMAIN s = 1..Len(s) /\ Len(s) \in Nat \ {0}
      /\ Head(s) = s[1] /\ \A i \in 1..(Len(s) - 1) : t[i] = s[i + 1]
  BY TakingFirst
<1> HIDE DEF t
<1>2. \A i \in DOMAIN t : i \in Nat /\ i + 1 \in DOMAIN s /\ i + 1 # 1 /\ t[i] = s[i + 1]
  BY <1>1
<1>3. \A i \in DOMAIN s : i = 1 \/ (i - 1 \in DOMAIN t /\ t[i - 1] = s[i])
  BY <1>1
<1>4. 1 \in DOMAIN s /\ \A i \in DOMAIN s : ~(i < 1)
  BY <1>1
<1>5. Cancels(s, kind, f) <=> (Cancels(t, kind, f) \/ (Head(s).kind = kind /\ Head(s).fork = f))
  <2>1. ASSUME Cancels(s, kind, f), ~(Head(s).kind = kind /\ Head(s).fork = f)
        PROVE  Cancels(t, kind, f)
    <3>1. PICK i \in DOMAIN s : s[i].kind = kind /\ s[i].fork = f
      BY <2>1 DEF Cancels
    <3>2. i - 1 \in DOMAIN t /\ t[i - 1] = s[i]
      BY <1>1, <1>3, <2>1, <3>1
    <3> QED
      BY <3>1, <3>2 DEF Cancels
  <2>2. ASSUME Cancels(t, kind, f) PROVE Cancels(s, kind, f)
    <3>1. PICK i \in DOMAIN t : t[i].kind = kind /\ t[i].fork = f
      BY <2>2 DEF Cancels
    <3>2. i + 1 \in DOMAIN s /\ t[i] = s[i + 1]
      BY <1>2
    <3> QED
      BY <3>1, <3>2 DEF Cancels
  <2>3. Head(s).kind = kind /\ Head(s).fork = f => Cancels(s, kind, f)
    BY <1>1, <1>4 DEF Cancels
  <2> QED
    BY <2>1, <2>2, <2>3
<1>6. Ahead(s, kinds, kind, f) => Ahead(t, kinds, kind, f)
  <2> SUFFICES ASSUME Ahead(s, kinds, kind, f), NEW i \in DOMAIN t, NEW j \in DOMAIN t,
                      t[i].kind \in kinds, t[j].kind = kind, t[j].fork = f
               PROVE  i < j
    BY DEF Ahead
  <2>1. i + 1 < j + 1
    BY <1>2 DEF Ahead
  <2> QED
    BY <1>2, <2>1
<1>7. Ahead(s, kinds, kind, f) /\ Head(s).kind = kind /\ Head(s).fork = f => ~Carries(s, kinds)
  BY <1>1, <1>4 DEF Ahead, Carries
<1> QED
  BY <1>5, <1>6, <1>7 DEF t

-----------------------------------------------------------------------------
(* Types.                                                                    *)
LEMMA InitTypes == Init => Types
<1> SUFFICES ASSUME Init PROVE Types
  OBVIOUS
<1>1. UiTypes
  <2>1. active \in [id : {0} \cup Forks, phase : Phases, root : {0} \cup Workers]
    BY DEF Init, NoFork, Fork, Phases
  <2>2. queue \in Seq(Forks) /\ Len(queue) = 0 /\ commands \in Seq(CommandSet) /\ Len(commands) = 0
    BY DEF Init
  <2>3. requested \in 0..MaxForks
    BY Limits DEF Init
  <2> QED
    BY <2>1, <2>2, <2>3, Limits DEF UiTypes
<1>2. BackendTypes
  <2>1. events \in Seq(MessageSet) /\ Len(events) = 0
    BY DEF Init
  <2>2. backend \in BackendSet /\ (backend.at = "emit" <=> backend.out # <<>>)
    BY DEF Init, BackendSet, Idle
  <2>3. worker \in [Workers -> WorkerSet]
    BY DEF Init, WorkerSet, WorkerStates, NoWorker
  <2>4. disk \in [Workers -> [fork : {0} \cup Forks, is : {"nothing", "partial", "whole"}]]
    BY DEF Init, NoDirectory
  <2>5. runtime = 0 /\ missed \in BOOLEAN /\ quitting \in BOOLEAN
    BY DEF Init
  <2>6. Len(events) <= EventCapacity
    BY <2>1, Limits
  <2> QED
    BY <2>1, <2>2, <2>3, <2>4, <2>5, <2>6 DEF BackendTypes
<1> QED
  BY <1>1, <1>2 DEF Types

LEMMA WorkerTypes ==
    ASSUME BackendTypes, NEW w \in Workers, NEW at \in WorkerStates
    PROVE  [worker EXCEPT ![w].at = at] \in [Workers -> WorkerSet]
BY DEF BackendTypes, WorkerSet

LEMMA WorkerKeepsTypes ==
    ASSUME Types, NEW w \in Workers, WorkerStep(w)
    PROVE  Types'
<1> USE DEF Types, BackendTypes
<1>1. UNCHANGED <<active, queue, requested, commands, backend, runtime, quitting>>
  BY DEF WorkerStep, Allocate, ProbeFails, Complete, BuildFails, CleanUp, EmitOutcome, ThreadEnds,
         notWorker, uiVars
<1>2. UiTypes'
  BY <1>1 DEF UiTypes
<1>3. worker' \in [Workers -> WorkerSet]
  <2>1. CASE ThreadEnds(w)
    BY <2>1 DEF ThreadEnds, NoWorker, WorkerSet, WorkerStates
  <2>2. CASE ~ThreadEnds(w)
    <3>1. PICK at \in WorkerStates : worker' = [worker EXCEPT ![w].at = at]
      BY <2>2 DEF WorkerStep, Allocate, ProbeFails, Complete, BuildFails, CleanUp, EmitOutcome,
                  Becomes, Report, WorkerStates
    <3> QED
      BY <3>1, WorkerTypes
  <2> QED
    BY <2>1, <2>2
<1>4. disk' \in [Workers -> [fork : {0} \cup Forks, is : {"nothing", "partial", "whole"}]]
  <2>1. worker[w].fork \in {0} \cup Forks
    BY DEF WorkerSet
  <2> QED
    BY <2>1 DEF WorkerStep, Allocate, ProbeFails, Complete, BuildFails, CleanUp, EmitOutcome,
                ThreadEnds, OnDisk, NoDirectory
<1>5. /\ events' \in Seq(MessageSet) /\ Len(events') <= EventCapacity /\ missed' \in BOOLEAN
  <2>1. CASE EmitOutcome(w)
    <3>1. Outcome(w) \in MessageSet
      BY DEF Outcome, Message, MessageSet, MessageKinds, WorkerSet
    <3>2. CASE EventRoom
      <4>1. events' = Append(events, Outcome(w)) /\ missed' = missed
        BY <2>1, <3>2 DEF EmitOutcome
      <4> QED
        BY <3>1, <3>2, <4>1, PuttingLast, Limits DEF EventRoom
    <3>3. CASE ~EventRoom
      BY <2>1, <3>3 DEF EmitOutcome
    <3> QED
      BY <3>2, <3>3
  <2>2. CASE ~EmitOutcome(w)
    BY <2>2 DEF WorkerStep, Allocate, ProbeFails, Complete, BuildFails, CleanUp, ThreadEnds
  <2> QED
    BY <2>1, <2>2
<1> QED
  BY <1>1, <1>2, <1>3, <1>4, <1>5

LEMMA BackendKeepsTypes ==
    ASSUME Types, Backend
    PROVE  Types'
<1> USE DEF Types
<1>1. UNCHANGED <<active, queue, requested, kept, quitting>>
  BY DEF Backend, RunFork, JoinThenStart, RunCancel, CancelJoined, RunStart, AskForChat, RunOther,
         Emit, StopBackend, BackendStopped, notBackend, uiVars
<1>2. commands' \in Seq(CommandSet) /\ Len(commands') <= CommandCapacity
  <2>1. CASE UNCHANGED commands
    BY <2>1 DEF UiTypes
  <2>2. CASE commands # <<>> /\ commands' = Tail(commands)
    BY <2>2, TakingFirst, Limits DEF UiTypes
  <2> QED
    BY <2>1, <2>2 DEF Backend, RunFork, JoinThenStart, RunCancel, CancelJoined, RunStart, AskForChat,
         RunOther, Emit, StopBackend, BackendStopped, notBackend, Take
<1>3. UiTypes'
  BY <1>1, <1>2 DEF UiTypes
<1>4. UNCHANGED disk
  BY DEF Backend, RunFork, JoinThenStart, RunCancel, CancelJoined, RunStart, AskForChat, RunOther,
         Emit, StopBackend, BackendStopped, gitVars
<1>5. Reaped \in {0} \cup Workers
  BY DEF Reaped, BackendTypes
<1>6. \A kind : Take(kind) => Taken \in {0} \cup Forks
  <2> SUFFICES ASSUME NEW kind, Take(kind) PROVE Taken \in {0} \cup Forks
    OBVIOUS
  <2>1. Head(commands) \in CommandSet
    BY TakingFirst DEF Take, UiTypes
  <2> QED
    BY <2>1 DEF Taken, CommandSet
<1>7. runtime' \in {0} \cup Workers
  BY <1>5 DEF BackendTypes, Backend, RunFork, JoinThenStart, StartWorker, Unused, RunCancel,
         CancelJoined, RunStart, AskForChat, RunOther, Emit, StopBackend, BackendStopped
<1>8. worker' \in [Workers -> WorkerSet]
  <2>1. CASE UNCHANGED worker
    BY <2>1 DEF BackendTypes
  <2>2. CASE \E w \in Workers : worker' = [worker EXCEPT ![w].cancelled = TRUE]
    <3>1. PICK w \in Workers : worker' = [worker EXCEPT ![w].cancelled = TRUE]
      BY <2>2
    <3>2. worker \in [Workers -> WorkerSet]
      BY DEF BackendTypes
    <3>3. [worker[w] EXCEPT !.cancelled = TRUE] \in WorkerSet
      BY <3>2 DEF WorkerSet
    <3> QED
      BY <3>1, <3>2, <3>3
  <2>3. CASE JoinThenStart /\ StartWorker
    <3> DEFINE rec == [NoWorker EXCEPT !.fork = backend.fork, !.at = "probing"]
    <3>1. rec \in WorkerSet
      BY DEF BackendTypes, BackendSet, WorkerSet, WorkerStates, NoWorker
    <3>2. PICK w \in Workers : worker' = [worker EXCEPT ![w] = rec]
      BY <2>3 DEF StartWorker, Unused
    <3> HIDE DEF rec
    <3> QED
      BY <3>1, <3>2 DEF BackendTypes
  <2>4. RunCancel => UNCHANGED worker \/ \E w \in Workers : worker' = [worker EXCEPT ![w].cancelled = TRUE]
    BY <1>5 DEF RunCancel
  <2>5. StopBackend => UNCHANGED worker \/ \E w \in Workers : worker' = [worker EXCEPT ![w].cancelled = TRUE]
    BY DEF StopBackend, BackendTypes
  <2> QED
    BY <2>1, <2>2, <2>3, <2>4, <2>5 DEF Backend, RunFork, JoinThenStart, CancelJoined,
       RunStart, AskForChat, RunOther, Emit, BackendStopped, gitVars
<1>9. backend' \in BackendSet /\ (backend'.at = "emit" <=> backend'.out # <<>>)
  <2> DEFINE Good(b) == b \in BackendSet /\ (b.at = "emit" <=> b.out # <<>>)
  <2>a. Good(Idle) /\ \A f \in {0} \cup Forks : \A at \in {"join", "cancel", "ask", "stopping", "stopped"} :
          Good(Busy(at, f))
    BY DEF Idle, Busy, BackendSet
  <2>b. \A out \in Seq(MessageSet) : out # <<>> => Good(Emitting(out))
    BY DEF Emitting, BackendSet
  <2>c. \A kind \in MessageKinds, f \in {0} \cup Forks : Message(kind, f, 0) \in MessageSet
    BY DEF Message, MessageSet
  <2>d. \A m \in MessageSet : <<m>> \in Seq(MessageSet) /\ <<m>> # <<>> /\ <<Note, m>> # <<>>
                               /\ <<Note, m>> \in Seq(MessageSet) /\ Note \in MessageSet
    <3>1. Note \in MessageSet
      BY <2>c DEF Note, MessageKinds
    <3> QED
      BY <3>1
  <2>e. backend.fork \in {0} \cup Forks
    BY DEF BackendTypes, BackendSet
  <2> HIDE DEF Good
  <2> SUFFICES Good(backend')
    BY DEF Good
  <2>1. CASE RunFork \/ RunStart
    BY <1>6, <2>1, <2>a DEF RunFork, RunStart, Goto
  <2>2. CASE RunCancel
    <3>1. Taken \in {0} \cup Forks /\ Message("cancelled", Taken, 0) \in MessageSet
      BY <1>6, <2>2, <2>c DEF RunCancel, MessageKinds
    <3>2. Good(Busy("cancel", Taken)) /\ Good(Emitting(<<Message("cancelled", Taken, 0)>>))
      BY <2>a, <2>b, <2>d, <3>1
    <3> QED
      BY <2>2, <3>2 DEF RunCancel, Goto
  <2>4. CASE JoinThenStart
    <3>1. Message("creationFailed", backend.fork, 0) \in MessageSet
      BY <2>c, <2>e DEF MessageKinds
    <3>2. Good(Idle) /\ Good(Emitting(<<Message("creationFailed", backend.fork, 0)>>))
      BY <2>a, <2>b, <2>d, <3>1
    <3> QED
      BY <2>4, <3>2 DEF JoinThenStart, StartWorker, Goto
  <2>5. CASE CancelJoined
    <3>1. Message("cancelled", backend.fork, 0) \in MessageSet
      BY <2>c, <2>e DEF MessageKinds
    <3> QED
      BY <2>5, <2>b, <2>d, <3>1 DEF CancelJoined, Goto
  <2>6. CASE AskForChat
    <3>1. PICK kind \in {"completed", "conversationFailed"} :
             backend' = Emitting(IF kind = "completed" THEN <<Note, Message(kind, backend.fork, 0)>>
                                 ELSE <<Message(kind, backend.fork, 0)>>)
      BY <2>6 DEF AskForChat, Goto
    <3>2. Message(kind, backend.fork, 0) \in MessageSet
      BY <2>c, <2>e DEF MessageKinds
    <3> QED
      BY <2>b, <2>d, <3>1, <3>2
  <2>7. CASE RunOther
    BY <2>7, <2>b, <2>c, <2>d DEF RunOther, Goto, Note, MessageKinds
  <2>8. CASE StopBackend \/ BackendStopped
    BY <2>8, <2>a DEF StopBackend, BackendStopped, Goto
  <2>3. CASE Emit
    <3>1. backend.out \in Seq(MessageSet) /\ backend.out # <<>>
      BY <2>3 DEF Emit, BackendTypes, BackendSet
    <3>2. Tail(backend.out) \in Seq(MessageSet) /\ Len(Tail(backend.out)) = Len(backend.out) - 1
          /\ Len(backend.out) \in Nat
      BY <3>1, TakingFirst
    <3>3. Len(backend.out) # 1 => Tail(backend.out) # <<>>
      <4> DEFINE t == Tail(backend.out)
      <4>1. Len(t) = Len(backend.out) - 1
        BY <3>2
      <4> HIDE DEF t
      <4>2. t = <<>> => Len(t) = 0
        OBVIOUS
      <4> QED
        BY <3>2, <4>1, <4>2 DEF t
    <3> QED
      BY <2>3, <3>2, <3>3, <2>a, <2>b DEF Emit, Goto
  <2> QED
    BY <2>1, <2>2, <2>3, <2>4, <2>5, <2>6, <2>7, <2>8 DEF Backend
<1>10. events' \in Seq(MessageSet) /\ Len(events') <= EventCapacity /\ missed' \in BOOLEAN
  <2>1. CASE Emit
    <3>1. Head(backend.out) \in MessageSet
      BY <2>1, TakingFirst DEF Emit, BackendTypes, BackendSet
    <3>2. CASE EventRoom
      <4>1. events' = Append(events, Head(backend.out)) /\ missed' = missed
        BY <2>1, <3>2 DEF Emit
      <4> QED
        BY <3>1, <3>2, <4>1, PuttingLast, Limits DEF EventRoom, BackendTypes
    <3>3. CASE ~EventRoom
      BY <2>1, <3>3 DEF Emit, BackendTypes
    <3> QED
      BY <3>2, <3>3
  <2>2. CASE ~Emit
    BY <2>2 DEF Backend, RunFork, JoinThenStart, RunCancel, CancelJoined, RunStart, AskForChat,
         RunOther, StopBackend, BackendStopped, BackendTypes
  <2> QED
    BY <2>1, <2>2
<1> QED
  BY <1>1, <1>3, <1>4, <1>7, <1>8, <1>9, <1>10 DEF BackendTypes

(* What the reducer does with the fork in hand and the command queue.        *)
LEMMA DispatchTypes ==
    ASSUME Types, NEW kind \in CommandKinds, NEW sent, NEW refused,
           sent \in [id : {0} \cup Forks, phase : Phases, root : {0} \cup Workers],
           refused \in [id : {0} \cup Forks, phase : Phases, root : {0} \cup Workers],
           Dispatch(kind, sent, refused)
    PROVE  /\ active' \in [id : {0} \cup Forks, phase : Phases, root : {0} \cup Workers]
           /\ commands' \in Seq(CommandSet) /\ Len(commands') <= CommandCapacity
<1>1. CASE CommandRoom
  <2>1. Command(kind, sent.id) \in CommandSet
    BY DEF Command, CommandSet
  <2>2. commands' = Append(commands, Command(kind, sent.id)) /\ active' = sent
    BY <1>1 DEF Dispatch
  <2> QED
    BY <1>1, <2>1, <2>2, PuttingLast, Limits DEF CommandRoom, Types, UiTypes
<1>2. CASE ~CommandRoom
  BY <1>2 DEF Dispatch, Types, UiTypes
<1> QED
  BY <1>1, <1>2

LEMMA StartNowTypes ==
    ASSUME Types, NEW f \in {0} \cup Forks, StartNow(f)
    PROVE  /\ active' \in [id : {0} \cup Forks, phase : Phases, root : {0} \cup Workers]
           /\ commands' \in Seq(CommandSet) /\ Len(commands') <= CommandCapacity
<1>1. /\ Fork(f, "creating", 0) \in [id : {0} \cup Forks, phase : Phases, root : {0} \cup Workers]
      /\ Fork(f, "failedCreating", 0) \in [id : {0} \cup Forks, phase : Phases, root : {0} \cup Workers]
  BY DEF Fork, Phases, Failed
<1> QED
  BY <1>1, DispatchTypes DEF StartNow, CommandKinds

LEMMA OpenChatTypes ==
    ASSUME Types, NEW fork \in [id : {0} \cup Forks, phase : Phases, root : {0} \cup Workers],
           OpenChat(fork)
    PROVE  /\ active' \in [id : {0} \cup Forks, phase : Phases, root : {0} \cup Workers]
           /\ commands' \in Seq(CommandSet) /\ Len(commands') <= CommandCapacity
<1>1. /\ [fork EXCEPT !.phase = "starting"]
           \in [id : {0} \cup Forks, phase : Phases, root : {0} \cup Workers]
      /\ [fork EXCEPT !.phase = "failedStarting"]
           \in [id : {0} \cup Forks, phase : Phases, root : {0} \cup Workers]
  BY DEF Phases, Failed
<1> QED
  BY <1>1, DispatchTypes DEF OpenChat, CommandKinds

LEMMA StartNextTypes ==
    ASSUME Types, StartNext, UNCHANGED requested
    PROVE  UiTypes'
<1>1. CASE queue = <<>>
  BY <1>1 DEF StartNext, Types, UiTypes, NoFork, Fork, Phases
<1>2. CASE queue # <<>>
  <2>1. StartNow(Head(queue)) /\ queue' = Tail(queue)
    BY <1>2 DEF StartNext
  <2>2. Tail(queue) \in Seq(Forks) /\ Head(queue) \in Forks /\ Len(Tail(queue)) = Len(queue) - 1
        /\ Len(queue) \in Nat
    BY <1>2, TakingFirst DEF Types, UiTypes
  <2>3. Len(queue') + 1 <= MaxPendingForks
    BY <2>1, <2>2, Limits DEF Types, UiTypes
  <2> QED
    BY <2>1, <2>2, <2>3, StartNowTypes DEF Types, UiTypes
<1> QED
  BY <1>1, <1>2

LEMMA ReducerKeepsTypes ==
    ASSUME Types, Reduce
    PROVE  Types'
<1>1. UNCHANGED <<backend, runtime, worker, disk, missed, quitting, requested>>
  BY DEF Reduce, ReduceReady, ReduceCreationFailed, ReduceConversationFailed, ReduceCompleted,
         ReduceCancelled, ReduceNote, NextIs, notUi, gitVars
<1>2. events # <<>> /\ events' = Tail(events)
  BY DEF Reduce, ReduceReady, ReduceCreationFailed, ReduceConversationFailed, ReduceCompleted,
         ReduceCancelled, ReduceNote, NextIs
<1>3. Head(events) \in MessageSet /\ Tail(events) \in Seq(MessageSet) /\ Len(Tail(events)) <= EventCapacity
  BY <1>2, TakingFirst, Limits DEF Types, BackendTypes
<1>4. BackendTypes'
  BY <1>1, <1>2, <1>3 DEF Types, BackendTypes
<1>5. UiTypes'
  <2>1. CASE UNCHANGED <<active, queue, commands>>
    BY <1>1, <2>1 DEF Types, UiTypes
  <2>2. CASE ReduceReady /\ About(ReadyPhases)
    <3>1. [active EXCEPT !.root = Head(events).worker]
             \in [id : {0} \cup Forks, phase : Phases, root : {0} \cup Workers]
      BY <1>3 DEF Types, UiTypes, MessageSet
    <3>2. OpenChat([active EXCEPT !.root = Head(events).worker]) /\ UNCHANGED queue
      BY <2>2 DEF ReduceReady
    <3> QED
      BY <1>1, <3>1, <3>2, OpenChatTypes DEF Types, UiTypes
  <2>3. CASE StartNext
    BY <1>1, <2>3, StartNextTypes
  <2>4. CASE active' \in {Phase("failedCreating"), Phase("failedStarting")} /\ UNCHANGED <<queue, commands>>
    BY <1>1, <2>4 DEF Types, UiTypes, Phase, Phases, Failed
  <2> QED
    BY <2>1, <2>2, <2>3, <2>4 DEF Reduce, ReduceReady, ReduceCreationFailed, ReduceConversationFailed,
       ReduceCompleted, ReduceCancelled, ReduceNote, Ignored
<1> QED
  BY <1>4, <1>5 DEF Types

(* Taking a request out of the middle of the queue.                          *)
Without(s, i) == SubSeq(s, 1, i - 1) \o SubSeq(s, i + 1, Len(s))

LEMMA TakingOut ==
    ASSUME NEW S, NEW s \in Seq(S), NEW i \in DOMAIN s
    PROVE  /\ Without(s, i) \in Seq(S) /\ Len(Without(s, i)) = Len(s) - 1 /\ Len(s) \in Nat \ {0}
           /\ DOMAIN Without(s, i) = 1..(Len(s) - 1) /\ DOMAIN s = 1..Len(s) /\ i \in 1..Len(s)
           /\ \A j \in 1..(Len(s) - 1) : Without(s, i)[j] = IF j < i THEN s[j] ELSE s[j + 1]
<1>1. Len(s) \in Nat /\ DOMAIN s = 1..Len(s) /\ i \in 1..Len(s) /\ Len(s) - 1 \in Nat
  OBVIOUS
<1> DEFINE l == SubSeq(s, 1, i - 1)
           r == SubSeq(s, i + 1, Len(s))
<1>2. /\ l \in Seq(S) /\ Len(l) = i - 1 /\ \A j \in 1..(i - 1) : l[j] = s[j]
  BY <1>1
<1>3. /\ r \in Seq(S) /\ Len(r) = Len(s) - i /\ \A j \in 1..(Len(s) - i) : r[j] = s[i + j]
  BY <1>1
<1> HIDE DEF l, r
<1>4. /\ l \o r \in Seq(S) /\ Len(l \o r) = Len(l) + Len(r)
      /\ \A j \in 1..(Len(l) + Len(r)) : (l \o r)[j] = IF j <= Len(l) THEN l[j] ELSE r[j - Len(l)]
  <2>1. l \in Seq(S) /\ r \in Seq(S)
    BY <1>2, <1>3
  <2> QED
    BY <2>1
<1>5. Without(s, i) = l \o r
  BY DEF Without, l, r
<1>6. \A j \in 1..(Len(s) - 1) : (l \o r)[j] = IF j < i THEN s[j] ELSE s[j + 1]
  <2> SUFFICES ASSUME NEW j \in 1..(Len(s) - 1)
               PROVE  (l \o r)[j] = IF j < i THEN s[j] ELSE s[j + 1]
    OBVIOUS
  <2>1. CASE j < i
    BY <1>1, <1>2, <1>3, <1>4, <2>1
  <2>2. CASE ~(j < i)
    <3>1. (l \o r)[j] = r[j - (i - 1)]
      <4>1. Len(l) = i - 1 /\ Len(r) = Len(s) - i
        BY <1>2, <1>3
      <4>2. j \in 1..(Len(l) + Len(r)) /\ ~(j <= Len(l))
        BY <1>1, <2>2, <4>1
      <4> QED
        BY <1>4, <4>1, <4>2
    <3>2. j - (i - 1) \in 1..(Len(s) - i) /\ i + (j - (i - 1)) = j + 1
      BY <1>1, <2>2
    <3> QED
      BY <1>3, <2>2, <3>1, <3>2
  <2> QED
    BY <2>1, <2>2
<1> DEFINE c == Without(s, i)
<1>7. c \in Seq(S) /\ Len(c) = Len(s) - 1
  <2>1. c \in Seq(S) /\ Len(c) = Len(l) + Len(r)
    BY <1>4, <1>5
  <2>2. Len(l) + Len(r) = Len(s) - 1
    BY <1>1, <1>2, <1>3
  <2> QED
    BY <2>1, <2>2
<1>8. \A j \in 1..(Len(s) - 1) : c[j] = IF j < i THEN s[j] ELSE s[j + 1]
  BY <1>5, <1>6
<1> HIDE DEF c
<1>9. DOMAIN c = 1..(Len(s) - 1)
  BY <1>7
<1> QED
  BY <1>1, <1>7, <1>8, <1>9 DEF c

LEMMA UserKeepsTypes ==
    ASSUME Types, User
    PROVE  Types'
<1>1. /\ UNCHANGED <<events, backend, runtime, worker, disk, missed>>
      /\ quitting' \in BOOLEAN
  BY DEF User, RequestFork, CancelQueued, CancelActive, Retry, Dismiss, OtherEffect, Quit, notUser,
         notUi, gitVars, Types, BackendTypes
<1>2. BackendTypes'
  BY <1>1 DEF Types, BackendTypes
<1>3. UiTypes'
  <2>1. CASE RequestFork
    <3>1. requested + 1 \in Forks /\ requested' = requested + 1 /\ requested' \in 0..MaxForks
      BY <2>1, Limits DEF RequestFork, Types, UiTypes, Forks
    <3>2. CASE active = NoFork
      BY <2>1, <3>1, <3>2, StartNowTypes DEF RequestFork, Types, UiTypes
    <3>3. CASE active # NoFork
      <4>1. QueueRoom /\ queue' = Append(queue, requested + 1) /\ UNCHANGED <<active, commands>>
        BY <2>1, <3>3 DEF RequestFork
      <4>2. /\ queue' \in Seq(Forks) /\ Len(queue') = Len(queue) + 1 /\ Len(queue) \in Nat
        BY <3>1, <4>1, PuttingLast DEF Types, UiTypes
      <4>3. Len(queue') + 1 <= MaxPendingForks
        BY <4>1, <4>2, Limits DEF QueueRoom
      <4> QED
        BY <3>1, <4>1, <4>2, <4>3 DEF Types, UiTypes
    <3> QED
      BY <3>2, <3>3
  <2>2. CASE CancelQueued
    <3>1. PICK i \in DOMAIN queue : queue' = Without(queue, i)
      BY <2>2 DEF CancelQueued, Without
    <3>2. queue' \in Seq(Forks) /\ Len(queue') = Len(queue) - 1 /\ Len(queue) \in Nat
      BY <3>1, TakingOut DEF Types, UiTypes
    <3>3. UNCHANGED <<active, requested, commands>>
      BY <2>2 DEF CancelQueued
    <3>4. Len(queue') + 1 <= MaxPendingForks
      BY <3>2, Limits DEF Types, UiTypes
    <3> QED
      BY <3>2, <3>3, <3>4 DEF Types, UiTypes
  <2>3. CASE CancelActive
    <3>1. /\ active \in [id : {0} \cup Forks, phase : Phases, root : {0} \cup Workers]
          /\ Phase("cancelling") \in [id : {0} \cup Forks, phase : Phases, root : {0} \cup Workers]
      BY DEF Types, UiTypes, Phase, Phases
    <3>2. /\ Dispatch("cancel", Phase("cancelling"), active) /\ UNCHANGED <<queue, requested>>
          /\ "cancel" \in CommandKinds
      BY <2>3 DEF CancelActive, CommandKinds
    <3> QED
      BY <3>1, <3>2, DispatchTypes DEF Types, UiTypes
  <2>4. CASE Retry
    <3>1. UNCHANGED <<queue, requested>>
      BY <2>4 DEF Retry
    <3> QED
      BY <2>4, <3>1, StartNowTypes, OpenChatTypes DEF Retry, Types, UiTypes
  <2>5. CASE Dismiss
    BY <2>5, StartNextTypes DEF Dismiss
  <2>6. CASE OtherEffect
    <3>1. Command("other", 0) \in CommandSet
      BY DEF Command, CommandSet, CommandKinds
    <3>2. commands' = Append(commands, Command("other", 0)) /\ UNCHANGED <<active, queue, requested>>
          /\ CommandRoom
      BY <2>6 DEF OtherEffect, uiVars
    <3> QED
      BY <3>1, <3>2, PuttingLast, Limits DEF CommandRoom, Types, UiTypes
  <2>7. CASE Quit
    BY <2>7 DEF Quit, uiVars, Types, UiTypes
  <2> QED
    BY <2>1, <2>2, <2>3, <2>4, <2>5, <2>6, <2>7 DEF User
<1> QED
  BY <1>2, <1>3 DEF Types

LEMMA TypesStep == Types /\ [Next]_vars => Types'
<1> SUFFICES ASSUME Types, [Next]_vars PROVE Types'
  OBVIOUS
<1>1. CASE \E w \in Workers : WorkerStep(w)
  BY <1>1, WorkerKeepsTypes
<1>2. CASE UNCHANGED vars
  BY <1>2 DEF vars, uiVars, gitVars, Types, UiTypes, BackendTypes
<1> QED
  BY <1>1, <1>2, BackendKeepsTypes, ReducerKeepsTypes, UserKeepsTypes DEF Next, Exited

(* The elements of a queue.                                                  *)
LEMMA PutIn ==
    ASSUME NEW S, NEW s \in Seq(S), NEW x \in S, NEW set, AllIn(s, set), x \in set
    PROVE  AllIn(Append(s, x), set)
<1> DEFINE t == Append(s, x)
<1>1. /\ DOMAIN t = 1..(Len(s) + 1) /\ DOMAIN s = 1..Len(s) /\ Len(s) \in Nat
      /\ t[Len(s) + 1] = x /\ \A i \in 1..Len(s) : t[i] = s[i]
  BY PuttingLast
<1> HIDE DEF t
<1>2. AllIn(t, set)
  BY <1>1 DEF AllIn
<1> QED
  BY <1>2 DEF t

LEMMA TakeIn ==
    ASSUME NEW S, NEW s \in Seq(S), s # <<>>, NEW set, AllIn(s, set)
    PROVE  AllIn(Tail(s), set) /\ Head(s) \in set
<1> DEFINE t == Tail(s)
<1>1. /\ DOMAIN t = 1..(Len(s) - 1) /\ DOMAIN s = 1..Len(s) /\ Len(s) \in Nat \ {0}
      /\ Head(s) = s[1] /\ \A i \in 1..(Len(s) - 1) : t[i] = s[i + 1]
  BY TakingFirst
<1> HIDE DEF t
<1>2. AllIn(t, set) /\ Head(s) \in set
  BY <1>1 DEF AllIn
<1> QED
  BY <1>2 DEF t

(* The lists of messages that the backend is about to emit.                  *)
LEMMA NothingOut ==
    ASSUME NEW kinds, NEW kind, NEW f, NEW set
    PROVE  /\ ~Carries(<<>>, kinds) /\ Once(<<>>, kinds) /\ ~Cancels(<<>>, kind, f)
           /\ Ahead(<<>>, kinds, kind, f) /\ AllIn(<<>>, set)
BY DEF Carries, Once, Cancels, Ahead, AllIn

LEMMA OneOut ==
    ASSUME NEW m, NEW kinds, NEW kind, NEW f, NEW set
    PROVE  /\ Carries(<<m>>, kinds) <=> m.kind \in kinds
           /\ Once(<<m>>, kinds)
           /\ Cancels(<<m>>, kind, f) <=> (m.kind = kind /\ m.fork = f)
           /\ AllIn(<<m>>, set) <=> m \in set
<1>1. DOMAIN <<m>> = {1} /\ <<m>>[1] = m
  OBVIOUS
<1> QED
  BY <1>1 DEF Carries, Once, Cancels, AllIn

LEMMA TwoOut ==
    ASSUME NEW m, NEW kinds, "note" \notin kinds, NEW kind, kind # "note", NEW f, NEW set, Note \in set
    PROVE  /\ Carries(<<Note, m>>, kinds) <=> m.kind \in kinds
           /\ Once(<<Note, m>>, kinds)
           /\ Cancels(<<Note, m>>, kind, f) <=> (m.kind = kind /\ m.fork = f)
           /\ AllIn(<<Note, m>>, set) <=> m \in set
<1>1. DOMAIN <<Note, m>> = {1, 2} /\ <<Note, m>>[1] = Note /\ <<Note, m>>[2] = m
  OBVIOUS
<1>2. Note.kind = "note"
  BY DEF Note, Message
<1> QED
  BY <1>1, <1>2 DEF Carries, Once, Cancels, AllIn

(* What is meant for the fork in hand is, as long as the reducer stands still. *)
LEMMA FittingKept == UNCHANGED <<active, queue, requested>> => Fitting' = Fitting
BY DEF Fitting, Fits, Creating, Opening, GivenUp, Begun, Queued

LEMMA FitsKept ==
    ASSUME UNCHANGED <<active, queue, requested>>, NEW f
    PROVE  /\ Creating(f)' <=> Creating(f)
           /\ Opening(f)' <=> Opening(f)
           /\ GivenUp(f)' <=> GivenUp(f)
           /\ Begun(f)' <=> Begun(f)
BY DEF Creating, Opening, GivenUp, Begun, Queued

LEMMA LineKept == Line /\ UNCHANGED <<active, queue, requested>> => Line'
BY DEF Line

LEMMA SeqTypes ==
    ASSUME Types
    PROVE  /\ commands \in Seq(CommandSet) /\ events \in Seq(MessageSet)
           /\ backend.out \in Seq(MessageSet) /\ (backend.at = "emit" <=> backend.out # <<>>)
BY DEF Types, UiTypes, BackendTypes, BackendSet

-----------------------------------------------------------------------------
(* The worker.                                                               *)
LEMMA WorkerFrame ==
    ASSUME Types, Control, NEW w \in Workers, WorkerStep(w)
    PROVE  /\ UNCHANGED <<active, queue, requested, kept, commands, backend, runtime, quitting>>
           /\ w = runtime /\ worker[w].at \notin {"none", "gone"}
           /\ \A v \in Workers \ {w} : worker'[v] = worker[v] /\ disk'[v] = disk[v]
           /\ \A v \in Workers : Reports(v)' => Reports(v) /\ worker'[v].fork = worker[v].fork
                                                /\ worker'[v].cancelled = worker[v].cancelled
<1>1. UNCHANGED <<active, queue, requested, kept, commands, backend, runtime, quitting>>
  BY DEF WorkerStep, Allocate, ProbeFails, Complete, BuildFails, CleanUp, EmitOutcome, ThreadEnds,
         notWorker, uiVars
<1>2. worker[w].at \in {"probing", "building", "cleaning", "ready", "failed", "ending"}
  BY DEF WorkerStep, Allocate, ProbeFails, Complete, BuildFails, CleanUp, EmitOutcome, ThreadEnds
<1>3. w = runtime
  BY <1>2 DEF Control, OneWorker
<1>4. \A v \in Workers \ {w} : worker'[v] = worker[v] /\ disk'[v] = disk[v]
  BY DEF WorkerStep, Allocate, ProbeFails, Complete, BuildFails, CleanUp, EmitOutcome, ThreadEnds,
         Becomes, Report, OnDisk, Types, BackendTypes
<1>5. Reports(w)' => /\ Reports(w) /\ worker'[w].fork = worker[w].fork
                     /\ worker'[w].cancelled = worker[w].cancelled
  <2>1. CASE ThreadEnds(w)
    <3>1. worker'[w] = [NoWorker EXCEPT !.at = "gone"]
      BY <2>1 DEF ThreadEnds, Types, BackendTypes
    <3> QED
      BY <3>1 DEF Reports, NoWorker
  <2>2. CASE ~ThreadEnds(w)
    <3>1. PICK at : worker' = [worker EXCEPT ![w].at = at] /\ (at = "ending" \/ Reports(w))
      BY <2>2 DEF WorkerStep, Allocate, ProbeFails, Complete, BuildFails, CleanUp, EmitOutcome,
                  Becomes, Report, Reports
    <3>2. worker'[w] = [worker[w] EXCEPT !.at = at]
      BY <3>1 DEF Types, BackendTypes
    <3>3. worker'[w].at = at /\ worker'[w].fork = worker[w].fork /\ worker'[w].cancelled = worker[w].cancelled
      BY <3>2 DEF Types, BackendTypes, WorkerSet
    <3> QED
      BY <3>1, <3>3 DEF Reports
  <2> QED
    BY <2>1, <2>2
<1>6. \A v \in Workers \ {w} : Reports(v)' => Reports(v)
  BY <1>4 DEF Reports
<1> QED
  BY <1>1, <1>2, <1>3, <1>4, <1>5, <1>6

(* A step of the worker that says nothing to the reducer.                    *)
LEMMA WorkerKeepsControl ==
    ASSUME Types, Control, NEW w \in Workers, WorkerStep(w)
    PROVE  Control'
<1> USE DEF Control
<1>1. /\ UNCHANGED <<active, queue, requested, commands, backend, runtime>>
      /\ w = runtime
      /\ \A v \in Workers \ {w} : worker'[v] = worker[v]
      /\ \A v \in Workers : Reports(v)' => Reports(v) /\ worker'[v].fork = worker[v].fork
  BY WorkerFrame
<1>2. Line' /\ OneWorker'
  BY <1>1, LineKept DEF OneWorker
<1>3. Fitting' = Fitting
  BY <1>1, FittingKept
<1>4. InGit' => InGit
  BY <1>1 DEF InGit
<1>5. \A v \in Workers : Reports(v)' => Creating(worker[v].fork)'
  <2> SUFFICES ASSUME NEW v \in Workers, Reports(v)' PROVE Creating(worker[v].fork)'
    OBVIOUS
  <2>1. Creating(worker[v].fork) /\ worker'[v].fork = worker[v].fork
    BY <1>1 DEF JobFits
  <2> QED
    BY <1>1, <2>1 DEF Creating
<1>6. CASE UNCHANGED events
  <2>1. OneJob'
    BY <1>1, <1>4, <1>6 DEF OneJob, Sent, InHand, Leaving, Arriving
  <2>2. JobFits'
    BY <1>1, <1>3, <1>5, <1>6, FitsKept DEF JobFits
  <2>3. CancelComesLast'
    BY <1>1, <1>4, <1>6 DEF CancelComesLast, Sent, InHand, Leaving, BackendAt
  <2> QED
    BY <1>2, <2>1, <2>2, <2>3
<1>7. CASE ~UNCHANGED events
  <2>1. EmitOutcome(w) /\ events' = Append(events, Outcome(w))
    BY <1>7 DEF WorkerStep, Allocate, ProbeFails, Complete, BuildFails, CleanUp, EmitOutcome, ThreadEnds
  <2>2. Reports(w) /\ ~Reports(w)' /\ InGit /\ Creating(worker[w].fork)
    BY <2>1 DEF EmitOutcome, Becomes, Reports, InGit, JobFits, Types, BackendTypes
  <2>3. ~InGit'
    <3>1. \A v \in Workers \ {w} : ~Reports(v)
      BY <1>1 DEF OneWorker, Reports
    <3> QED
      BY <1>1, <2>2, <3>1 DEF InGit
  <2>4. Outcome(w) \in MessageSet /\ Outcome(w).kind \in {"ready", "creationFailed"}
        /\ Outcome(w).fork = worker[w].fork /\ (Outcome(w).kind = "ready" => Outcome(w).worker = w)
    BY DEF Outcome, Message, MessageSet, MessageKinds, Types, BackendTypes, WorkerSet
  <2>5. Outcome(w) \in Fitting
    BY <2>2, <2>4, Limits DEF Fitting, Fits, OpeningKinds, CancelKinds
  <2>6. ~Sent /\ ~InHand /\ ~Leaving /\ ~Arriving
    BY <2>2 DEF OneJob
  <2>7. events \in Seq(MessageSet)
    BY SeqTypes
  <2>8. Once(events, Results)' /\ AllIn(events, Fitting)'
    BY <1>3, <2>1, <2>4, <2>5, <2>6, <2>7, PutCarries, PutIn DEF OneJob, Arriving, JobFits
  <2>9. /\ Cancels(events', "cancelled", active.id) <=> Cancels(events, "cancelled", active.id)
        /\ Ahead(events, Results, "cancelled", active.id) /\ ~Cancels(events, "cancelled", active.id)
             => Ahead(events', Results, "cancelled", active.id)
    BY <2>1, <2>4, <2>7, PutCancels
  <2>10. OneJob'
    BY <1>1, <2>3, <2>6, <2>8 DEF OneJob, Sent, InHand, Leaving
  <2>11. JobFits'
    BY <1>1, <1>3, <1>5, <2>8, FitsKept DEF JobFits
  <2>12. CancelComesLast'
    BY <1>1, <2>2, <2>3, <2>6, <2>9 DEF CancelComesLast, Sent, InHand, Leaving, BackendAt
  <2> QED
    BY <1>2, <2>10, <2>11, <2>12
<1> QED
  BY <1>6, <1>7

-----------------------------------------------------------------------------
(* The backend.                                                              *)
LEMMA BackendFrame ==
    ASSUME Backend
    PROVE  /\ UNCHANGED <<active, queue, requested, kept, disk, quitting>>
           /\ Fitting' = Fitting
           /\ Types => Types'
BY FittingKept, BackendKeepsTypes
   DEF Backend, RunFork, JoinThenStart, RunCancel, CancelJoined, RunStart, AskForChat, RunOther,
       Emit, StopBackend, BackendStopped, notBackend, uiVars, gitVars

(* A command taken from the queue.                                           *)
LEMMA Taking ==
    ASSUME Types, Control, NEW kind, Take(kind)
    PROVE  /\ backend.at = "idle" /\ backend.out = <<>>
           /\ commands' = Tail(commands) /\ Head(commands) \in Fitting /\ Head(commands).kind = kind
           /\ Taken = Head(commands).fork /\ Taken \in {0} \cup Forks
           /\ kind \in Jobs => Sent /\ ~Sent'
           /\ Sent <=> (Sent' \/ kind \in Jobs)
           /\ Once(commands', Jobs) /\ AllIn(commands', Fitting)
           /\ Cancels(commands, "cancel", active.id)
                <=> (Cancels(commands', "cancel", active.id) \/ (kind = "cancel" /\ Taken = active.id))
           /\ Ahead(commands, Jobs, "cancel", active.id) =>
                /\ Ahead(commands', Jobs, "cancel", active.id)
                /\ kind = "cancel" /\ Taken = active.id => ~Sent
<1>1. /\ backend.at = "idle" /\ backend.out = <<>> /\ commands \in Seq(CommandSet) /\ commands # <<>>
      /\ commands' = Tail(commands) /\ Head(commands).kind = kind /\ Taken = Head(commands).fork
  BY SeqTypes DEF Take, Taken
<1>2. Head(commands) \in Fitting /\ AllIn(Tail(commands), Fitting)
  BY <1>1, TakeIn DEF Control, JobFits
<1>3. Head(commands) \in CommandSet
  BY <1>1, TakingFirst
<1>4. /\ Carries(commands, Jobs) <=> (Carries(Tail(commands), Jobs) \/ kind \in Jobs)
      /\ Once(Tail(commands), Jobs) /\ (kind \in Jobs => ~Carries(Tail(commands), Jobs))
  BY <1>1, TakeCarries DEF Control, OneJob
<1>5. /\ Cancels(commands, "cancel", active.id)
           <=> (Cancels(Tail(commands), "cancel", active.id) \/ (kind = "cancel" /\ Taken = active.id))
      /\ Ahead(commands, Jobs, "cancel", active.id) =>
           /\ Ahead(Tail(commands), Jobs, "cancel", active.id)
           /\ kind = "cancel" /\ Taken = active.id => ~Carries(commands, Jobs)
  BY <1>1, TakeCancels
<1> QED
  BY <1>1, <1>2, <1>3, <1>4, <1>5 DEF Sent, CommandSet

LEMMA NothingInOut ==
    ASSUME Types, backend.at # "emit"
    PROVE  /\ backend.out = <<>> /\ ~Leaving
           /\ \A f : ~Cancels(backend.out, "cancelled", f)
BY SeqTypes, NothingOut DEF Leaving

(* A worker that reports is the one the backend knows of.                    *)
LEMMA ReportsOnly ==
    ASSUME Types, Control, NEW w \in Workers, Reports(w)
    PROVE  w = runtime /\ ~Gone(runtime) /\ Reaped = w
BY DEF Control, OneWorker, Reports, Gone, Reaped

(* What the loop sets aside at its head has ended.                           *)
LEMMA ReapedHolds ==
    ASSUME Types, Control
    PROVE  \A w \in Workers : w # Reaped => worker[w].at \in {"none", "gone"}
BY DEF Control, OneWorker, Gone, Reaped

LEMMA RunJobKeeps ==
    ASSUME Types, Control, RunFork \/ RunStart
    PROVE  Control'
<1> DEFINE kind == IF RunFork THEN "fork" ELSE "start"
           at == IF RunFork THEN "join" ELSE "ask"
<1>0. RunFork => ~RunStart
  BY DEF RunFork, RunStart, Take
<1>1. /\ Take(kind) /\ runtime' = Reaped /\ backend' = Busy(at, Taken)
      /\ UNCHANGED <<active, queue, requested, events, worker>>
      /\ kind \in Jobs /\ kind # "cancel" /\ at \in {"join", "ask"}
  BY <1>0, BackendFrame DEF RunFork, RunStart, Goto, gitVars, Jobs, Backend
<1>2. (kind = "fork" /\ at = "join") \/ (kind = "start" /\ at = "ask")
  OBVIOUS
<1> HIDE DEF kind, at
<1>3. Fitting' = Fitting /\ Types'
  BY BackendFrame DEF Backend
<1>4. backend'.at = at /\ backend'.fork = Taken /\ backend'.out = <<>>
  BY <1>1 DEF Busy
<1>5. Line' /\ OneWorker'
  BY <1>1, LineKept, ReapedHolds DEF Control, OneWorker
<1>6. ~Leaving' /\ ~Cancels(backend'.out, "cancelled", active.id) /\ Once(backend'.out, Results)
      /\ AllIn(backend'.out, Fitting)
  BY <1>4, NothingOut DEF Leaving
<1>7. InGit' <=> InGit
  BY <1>1 DEF InGit, Reports
<1>8. /\ Sent /\ ~Sent' /\ Once(commands', Jobs) /\ AllIn(commands', Fitting)
      /\ Ahead(commands, Jobs, "cancel", active.id) => Ahead(commands', Jobs, "cancel", active.id)
  BY <1>1, Taking
<1>9. (at = "join" => Creating(Taken)) /\ (at = "ask" => Opening(Taken))
  BY <1>1, <1>2, Taking DEF Fitting, Fits, CreatingKinds, OpeningKinds
<1>10. OneJob'
  BY <1>1, <1>6, <1>7, <1>8 DEF Control, OneJob, Arriving, Leaving
<1>11. JobFits'
  <2>1. \A w \in Workers : Reports(w)' => Creating(worker[w].fork)'
    BY <1>1 DEF Control, JobFits, Reports, Creating
  <2>2. (backend'.at = "join" => Creating(backend.fork)') /\ (backend'.at = "ask" => Opening(backend.fork)')
        /\ backend'.at # "cancel"
    BY <1>1, <1>4, <1>9 DEF Creating, Opening
  <2> QED
    BY <1>1, <1>3, <1>6, <1>8, <2>1, <2>2 DEF Control, JobFits
<1>12. CancelComesLast'
  BY <1>1, <1>4, <1>6, <1>7, <1>8 DEF Control, CancelComesLast, BackendAt, OneJob
<1> QED
  BY <1>5, <1>10, <1>11, <1>12 DEF Control

LEMMA JoinThenStartKeeps ==
    ASSUME Types, Control, JoinThenStart
    PROVE  Control'
<1>1. /\ backend.at = "join" /\ Gone(runtime)
      /\ UNCHANGED <<active, queue, requested, commands, events>>
      /\ Fitting' = Fitting /\ Types'
  BY BackendFrame DEF JoinThenStart, Backend
<1>2. InHand /\ ~Sent /\ ~InGit /\ ~Leaving /\ ~Arriving /\ Creating(backend.fork)
  BY <1>1 DEF Control, OneJob, JobFits, InHand
<1>3. \A w \in Workers : worker[w].at \in {"none", "gone"}
  BY <1>1 DEF Control, OneWorker, Gone
<1>4. Line' /\ ~Sent' /\ ~Arriving' /\ backend'.at \in {"idle", "emit"}
  BY <1>1, <1>2, LineKept DEF Control, Sent, Arriving, JoinThenStart, StartWorker, Goto, Idle, Emitting
<1>5. CASE StartWorker
  <2> DEFINE rec == [NoWorker EXCEPT !.fork = backend.fork, !.at = "probing"]
  <2>1. PICK w \in Workers : /\ worker' = [worker EXCEPT ![w] = rec]
                             /\ runtime' = w /\ backend' = Idle
    BY <1>5 DEF StartWorker, Unused, Goto
  <2>2. rec.fork = backend.fork /\ rec.at = "probing"
    BY DEF NoWorker
  <2> HIDE DEF rec
  <2>3. worker'[w] = rec /\ \A v \in Workers \ {w} : worker'[v] = worker[v]
    BY <2>1 DEF Types, BackendTypes
  <2>4. OneWorker'
    BY <1>3, <2>1, <2>3 DEF OneWorker
  <2>5. backend'.out = <<>> /\ backend'.at = "idle"
    BY <2>1 DEF Idle
  <2>6. ~Leaving' /\ ~Cancels(backend'.out, "cancelled", active.id) /\ Once(backend'.out, Results)
        /\ AllIn(backend'.out, Fitting)
    BY <2>5, NothingOut DEF Leaving
  <2>7. OneJob'
    BY <1>1, <1>4, <2>5, <2>6 DEF Control, OneJob, InHand
  <2>8. \A v \in Workers : Reports(v)' => Creating(worker[v].fork)'
    BY <1>1, <1>2, <1>3, <2>2, <2>3 DEF Reports, Creating
  <2>9. JobFits'
    BY <1>1, <2>5, <2>6, <2>8 DEF Control, JobFits
  <2>10. CancelComesLast'
    BY <1>1, <1>2, <1>4, <2>5, <2>6 DEF Control, CancelComesLast, BackendAt
  <2> QED
    BY <1>4, <2>4, <2>7, <2>9, <2>10 DEF Control
<1>6. CASE ~StartWorker
  <2> DEFINE m == Message("creationFailed", backend.fork, 0)
  <2>1. runtime' = 0 /\ worker' = worker /\ backend' = Emitting(<<m>>)
    BY <1>6 DEF JoinThenStart, Goto
  <2>2. m \in MessageSet /\ m.kind = "creationFailed" /\ m.fork = backend.fork
    BY DEF Message, MessageSet, MessageKinds, Types, BackendTypes, BackendSet
  <2>3. m \in Fitting
    BY <1>2, <2>2 DEF Fitting, Fits, OpeningKinds, CancelKinds
  <2> HIDE DEF m
  <2>4. backend'.at = "emit" /\ backend'.out = <<m>>
    BY <2>1 DEF Emitting
  <2>5. /\ Once(backend'.out, Results) /\ AllIn(backend'.out, Fitting)
        /\ ~Cancels(backend'.out, "cancelled", active.id)
    BY <2>2, <2>3, <2>4, OneOut
  <2>6. OneWorker' /\ ~InGit'
    BY <1>3, <2>1 DEF OneWorker, InGit, Reports
  <2>7. OneJob'
    BY <1>1, <1>4, <2>4, <2>5, <2>6 DEF Control, OneJob, InHand
  <2>8. JobFits'
    BY <1>1, <2>4, <2>5, <2>6 DEF Control, JobFits, InGit
  <2>9. CancelComesLast'
    <3>1. ASSUME active.phase = "cancelling" PROVE ~Cancels(events, "cancelled", active.id)
      BY <1>2, <3>1 DEF Control, CancelComesLast
    <3> QED
      BY <1>1, <1>2, <1>4, <2>4, <2>5, <3>1 DEF Control, CancelComesLast, BackendAt
  <2> QED
    BY <1>4, <2>6, <2>7, <2>8, <2>9 DEF Control
<1> QED
  BY <1>5, <1>6

LEMMA RunCancelKeeps ==
    ASSUME Types, Control, RunCancel
    PROVE  Control'
<1>1. /\ Take("cancel") /\ runtime' = Reaped
      /\ UNCHANGED <<active, queue, requested, events>> /\ Fitting' = Fitting /\ Types'
  BY BackendFrame DEF RunCancel, Backend
<1>2. /\ backend.at = "idle" /\ Once(commands', Jobs) /\ AllIn(commands', Fitting)
      /\ Sent' => Sent
      /\ Ahead(commands, Jobs, "cancel", active.id) =>
                /\ Ahead(commands', Jobs, "cancel", active.id)
                /\ Taken = active.id => ~Sent
  BY <1>1, Taking
<1>3. GivenUp(Taken) /\ Taken \in {0} \cup Forks
  BY <1>1, Taking DEF Fitting, Fits, CancelKinds
<1>4. \A v \in Workers : worker'[v].at = worker[v].at /\ worker'[v].fork = worker[v].fork
  BY DEF RunCancel, Types, BackendTypes, WorkerSet
<1>5. Line' /\ OneWorker'
  BY <1>1, <1>4, LineKept, ReapedHolds DEF Control, OneWorker
<1>6. InGit' <=> InGit
  BY <1>4 DEF InGit, Reports
<1>7. \A v \in Workers : Reports(v)' => Creating(worker[v].fork)'
  BY <1>1, <1>4 DEF Control, JobFits, Reports, Creating
<1>8. CASE Reaped # 0 /\ worker[Reaped].fork = Taken
  <2>1. backend' = Busy("cancel", Taken)
    BY <1>8 DEF RunCancel, Goto
  <2>2. backend'.at = "cancel" /\ backend'.fork = Taken /\ backend'.out = <<>>
    BY <2>1 DEF Busy
  <2>3. ~Leaving' /\ ~Cancels(backend'.out, "cancelled", active.id) /\ Once(backend'.out, Results)
        /\ AllIn(backend'.out, Fitting)
    BY <2>2, NothingOut DEF Leaving
  <2>4. OneJob'
    BY <1>1, <1>2, <1>6, <2>2, <2>3 DEF Control, OneJob, InHand, Arriving
  <2>5. JobFits'
    BY <1>1, <1>2, <1>3, <1>7, <2>2, <2>3 DEF Control, JobFits, GivenUp, Begun, Queued
  <2>6. CancelComesLast'
    BY <1>1, <1>2, <1>6, <2>2, <2>3 DEF Control, CancelComesLast, BackendAt, InHand
  <2> QED
    BY <1>5, <2>4, <2>5, <2>6 DEF Control
<1>9. CASE ~(Reaped # 0 /\ worker[Reaped].fork = Taken)
  <2> DEFINE m == Message("cancelled", Taken, 0)
  <2>1. backend' = Emitting(<<m>>)
    BY <1>9 DEF RunCancel, Goto
  <2>2. m \in MessageSet /\ m.kind = "cancelled" /\ m.fork = Taken
    BY <1>3 DEF Message, MessageSet, MessageKinds
  <2>3. m \in Fitting
    BY <1>3, <2>2 DEF Fitting, Fits, OpeningKinds, CreatingKinds
  <2> HIDE DEF m
  <2>4. backend'.at = "emit" /\ backend'.out = <<m>>
    BY <2>1 DEF Emitting
  <2>5. /\ Once(backend'.out, Results) /\ AllIn(backend'.out, Fitting) /\ ~Leaving'
        /\ Cancels(backend'.out, "cancelled", active.id) <=> Taken = active.id
    BY <2>2, <2>3, <2>4, OneOut DEF Leaving, Results
  <2>6. OneJob'
    BY <1>1, <1>2, <1>6, <2>4, <2>5 DEF Control, OneJob, InHand, Arriving
  <2>7. JobFits'
    BY <1>1, <1>2, <1>7, <2>4, <2>5 DEF Control, JobFits
  <2>8. Taken = active.id => ~InGit
    <3> SUFFICES ASSUME Taken = active.id, NEW w \in Workers, Reports(w) PROVE FALSE
      BY DEF InGit
    <3>1. Creating(worker[w].fork) /\ w = Reaped
      BY ReportsOnly DEF Control, JobFits
    <3> QED
      BY <1>9, <3>1, Limits DEF Creating
  <2>9. CancelComesLast'
    BY <1>1, <1>2, <1>6, <2>4, <2>5, <2>8 DEF Control, CancelComesLast, BackendAt, InHand
  <2> QED
    BY <1>5, <2>6, <2>7, <2>9 DEF Control
<1> QED
  BY <1>8, <1>9

LEMMA CancelJoinedKeeps ==
    ASSUME Types, Control, CancelJoined
    PROVE  Control'
<1> DEFINE m == Message("cancelled", backend.fork, 0)
<1>1. /\ backend.at = "cancel" /\ Gone(runtime) /\ runtime' = 0 /\ backend' = Emitting(<<m>>)
      /\ UNCHANGED <<active, queue, requested, commands, events, worker>>
      /\ Fitting' = Fitting /\ Types'
  BY BackendFrame DEF CancelJoined, Backend, Goto, gitVars
<1>2. GivenUp(backend.fork)
  BY <1>1 DEF Control, JobFits
<1>3. \A w \in Workers : worker[w].at \in {"none", "gone"}
  BY <1>1 DEF Control, OneWorker, Gone
<1>4. Line' /\ OneWorker' /\ ~InGit'
  BY <1>1, <1>3, LineKept DEF Control, OneWorker, InGit, Reports
<1>5. m \in MessageSet /\ m.kind = "cancelled" /\ m.fork = backend.fork
  BY DEF Message, MessageSet, MessageKinds, Types, BackendTypes, BackendSet
<1>6. m \in Fitting
  BY <1>2, <1>5 DEF Fitting, Fits, OpeningKinds, CreatingKinds
<1> HIDE DEF m
<1>7. backend'.at = "emit" /\ backend'.out = <<m>>
  BY <1>1 DEF Emitting
<1>8. /\ Once(backend'.out, Results) /\ AllIn(backend'.out, Fitting) /\ ~Leaving'
      /\ Cancels(backend'.out, "cancelled", active.id) <=> backend.fork = active.id
  BY <1>5, <1>6, <1>7, OneOut DEF Leaving, Results
<1>9. OneJob'
  BY <1>1, <1>4, <1>7, <1>8 DEF Control, OneJob, InHand, Sent, Arriving
<1>10. JobFits'
  BY <1>1, <1>4, <1>7, <1>8 DEF Control, JobFits, InGit
<1>11. CancelComesLast'
  BY <1>1, <1>4, <1>7, <1>8 DEF Control, CancelComesLast, BackendAt, InHand, Sent
<1> QED
  BY <1>4, <1>9, <1>10, <1>11 DEF Control

LEMMA AskForChatKeeps ==
    ASSUME Types, Control, AskForChat
    PROVE  Control'
<1>1. PICK kind \in {"completed", "conversationFailed"} :
        backend' = Emitting(IF kind = "completed" THEN <<Note, Message(kind, backend.fork, 0)>>
                            ELSE <<Message(kind, backend.fork, 0)>>)
  BY DEF AskForChat, Goto
<1> DEFINE m == Message(kind, backend.fork, 0)
<1>2. /\ backend.at = "ask" /\ UNCHANGED <<active, queue, requested, commands, events, worker, runtime>>
      /\ Fitting' = Fitting /\ Types'
  BY BackendFrame DEF AskForChat, Backend, gitVars
<1>3. Opening(backend.fork) /\ InHand /\ ~Sent /\ ~InGit /\ ~Arriving
  BY <1>2 DEF Control, JobFits, OneJob, InHand
<1>4. Line' /\ OneWorker' /\ ~InGit' /\ ~Sent' /\ ~Arriving'
  BY <1>2, <1>3, LineKept DEF Control, OneWorker, InGit, Reports, Sent, Arriving
<1>5. m \in MessageSet /\ m.kind = kind /\ m.fork = backend.fork
      /\ Note \in MessageSet /\ Note.kind = "note"
  BY DEF Message, Note, MessageSet, MessageKinds, Types, BackendTypes, BackendSet
<1>6. m \in Fitting /\ Note \in Fitting
  BY <1>3, <1>5 DEF Fitting, Fits, CancelKinds, CreatingKinds, OpeningKinds
<1> HIDE DEF m
<1>7. backend'.at = "emit" /\ backend'.out \in {<<m>>, <<Note, m>>}
  BY <1>1 DEF Emitting, m
<1>8. /\ Once(backend'.out, Results) /\ AllIn(backend'.out, Fitting)
      /\ ~Cancels(backend'.out, "cancelled", active.id)
  <2>1. "note" \notin Results
    BY DEF Results
  <2>2. CASE backend'.out = <<m>>
    BY <1>5, <1>6, <2>2, OneOut
  <2>3. CASE backend'.out = <<Note, m>>
    <3>1. Once(<<Note, m>>, Results)
      BY <1>6, <2>1, TwoOut
    <3>2. AllIn(<<Note, m>>, Fitting) /\ ~Cancels(<<Note, m>>, "cancelled", active.id)
      BY <1>5, <1>6, <2>1, TwoOut
    <3> QED
      BY <2>3, <3>1, <3>2
  <2> QED
    BY <1>7, <2>2, <2>3
<1>9. OneJob'
  BY <1>2, <1>4, <1>7, <1>8 DEF Control, OneJob, InHand
<1>10. JobFits'
  BY <1>2, <1>4, <1>7, <1>8 DEF Control, JobFits, InGit
<1>11. CancelComesLast'
  BY <1>2, <1>3 DEF Control, CancelComesLast, Opening
<1> QED
  BY <1>4, <1>9, <1>10, <1>11 DEF Control

LEMMA RunOtherKeeps ==
    ASSUME Types, Control, RunOther
    PROVE  Control'
<1>1. /\ Take("other") /\ runtime' = Reaped /\ backend' = Emitting(<<Note>>)
      /\ UNCHANGED <<active, queue, requested, events, worker>>
      /\ Fitting' = Fitting /\ Types'
  BY BackendFrame DEF RunOther, Backend, Goto, gitVars
<1>2. /\ Once(commands', Jobs) /\ AllIn(commands', Fitting) /\ (Sent' => Sent)
      /\ Ahead(commands, Jobs, "cancel", active.id) => Ahead(commands', Jobs, "cancel", active.id)
  BY <1>1, Taking
<1>3. Note \in MessageSet /\ Note.kind = "note"
  BY DEF Message, Note, MessageSet, MessageKinds
<1>4. Note \in Fitting
  BY <1>3 DEF Fitting, Fits, CancelKinds, CreatingKinds, OpeningKinds
<1>5. backend'.at = "emit" /\ backend'.out = <<Note>>
  BY <1>1 DEF Emitting
<1>6. /\ Once(backend'.out, Results) /\ AllIn(backend'.out, Fitting) /\ ~Leaving'
      /\ ~Cancels(backend'.out, "cancelled", active.id)
  BY <1>3, <1>4, <1>5, OneOut DEF Leaving, Results
<1>7. Line' /\ OneWorker' /\ (InGit' <=> InGit)
  BY <1>1, LineKept, ReapedHolds DEF Control, OneWorker, InGit, Reports
<1>8. OneJob'
  BY <1>1, <1>2, <1>5, <1>6, <1>7 DEF Control, OneJob, InHand, Arriving
<1>9. JobFits'
  BY <1>1, <1>2, <1>5, <1>6 DEF Control, JobFits, Reports, Creating
<1>10. CancelComesLast'
  BY <1>1, <1>2, <1>5, <1>6, <1>7 DEF Control, CancelComesLast, BackendAt, InHand
<1> QED
  BY <1>7, <1>8, <1>9, <1>10 DEF Control

LEMMA TailOfOne == ASSUME NEW S, NEW s \in Seq(S), Len(s) = 1 PROVE Tail(s) = <<>>
<1> DEFINE t == Tail(s)
<1>1. t \in Seq(S) /\ Len(t) = 0
  OBVIOUS
<1> HIDE DEF t
<1>2. t = <<>>
  BY <1>1
<1> QED
  BY <1>2 DEF t

LEMMA EmitKeeps ==
    ASSUME Types, Control, Emit
    PROVE  Control'
<1> DEFINE m == Head(backend.out)
           rest == Tail(backend.out)
<1>1. /\ backend.at = "emit" /\ backend.out \in Seq(MessageSet) /\ backend.out # <<>>
      /\ UNCHANGED <<active, queue, requested, commands, worker, runtime>>
      /\ Fitting' = Fitting /\ Types'
  BY BackendFrame, SeqTypes DEF Emit, Backend, gitVars
<1>2. m \in MessageSet /\ m \in Fitting /\ AllIn(rest, Fitting)
  BY <1>1, TakeIn, TakingFirst DEF Control, JobFits
<1>3. /\ Leaving <=> (Carries(rest, Results) \/ m.kind \in Results)
      /\ Once(rest, Results) /\ (m.kind \in Results => ~Carries(rest, Results))
  BY <1>1, TakeCarries DEF Control, OneJob, Leaving
<1>4. Cancels(backend.out, "cancelled", active.id)
        <=> (Cancels(rest, "cancelled", active.id) \/ (m.kind = "cancelled" /\ m.fork = active.id))
  <2>1. Jobs = Jobs
    OBVIOUS
  <2> QED
    BY <1>1, <2>1, TakeCancels
<1>5. backend'.at \in {"idle", "emit"} /\ backend'.out = rest
  <2>1. CASE Len(backend.out) = 1
    <3>1. rest = <<>>
      BY <1>1, <2>1, TailOfOne
    <3> QED
      BY <2>1, <3>1 DEF Emit, Goto, Idle
  <2>2. CASE Len(backend.out) # 1
    BY <2>2 DEF Emit, Goto, Emitting
  <2> QED
    BY <2>1, <2>2
<1> HIDE DEF m, rest
<1>6. Line' /\ OneWorker' /\ (InGit' <=> InGit) /\ (Sent' <=> Sent)
  BY <1>1, LineKept DEF Control, OneWorker, InGit, Reports, Sent
<1>7. UNCHANGED events \/ events' = Append(events, m)
  BY DEF Emit, m
<1>8. events \in Seq(MessageSet)
  BY SeqTypes
<1>9. /\ Arriving' => Arriving \/ m.kind \in Results
      /\ Once(events, Results) /\ (m.kind \in Results => ~Arriving) => Once(events', Results)
      /\ AllIn(events', Fitting)
  BY <1>2, <1>7, <1>8, PutCarries, PutIn DEF Control, JobFits, Arriving
<1>10. /\ Cancels(events', "cancelled", active.id)
             => Cancels(events, "cancelled", active.id) \/ (m.kind = "cancelled" /\ m.fork = active.id)
       /\ /\ Ahead(events, Results, "cancelled", active.id)
          /\ m.kind \in Results => ~Cancels(events, "cancelled", active.id)
          => Ahead(events', Results, "cancelled", active.id)
  <2>1. "cancelled" \notin Results
    BY DEF Results
  <2>2. /\ Cancels(Append(events, m), "cancelled", active.id)
             <=> (Cancels(events, "cancelled", active.id) \/ (m.kind = "cancelled" /\ m.fork = active.id))
        /\ /\ Ahead(events, Results, "cancelled", active.id)
           /\ m.kind \in Results => ~Cancels(events, "cancelled", active.id) /\ m.kind # "cancelled"
           => Ahead(Append(events, m), Results, "cancelled", active.id)
    BY <1>2, <1>8, PutCancels
  <2> QED
    BY <1>7, <2>1, <2>2
<1>11. OneJob'
  BY <1>1, <1>3, <1>5, <1>6, <1>9 DEF Control, OneJob, InHand, Leaving
<1>12. JobFits'
  BY <1>1, <1>2, <1>5, <1>9 DEF Control, JobFits, Reports, Creating
<1>13. CancelComesLast'
  <2>1. ASSUME active.phase = "cancelling", m.kind = "cancelled", m.fork = active.id
        PROVE  ~Sent /\ ~InGit /\ ~InHand /\ ~Carries(rest, Results)
    BY <1>1, <1>3, <1>4, <2>1 DEF Control, CancelComesLast, InHand
  <2> QED
    BY <1>1, <1>3, <1>4, <1>5, <1>6, <1>10, <2>1 DEF Control, CancelComesLast, BackendAt, InHand, Leaving
<1> QED
  BY <1>6, <1>11, <1>12, <1>13 DEF Control

LEMMA StoppingKeeps ==
    ASSUME Types, Control, StopBackend \/ BackendStopped
    PROVE  Control'
<1>1. /\ backend.at # "emit" /\ backend'.at \in {"stopping", "stopped"} /\ backend'.out = <<>>
      /\ UNCHANGED <<active, queue, requested, commands, events>>
      /\ Fitting' = Fitting /\ Types'
  BY BackendFrame DEF StopBackend, BackendStopped, Backend, Goto, Busy
<1>2. \A v \in Workers : worker'[v].at = worker[v].at /\ worker'[v].fork = worker[v].fork
  BY DEF StopBackend, BackendStopped, gitVars, Types, BackendTypes, WorkerSet
<1>3. OneWorker'
  <2>1. CASE StopBackend
    BY <1>2, <2>1 DEF StopBackend, Control, OneWorker
  <2>2. CASE BackendStopped
    BY <1>2, <2>2 DEF BackendStopped, Control, OneWorker, Gone
  <2> QED
    BY <2>1, <2>2
<1>4. Line' /\ (InGit' <=> InGit) /\ (Sent' <=> Sent) /\ (Arriving' <=> Arriving)
  BY <1>1, <1>2, LineKept DEF Control, InGit, Reports, Sent, Arriving
<1>5. ~Leaving' /\ ~Cancels(backend'.out, "cancelled", active.id) /\ Once(backend'.out, Results)
      /\ AllIn(backend'.out, Fitting)
  BY <1>1, NothingOut DEF Leaving
<1>6. OneJob'
  BY <1>1, <1>4, <1>5 DEF Control, OneJob, InHand
<1>7. JobFits'
  BY <1>1, <1>2, <1>5 DEF Control, JobFits, Reports, Creating
<1>8. CancelComesLast'
  BY <1>1, <1>4, <1>5 DEF Control, CancelComesLast, BackendAt, InHand
<1> QED
  BY <1>3, <1>4, <1>6, <1>7, <1>8 DEF Control

LEMMA BackendKeepsControl == Types /\ Control /\ Backend => Control'
BY RunJobKeeps, JoinThenStartKeeps, RunCancelKeeps, CancelJoinedKeeps, AskForChatKeeps, RunOtherKeeps,
   EmitKeeps, StoppingKeeps DEF Backend

-----------------------------------------------------------------------------
(* The reducer and the user.                                                 *)
LEMMA NotCarried ==
    ASSUME NEW s, NEW kinds, ~Carries(s, kinds)
    PROVE  Once(s, kinds) /\ \A i \in DOMAIN s : s[i].kind \notin kinds
BY DEF Carries, Once

LEMMA NotCancelled ==
    ASSUME NEW s, NEW kinds, NEW kind, NEW f, ~Cancels(s, kind, f)
    PROVE  Ahead(s, kinds, kind, f)
BY DEF Cancels, Ahead

(* When a phase ends, what is left fits: there is no job.                    *)
LEMMA StillFits ==
    ASSUME \A f : GivenUp(f) => GivenUp(f)', NEW m \in Fitting, m.kind \notin Jobs \cup Results
    PROVE  m \in Fitting'
BY DEF Fitting, Fits, CreatingKinds, OpeningKinds, Jobs, Results

LEMMA CommandsStillFit ==
    ASSUME \A f : GivenUp(f) => GivenUp(f)', NEW s \in Seq(CommandSet), AllIn(s, Fitting), ~Carries(s, Jobs)
    PROVE  AllIn(s, Fitting')
<1> SUFFICES ASSUME NEW i \in DOMAIN s PROVE s[i] \in Fitting'
  BY DEF AllIn
<1>1. s[i] \in CommandSet /\ s[i] \in Fitting /\ s[i].kind \notin Jobs
  BY NotCarried DEF AllIn
<1>2. s[i].kind \notin Results
  BY <1>1 DEF CommandSet, CommandKinds, Results
<1> QED
  BY <1>1, <1>2, StillFits

LEMMA MessagesStillFit ==
    ASSUME \A f : GivenUp(f) => GivenUp(f)', NEW s \in Seq(MessageSet), AllIn(s, Fitting), ~Carries(s, Results)
    PROVE  AllIn(s, Fitting')
<1> SUFFICES ASSUME NEW i \in DOMAIN s PROVE s[i] \in Fitting'
  BY DEF AllIn
<1>1. s[i] \in MessageSet /\ s[i] \in Fitting /\ s[i].kind \notin Results
  BY NotCarried DEF AllIn
<1>2. s[i].kind \notin Jobs
  BY <1>1 DEF MessageSet, MessageKinds, Jobs
<1> QED
  BY <1>1, <1>2, StillFits

LEMMA PhaseKeeps ==
    ASSUME Types, Control, UNCHANGED <<backend, runtime, worker>>,
           ~Sent, ~InHand, ~InGit, ~Leaving,
           events' \in Seq(MessageSet), AllIn(events', Fitting), ~Carries(events', Results),
           \A f : GivenUp(f) => GivenUp(f)', Line', active'.phase # "cancelling",
           \/ UNCHANGED commands
           \/ \E c \in CommandSet : /\ commands' = Append(commands, c)
                                    /\ c.kind \in Jobs /\ c \in Fitting'
    PROVE  Control'
<1>1. commands \in Seq(CommandSet) /\ backend.out \in Seq(MessageSet)
  BY SeqTypes
<1>2. /\ AllIn(commands, Fitting') /\ AllIn(backend'.out, Fitting') /\ AllIn(events', Fitting')
  BY <1>1, CommandsStillFit, MessagesStillFit DEF Control, JobFits, Sent, Leaving
<1>3. /\ AllIn(commands', Fitting') /\ Once(commands', Jobs)
  <2>1. CASE UNCHANGED commands
    BY <1>2, <2>1 DEF Control, OneJob
  <2>2. CASE ~UNCHANGED commands
    <3>1. PICK c \in CommandSet : commands' = Append(commands, c) /\ c \in Fitting'
      BY <2>2
    <3>2. AllIn(commands', Fitting')
      BY <1>1, <1>2, <3>1, PutIn
    <3>3. Once(commands', Jobs)
      BY <1>1, <3>1, PutCarries, NotCarried DEF Sent
    <3> QED
      BY <3>2, <3>3
  <2> QED
    BY <2>1, <2>2
<1>4. ~InHand' /\ ~InGit' /\ ~Leaving' /\ ~Arriving' /\ Once(events', Results) /\ Once(backend'.out, Results)
  BY NotCarried DEF InHand, InGit, Reports, Leaving, Arriving
<1>5. OneJob'
  BY <1>3, <1>4 DEF OneJob
<1>6. JobFits'
  <2>1. backend.at = "cancel" => GivenUp(backend.fork)'
    <3>1. ASSUME NEW f, f = backend.fork, backend.at = "cancel" PROVE GivenUp(f)'
      BY <3>1 DEF Control, JobFits
    <3> QED
      BY <3>1 DEF GivenUp, Begun, Queued
  <2> QED
    BY <1>2, <1>3, <1>4, <2>1 DEF JobFits, InHand, InGit
<1>7. OneWorker' /\ CancelComesLast'
  BY DEF Control, OneWorker, CancelComesLast
<1> QED
  BY <1>5, <1>6, <1>7 DEF Control

(* In the other phases there is no job.                                      *)
LEMMA NoJob ==
    ASSUME Types, Control, active.phase \notin {"creating", "cancelling", "starting"}
    PROVE  ~Sent /\ ~InHand /\ ~InGit /\ ~Leaving /\ ~Arriving
<1>1. \A f : ~Creating(f) /\ ~Opening(f)
  BY DEF Creating, Opening
<1>2. \A m \in Fitting : m.kind \notin Jobs \cup Results
  BY <1>1 DEF Fitting, Fits, CreatingKinds, OpeningKinds, Jobs, Results
<1>3. ~Sent /\ ~Leaving /\ ~Arriving
  BY <1>2 DEF Control, JobFits, AllIn, Sent, Leaving, Arriving, Carries
<1>4. ~InHand /\ ~InGit
  BY <1>1 DEF Control, JobFits, InHand, InGit
<1> QED
  BY <1>3, <1>4

(* The queue of requests.                                                    *)
LEMMA Queue ==
    ASSUME Types, Line
    PROVE  /\ DOMAIN queue = 1..Len(queue) /\ Len(queue) \in Nat
           /\ \A i \in DOMAIN queue : queue[i] \in Forks
           /\ active.id \in {0} \cup Forks /\ requested \in Nat /\ 0 \notin Forks /\ Forks \subseteq Nat
           /\ active.id = 0 => active = NoFork
<1>1. active.id = 0 => active = NoFork
  <2> SUFFICES ASSUME active.id = 0 PROVE active = NoFork
    OBVIOUS
  <2>1. active.phase = "none" /\ active.root = 0
    BY DEF Line
  <2>2. active = [id |-> active.id, phase |-> active.phase, root |-> active.root]
    BY DEF Types, UiTypes
  <2> QED
    BY <2>1, <2>2 DEF NoFork, Fork
<1> QED
  BY <1>1, Limits DEF Types, UiTypes

LEMMA QueueTail ==
    ASSUME Types, Line, queue # <<>>
    PROVE  /\ Head(queue) \in Forks /\ Head(queue) <= requested /\ Queued(Head(queue))
           /\ \A i \in DOMAIN Tail(queue) : Head(queue) < Tail(queue)[i] /\ Tail(queue)[i] <= requested
           /\ \A i, j \in DOMAIN Tail(queue) : i < j => Tail(queue)[i] < Tail(queue)[j]
           /\ \A f : (\E i \in DOMAIN Tail(queue) : Tail(queue)[i] = f) => Queued(f)
<1> DEFINE t == Tail(queue)
<1>1. /\ DOMAIN t = 1..(Len(queue) - 1) /\ DOMAIN queue = 1..Len(queue) /\ Len(queue) \in Nat \ {0}
      /\ Head(queue) \in Forks /\ Head(queue) = queue[1] /\ \A i \in 1..(Len(queue) - 1) : t[i] = queue[i + 1]
  BY TakingFirst DEF Types, UiTypes
<1> HIDE DEF t
<1>2. \A i \in DOMAIN t : i \in Nat /\ i + 1 \in DOMAIN queue /\ 1 < i + 1 /\ t[i] = queue[i + 1]
  BY <1>1
<1>3. 1 \in DOMAIN queue
  BY <1>1
<1>4. \A i \in DOMAIN t : Head(queue) < t[i] /\ t[i] <= requested
  BY <1>1, <1>2, <1>3 DEF Line
<1>5. \A i, j \in DOMAIN t : i < j => t[i] < t[j]
  <2> SUFFICES ASSUME NEW i \in DOMAIN t, NEW j \in DOMAIN t, i < j PROVE t[i] < t[j]
    OBVIOUS
  <2>1. i + 1 < j + 1 /\ i + 1 \in DOMAIN queue /\ j + 1 \in DOMAIN queue
    BY <1>2
  <2> QED
    BY <1>2, <2>1 DEF Line
<1>6. \A f : (\E i \in DOMAIN t : t[i] = f) => Queued(f)
  BY <1>2 DEF Queued
<1>7. Head(queue) <= requested /\ Queued(Head(queue))
  BY <1>1, <1>3 DEF Line, Queued
<1> QED
  BY <1>1, <1>4, <1>5, <1>6, <1>7 DEF t

(* A request is sent for a phase, or refused.                                *)
LEMMA StartNowFacts ==
    ASSUME Types, NEW f \in Forks, StartNow(f)
    PROVE  \/ active' = Fork(f, "failedCreating", 0) /\ UNCHANGED commands
           \/ /\ active' = Fork(f, "creating", 0)
              /\ \E c \in CommandSet : /\ commands' = Append(commands, c)
                                       /\ c.kind = "fork" /\ c.fork = f /\ c \in Fitting'
<1> DEFINE c == Command("fork", f)
<1>1. c \in CommandSet /\ c.kind = "fork" /\ c.fork = f
  BY DEF Command, CommandSet, CommandKinds
<1>2. Fork(f, "creating", 0).id = f /\ Fork(f, "creating", 0).phase = "creating"
  BY DEF Fork
<1>3. \/ active' = Fork(f, "failedCreating", 0) /\ UNCHANGED commands
      \/ active' = Fork(f, "creating", 0) /\ commands' = Append(commands, c)
  BY <1>2 DEF StartNow, Dispatch
<1> HIDE DEF c
<1>4. active' = Fork(f, "creating", 0) => c \in Fitting'
  BY <1>1, <1>2 DEF Fitting, Fits, Creating, OpeningKinds, CancelKinds
<1> QED
  BY <1>1, <1>3, <1>4

LEMMA OpenChatFacts ==
    ASSUME Types, NEW fork \in [id : {0} \cup Forks, phase : Phases, root : {0} \cup Workers], OpenChat(fork)
    PROVE  /\ active'.id = fork.id /\ active'.root = fork.root
           /\ \/ active'.phase = "failedStarting" /\ UNCHANGED commands
              \/ /\ active'.phase = "starting"
                 /\ \E c \in CommandSet : /\ commands' = Append(commands, c)
                                          /\ c.kind = "start" /\ c.fork = fork.id /\ c \in Fitting'
<1> DEFINE sent == [fork EXCEPT !.phase = "starting"]
           c == Command("start", sent.id)
<1>1. sent.id = fork.id /\ sent.root = fork.root /\ sent.phase = "starting"
  OBVIOUS
<1>2. c \in CommandSet /\ c.kind = "start" /\ c.fork = fork.id
  BY <1>1 DEF Command, CommandSet, CommandKinds
<1>3. \/ active' = [fork EXCEPT !.phase = "failedStarting"] /\ UNCHANGED commands
      \/ active' = sent /\ commands' = Append(commands, c)
  BY DEF OpenChat, Dispatch
<1> HIDE DEF c, sent
<1>4. active' = sent => c \in Fitting'
  BY <1>1, <1>2 DEF Fitting, Fits, Opening, CreatingKinds, CancelKinds
<1> QED
  BY <1>1, <1>2, <1>3, <1>4

LEMMA StartNextFacts ==
    ASSUME Types, Line, StartNext, UNCHANGED requested
    PROVE  /\ Line' /\ active'.phase \in {"none", "creating", "failedCreating"} /\ active'.root = 0
           /\ \A f : Begun(f) => Begun(f)' /\ f # active'.id
           /\ \/ UNCHANGED commands
              \/ /\ active'.phase = "creating"
                 /\ \E c \in CommandSet : /\ commands' = Append(commands, c)
                                          /\ c.kind = "fork" /\ c \in Fitting'
<1>1. CASE queue = <<>>
  <2>1. active' = NoFork /\ UNCHANGED <<queue, commands, requested>>
    BY <1>1 DEF StartNext
  <2>2. NoFork.id = 0 /\ NoFork.phase = "none" /\ NoFork.root = 0
    BY DEF NoFork, Fork
  <2>3. requested \in Nat /\ 0 <= requested
    BY Queue
  <2> QED
    BY <1>1, <2>1, <2>2, <2>3 DEF Line, Begun, Queued
<1>2. CASE queue # <<>>
  <2>1. StartNow(Head(queue)) /\ queue' = Tail(queue) /\ Head(queue) \in Forks /\ Head(queue) <= requested
    BY <1>2, QueueTail DEF StartNext
  <2>2. \/ active' = Fork(Head(queue), "failedCreating", 0) /\ UNCHANGED commands
        \/ /\ active' = Fork(Head(queue), "creating", 0)
           /\ \E c \in CommandSet : /\ commands' = Append(commands, c)
                                    /\ c.kind = "fork" /\ c \in Fitting'
    BY <2>1, StartNowFacts
  <2>3. active'.id = Head(queue) /\ active'.root = 0 /\ active'.phase \in {"creating", "failedCreating"}
        /\ (active'.phase = "creating" <=> active' = Fork(Head(queue), "creating", 0))
    BY <2>2 DEF Fork
  <2>4. \A f : Begun(f) => Begun(f)' /\ f # active'.id
    BY <1>2, <2>1, <2>3, QueueTail DEF Begun, Queued
  <2>5. Line'
    BY <1>2, <2>1, <2>3, QueueTail, Limits DEF Line, NoFork, Fork
  <2> QED
    BY <2>2, <2>3, <2>4, <2>5
<1> QED
  BY <1>1, <1>2

LEMMA StartNextSends ==
    ASSUME Types, Line, StartNext, active'.phase = "creating"
    PROVE  \E c \in CommandSet : commands' = Append(commands, c) /\ c.kind = "fork"
<1>1. queue # <<>>
  BY DEF StartNext, NoFork, Fork
<1>2. StartNow(Head(queue)) /\ Head(queue) \in Forks
  BY <1>1, QueueTail DEF StartNext
<1> QED
  BY <1>2, StartNowFacts DEF Fork

LEMMA BegunEnds ==
    ASSUME \A f : Begun(f) => Begun(f)' /\ f # active'.id
    PROVE  \A f : GivenUp(f) => GivenUp(f)'
BY DEF GivenUp

(* A message taken from the queue.                                           *)
LEMMA Hearing ==
    ASSUME Types, Control, NEW kind, NextIs(kind)
    PROVE  /\ UNCHANGED <<backend, runtime, worker, requested, disk, missed, quitting>>
           /\ events' = Tail(events) /\ Head(events) \in Fitting /\ Head(events).kind = kind
           /\ Head(events) \in MessageSet /\ events' \in Seq(MessageSet)
           /\ kind \in Results => Arriving /\ ~Arriving'
           /\ Arriving <=> (Arriving' \/ kind \in Results)
           /\ Once(events', Results) /\ AllIn(events', Fitting)
           /\ Cancels(events, "cancelled", active.id)
                <=> \/ Cancels(events', "cancelled", active.id)
                    \/ kind = "cancelled" /\ Head(events).fork = active.id
           /\ Ahead(events, Results, "cancelled", active.id) =>
                /\ Ahead(events', Results, "cancelled", active.id)
                /\ kind = "cancelled" /\ Head(events).fork = active.id => ~Arriving
<1>1. /\ events \in Seq(MessageSet) /\ events # <<>> /\ events' = Tail(events) /\ Head(events).kind = kind
      /\ UNCHANGED <<backend, runtime, worker, requested, disk, missed, quitting>>
  BY SeqTypes DEF NextIs, notUi, gitVars
<1>2. Head(events) \in Fitting /\ AllIn(Tail(events), Fitting) /\ Head(events) \in MessageSet
      /\ Tail(events) \in Seq(MessageSet)
  BY <1>1, TakeIn, TakingFirst DEF Control, JobFits
<1>4. /\ Carries(events, Results) <=> (Carries(Tail(events), Results) \/ kind \in Results)
      /\ Once(Tail(events), Results) /\ (kind \in Results => ~Carries(Tail(events), Results))
  BY <1>1, TakeCarries DEF Control, OneJob
<1>5. /\ Cancels(events, "cancelled", active.id)
           <=> (Cancels(Tail(events), "cancelled", active.id) \/ (kind = "cancelled" /\ Head(events).fork = active.id))
      /\ Ahead(events, Results, "cancelled", active.id) =>
           /\ Ahead(Tail(events), Results, "cancelled", active.id)
           /\ kind = "cancelled" /\ Head(events).fork = active.id => ~Carries(events, Results)
  BY <1>1, TakeCancels
<1> QED
  BY <1>1, <1>2, <1>4, <1>5 DEF Arriving

LEMMA IgnoringKeeps ==
    ASSUME Types, Control, NEW kind, NextIs(kind), UNCHANGED <<active, queue, commands>>
    PROVE  Control'
<1>1. /\ UNCHANGED <<active, queue, requested, commands, backend, runtime, worker>>
      /\ (Arriving' => Arriving) /\ Once(events', Results) /\ AllIn(events', Fitting)
      /\ Cancels(events', "cancelled", active.id) => Cancels(events, "cancelled", active.id)
      /\ Ahead(events, Results, "cancelled", active.id) => Ahead(events', Results, "cancelled", active.id)
  BY Hearing
<1>2. Fitting' = Fitting
  BY <1>1, FittingKept
<1>3. Line' /\ OneWorker'
  BY <1>1, LineKept DEF Control, OneWorker
<1>4. OneJob'
  BY <1>1 DEF Control, OneJob, Sent, InHand, InGit, Reports, Leaving
<1>5. JobFits'
  BY <1>1, <1>2, FitsKept DEF Control, JobFits, Reports, Creating
<1>6. CancelComesLast'
  BY <1>1 DEF Control, CancelComesLast, Sent, InHand, InGit, Reports, Leaving, BackendAt
<1> QED
  BY <1>3, <1>4, <1>5, <1>6 DEF Control

LEMMA ReadyKeeps ==
    ASSUME Types, Control, ReduceReady, About(ReadyPhases)
    PROVE  Control'
<1>1. NextIs("ready") /\ OpenChat([active EXCEPT !.root = Head(events).worker]) /\ UNCHANGED queue
  BY DEF ReduceReady
<1>2. /\ UNCHANGED <<backend, runtime, worker, requested>> /\ Head(events) \in Fitting
      /\ Head(events).kind = "ready" /\ Head(events) \in MessageSet
      /\ events' \in Seq(MessageSet) /\ AllIn(events', Fitting) /\ Arriving /\ ~Arriving'
  BY <1>1, Hearing DEF Results
<1>3. Head(events).worker \in Workers /\ active.phase \in {"creating", "cancelling"} /\ active.id # 0
  BY <1>2 DEF Fitting, Fits, CreatingKinds, Creating, MessageSet, Control, Line
<1> DEFINE fork == [active EXCEPT !.root = Head(events).worker]
<1>4. /\ fork \in [id : {0} \cup Forks, phase : Phases, root : {0} \cup Workers]
      /\ fork.id = active.id /\ fork.root = Head(events).worker
  BY <1>3 DEF Types, UiTypes
<1> HIDE DEF fork
<1>5. /\ active'.id = active.id /\ active'.root = Head(events).worker
      /\ \/ active'.phase = "failedStarting" /\ UNCHANGED commands
         \/ /\ active'.phase = "starting"
            /\ \E c \in CommandSet : /\ commands' = Append(commands, c)
                                     /\ c.kind = "start" /\ c.fork = fork.id /\ c \in Fitting'
  BY <1>1, <1>4, OpenChatFacts DEF fork
<1>6. Line'
  BY <1>1, <1>2, <1>3, <1>5, Limits DEF Control, Line, NoFork, Fork
<1>7. \A f : GivenUp(f) => GivenUp(f)'
  BY <1>1, <1>2, <1>5 DEF GivenUp, Begun, Queued
<1>8. ~Sent /\ ~InHand /\ ~InGit /\ ~Leaving
  BY <1>2 DEF Control, OneJob
<1> QED
  BY <1>2, <1>5, <1>6, <1>7, <1>8, PhaseKeeps DEF Arriving, Jobs

LEMMA FailureKeeps ==
    ASSUME Types, Control, ReduceCreationFailed \/ ReduceConversationFailed, ~UNCHANGED active
    PROVE  Control'
<1>1. PICK kind \in {"creationFailed", "conversationFailed"} :
        /\ NextIs(kind) /\ UNCHANGED <<queue, commands>>
        /\ \/ kind = "creationFailed" /\ active.phase = "creating" /\ active' = Phase("failedCreating")
           \/ kind = "conversationFailed" /\ active.phase = "starting" /\ active' = Phase("failedStarting")
  BY DEF ReduceCreationFailed, ReduceConversationFailed, Ignored, About
<1>2. /\ UNCHANGED <<backend, runtime, worker, requested>>
      /\ events' \in Seq(MessageSet) /\ AllIn(events', Fitting) /\ Arriving /\ ~Arriving'
  BY <1>1, Hearing DEF Results
<1>3. /\ active'.id = active.id /\ active'.root = active.root
      /\ \/ active.phase = "creating" /\ active'.phase = "failedCreating"
         \/ active.phase = "starting" /\ active'.phase = "failedStarting"
  BY <1>1 DEF Phase, Types, UiTypes
<1>4. Line'
  BY <1>1, <1>2, <1>3 DEF Control, Line, NoFork, Fork
<1>5. \A f : GivenUp(f) => GivenUp(f)'
  BY <1>1, <1>2, <1>3 DEF GivenUp, Begun, Queued
<1>6. ~Sent /\ ~InHand /\ ~InGit /\ ~Leaving
  BY <1>2 DEF Control, OneJob
<1> QED
  BY <1>1, <1>2, <1>3, <1>4, <1>5, <1>6, PhaseKeeps DEF Arriving

(* A fork is done with: nothing is left of its job.                          *)
LEMMA EndHears ==
    ASSUME Types, Control, NEW kind \in {"completed", "cancelled"}, NextIs(kind),
           About(IF kind = "completed" THEN {"starting"} ELSE {"cancelling"})
    PROVE  ~Sent /\ ~InHand /\ ~InGit /\ ~Leaving /\ ~Arriving'
<1>1. CASE kind = "completed"
  BY <1>1, Hearing DEF Results, Control, OneJob
<1>2. CASE kind = "cancelled"
  <2>1. active.phase = "cancelling" /\ Cancels(events, "cancelled", active.id) /\ ~Arriving'
    BY <1>2, Hearing DEF About, Control, CancelComesLast
  <2> QED
    BY <2>1 DEF Control, CancelComesLast
<1> QED
  BY <1>1, <1>2

LEMMA EndingKeeps ==
    ASSUME Types, Control, ReduceCompleted \/ ReduceCancelled, ~UNCHANGED <<active, queue, commands>>
    PROVE  Control' /\ StartNext /\ UNCHANGED requested
<1>1. PICK kind \in {"completed", "cancelled"} :
        /\ NextIs(kind) /\ About(IF kind = "completed" THEN {"starting"} ELSE {"cancelling"})
        /\ StartNext
  BY DEF ReduceCompleted, ReduceCancelled, Ignored
<1>2. ~Sent /\ ~InHand /\ ~InGit /\ ~Leaving /\ ~Arriving'
  BY <1>1, EndHears
<1>3. /\ UNCHANGED <<backend, runtime, worker, requested>>
      /\ events' \in Seq(MessageSet) /\ AllIn(events', Fitting)
  BY <1>1, Hearing
<1>4. /\ Line' /\ active'.phase \in {"none", "creating", "failedCreating"}
      /\ \A f : GivenUp(f) => GivenUp(f)'
      /\ \/ UNCHANGED commands
         \/ \E c \in CommandSet : /\ commands' = Append(commands, c)
                                  /\ c.kind = "fork" /\ c \in Fitting'
  BY <1>1, <1>3, StartNextFacts, BegunEnds DEF Control
<1> QED
  BY <1>1, <1>2, <1>3, <1>4, PhaseKeeps DEF Arriving, Jobs

LEMMA ReducerKeepsControl ==
    ASSUME Types, Control, Reduce
    PROVE  Control'
<1>1. CASE UNCHANGED <<active, queue, commands>>
  <2>1. PICK kind : NextIs(kind)
    BY DEF Reduce, ReduceReady, ReduceCreationFailed, ReduceConversationFailed, ReduceCompleted,
           ReduceCancelled, ReduceNote
  <2> QED
    BY <1>1, <2>1, IgnoringKeeps
<1>2. CASE ~UNCHANGED <<active, queue, commands>>
  <2>1. CASE ReduceReady
    BY <1>2, <2>1, ReadyKeeps DEF ReduceReady, Ignored
  <2>2. CASE ReduceCreationFailed \/ ReduceConversationFailed
    BY <1>2, <2>2, FailureKeeps DEF ReduceCreationFailed, ReduceConversationFailed, Ignored
  <2>3. CASE ReduceCompleted \/ ReduceCancelled
    BY <1>2, <2>3, EndingKeeps
  <2> QED
    BY <1>2, <2>1, <2>2, <2>3 DEF Reduce, ReduceNote, Ignored
<1> QED
  BY <1>1, <1>2

(* What the user does while the job goes on.                                 *)
LEMMA FittingGrows ==
    ASSUME \A f : Creating(f) => Creating(f)', \A f : Opening(f) => Opening(f)',
           \A f : GivenUp(f) => GivenUp(f)'
    PROVE  Fitting \subseteq Fitting'
<1> SUFFICES ASSUME NEW m \in Fitting PROVE m \in Fitting'
  OBVIOUS
<1>1. m \in CommandSet \cup MessageSet /\ Fits(m)
  BY DEF Fitting
<1>2. Fits(m)'
  BY <1>1 DEF Fits
<1> QED
  BY <1>1, <1>2 DEF Fitting

LEMMA AllInLarger ==
    ASSUME NEW s, NEW small, NEW large, AllIn(s, small), small \subseteq large
    PROVE  AllIn(s, large)
BY DEF AllIn

LEMMA FittersKept ==
    ASSUME Types, Control, UNCHANGED <<backend, events, worker>>,
           \A f : Creating(f) => Creating(f)', \A f : Opening(f) => Opening(f)',
           \A f : GivenUp(f) => GivenUp(f)', AllIn(commands', Fitting')
    PROVE  JobFits'
<1>1. AllIn(backend'.out, Fitting') /\ AllIn(events', Fitting')
  BY FittingGrows, AllInLarger DEF Control, JobFits
<1>2. ASSUME NEW f, f = backend.fork
      PROVE  /\ backend.at = "join" => Creating(f)'
             /\ backend.at = "ask" => Opening(f)'
             /\ backend.at = "cancel" => GivenUp(f)'
  BY <1>2 DEF Control, JobFits
<1>3. /\ backend.at = "join" => Creating(backend.fork)'
      /\ backend.at = "ask" => Opening(backend.fork)'
      /\ backend.at = "cancel" => GivenUp(backend.fork)'
  BY <1>2 DEF Creating, Opening, GivenUp, Begun, Queued
<1>4. ASSUME NEW w \in Workers, Reports(w)' PROVE Creating(worker[w].fork)'
  <2>1. PICK f : f = worker[w].fork
    OBVIOUS
  <2>2. Creating(f)'
    BY <1>4, <2>1 DEF Control, JobFits, Reports
  <2> QED
    BY <2>1, <2>2 DEF Creating
<1> QED
  BY <1>1, <1>3, <1>4 DEF JobFits

LEMMA QueueingKeeps ==
    ASSUME Types, Control, UNCHANGED <<active, commands, events, backend, worker, runtime>>,
           Line', \A f : Begun(f) => Begun(f)'
    PROVE  Control'
<1>1. /\ \A f : Creating(f) => Creating(f)'
      /\ \A f : Opening(f) => Opening(f)'
      /\ \A f : GivenUp(f) => GivenUp(f)'
  BY DEF Creating, Opening, GivenUp
<1>2. AllIn(commands', Fitting')
  BY <1>1, FittingGrows, AllInLarger DEF Control, JobFits
<1>3. JobFits'
  BY <1>1, <1>2, FittersKept
<1>4. OneWorker' /\ OneJob' /\ CancelComesLast'
  BY DEF Control, OneWorker, OneJob, CancelComesLast, Sent, InHand, InGit, Reports, Leaving,
         Arriving, BackendAt
<1> QED
  BY <1>3, <1>4 DEF Control

LEMMA QueuedFork ==
    ASSUME Types, Line, RequestFork, active # NoFork
    PROVE  Line' /\ \A f : Begun(f) => Begun(f)'
<1> DEFINE t == Append(queue, requested + 1)
<1>1. queue' = t /\ requested' = requested + 1 /\ active' = active /\ requested < MaxForks
  BY DEF RequestFork
<1>2. requested + 1 \in Forks /\ requested \in Nat
  BY <1>1, Queue, Limits DEF Forks
<1>3. /\ DOMAIN t = 1..(Len(queue) + 1) /\ DOMAIN queue = 1..Len(queue) /\ Len(queue) \in Nat
      /\ t[Len(queue) + 1] = requested + 1 /\ \A i \in 1..Len(queue) : t[i] = queue[i]
  BY <1>2, PuttingLast DEF Types, UiTypes
<1> HIDE DEF t
<1>4. \A i \in DOMAIN t : \/ i \in DOMAIN queue /\ t[i] = queue[i]
                          \/ i = Len(queue) + 1 /\ t[i] = requested + 1
  BY <1>3
<1>5. \A f : Begun(f) => Begun(f)'
  BY <1>1, <1>2, <1>4 DEF Begun, Queued
<1>6. \A i \in DOMAIN queue : queue[i] \in Nat /\ i < Len(queue) + 1
  BY <1>3, Queue
<1>7. active.id \in Nat
  BY Queue
<1>8. \A i \in DOMAIN t : active.id < t[i] /\ t[i] <= requested + 1
  BY <1>2, <1>4, <1>6, <1>7 DEF Line
<1>9. \A i, j \in DOMAIN t : i < j => t[i] < t[j]
  <2> SUFFICES ASSUME NEW i \in DOMAIN t, NEW j \in DOMAIN t, i < j PROVE t[i] < t[j]
    OBVIOUS
  <2>1. i \in DOMAIN queue
    BY <1>3
  <2>2. CASE j \in DOMAIN queue
    BY <1>3, <2>1, <2>2 DEF Line
  <2>3. CASE j \notin DOMAIN queue
    BY <1>2, <1>4, <1>6, <2>1, <2>3 DEF Line
  <2> QED
    BY <2>2, <2>3
<1>10. Line'
  BY <1>1, <1>2, <1>7, <1>8, <1>9 DEF Line
<1> QED
  BY <1>5, <1>10

LEMMA WithdrawnFork ==
    ASSUME Types, Line, CancelQueued
    PROVE  /\ Line' /\ \A f : Begun(f) => Begun(f)'
           /\ \E i \in DOMAIN queue : \A f : Queued(f)' <=> (Queued(f) /\ f # queue[i])
<1>1. UNCHANGED <<active, requested>>
  BY DEF CancelQueued
<1>2. PICK i \in DOMAIN queue : queue' = Without(queue, i)
  BY DEF CancelQueued, Without
<1>3. /\ DOMAIN queue' = 1..(Len(queue) - 1) /\ DOMAIN queue = 1..Len(queue) /\ Len(queue) \in Nat \ {0}
      /\ \A j \in 1..(Len(queue) - 1) : queue'[j] = IF j < i THEN queue[j] ELSE queue[j + 1]
  BY <1>2, TakingOut DEF Types, UiTypes
<1>4. \A j \in DOMAIN queue' : \E k \in DOMAIN queue : k # i /\ queue'[j] = queue[k]
  <2> SUFFICES ASSUME NEW j \in DOMAIN queue' PROVE \E k \in DOMAIN queue : k # i /\ queue'[j] = queue[k]
    OBVIOUS
  <2>1. CASE j < i
    BY <1>3, <2>1
  <2>2. CASE ~(j < i)
    <3>1. j + 1 \in DOMAIN queue /\ j + 1 # i /\ queue'[j] = queue[j + 1]
      BY <1>3, <2>2
    <3> QED
      BY <3>1
  <2> QED
    BY <2>1, <2>2
<1>5. \A k \in DOMAIN queue : k # i => \E j \in DOMAIN queue' : queue'[j] = queue[k]
  <2> SUFFICES ASSUME NEW k \in DOMAIN queue, k # i PROVE \E j \in DOMAIN queue' : queue'[j] = queue[k]
    OBVIOUS
  <2>1. CASE k < i
    BY <1>3, <2>1
  <2>2. CASE ~(k < i)
    <3>1. k - 1 \in DOMAIN queue' /\ ~(k - 1 < i) /\ queue'[k - 1] = queue[k]
      BY <1>3, <2>2
    <3> QED
      BY <3>1
  <2> QED
    BY <2>1, <2>2
<1>6. \A j, k \in DOMAIN queue : queue[j] = queue[k] => j = k
  <2> SUFFICES ASSUME NEW j \in DOMAIN queue, NEW k \in DOMAIN queue, j < k PROVE queue[j] # queue[k]
    BY Queue
  <2>1. queue[j] < queue[k] /\ queue[j] \in Nat /\ queue[k] \in Nat
    BY Queue DEF Line
  <2> QED
    BY <2>1
<1>7. \A f : Queued(f)' <=> (Queued(f) /\ f # queue[i])
  BY <1>4, <1>5, <1>6 DEF Queued
<1>8. \A f : Begun(f) => Begun(f)'
  BY <1>1, <1>7 DEF Begun
<1>9. \A j, k \in DOMAIN queue' : j < k => queue'[j] < queue'[k]
  <2> SUFFICES ASSUME NEW j \in DOMAIN queue', NEW k \in DOMAIN queue', j < k PROVE queue'[j] < queue'[k]
    OBVIOUS
  <2> DEFINE a == IF j < i THEN j ELSE j + 1
             b == IF k < i THEN k ELSE k + 1
  <2>1. a \in DOMAIN queue /\ b \in DOMAIN queue /\ a < b /\ queue'[j] = queue[a] /\ queue'[k] = queue[b]
    BY <1>3
  <2> HIDE DEF a, b
  <2> QED
    BY <2>1 DEF Line
<1>10. \A j \in DOMAIN queue' : active.id < queue'[j] /\ queue'[j] <= requested
  BY <1>4 DEF Line
<1>11. active # NoFork
  BY <1>3 DEF Line
<1> QED
  BY <1>1, <1>2, <1>7, <1>8, <1>9, <1>10, <1>11 DEF Line

LEMMA CancelActiveKeeps ==
    ASSUME Types, Control, CancelActive
    PROVE  Control'
<1>1. /\ active.phase = "creating" /\ Dispatch("cancel", Phase("cancelling"), active)
      /\ UNCHANGED <<queue, requested, events, backend, runtime, worker>>
  BY DEF CancelActive, notUser, notUi, gitVars
<1>2. CASE ~CommandRoom
  <2>1. UNCHANGED <<active, queue, requested, commands, events, backend, runtime, worker>>
    BY <1>1, <1>2 DEF Dispatch
  <2>2. Line' /\ \A f : Begun(f) => Begun(f)'
    BY <2>1, FitsKept, LineKept DEF Control
  <2> QED
    BY <2>1, <2>2, QueueingKeeps
<1>3. CASE CommandRoom
  <2> DEFINE c == Command("cancel", active.id)
  <2>1. active' = Phase("cancelling") /\ active'.id = active.id /\ active'.phase = "cancelling"
        /\ active'.root = active.root
    BY <1>1, <1>3 DEF Dispatch, Phase, Types, UiTypes
  <2>2. commands' = Append(commands, c) /\ commands \in Seq(CommandSet)
    BY <1>1, <1>3, SeqTypes DEF Dispatch, Phase, Types, UiTypes
  <2>3. c \in CommandSet /\ c.kind = "cancel" /\ c.fork = active.id
    BY DEF Command, CommandSet, CommandKinds, Types, UiTypes
  <2> HIDE DEF c
  <2>4. Line'
    BY <1>1, <2>1 DEF Control, Line, NoFork, Fork
  <2>5. /\ \A f : Creating(f) => Creating(f)'
        /\ \A f : Opening(f) => Opening(f)'
        /\ \A f : GivenUp(f) => GivenUp(f)'
    BY <1>1, <2>1 DEF Creating, Opening, GivenUp, Begun, Queued
  <2>6. Begun(active.id)
    <3>1. active.id \in 1..requested
      BY <1>1, Queue DEF Control, Line, Forks
    <3>2. \A i \in DOMAIN queue : active.id < queue[i] /\ active.id \in Nat /\ queue[i] \in Nat
      BY Queue DEF Control, Line
    <3> QED
      BY <3>1, <3>2 DEF Begun, Queued
  <2>7. c \in Fitting'
    <3>1. PICK f : f = active.id
      OBVIOUS
    <3>2. GivenUp(f)'
      BY <1>1, <2>1, <2>6, <3>1 DEF GivenUp, Begun, Queued
    <3> QED
      BY <2>3, <3>1, <3>2 DEF Fitting, Fits, CreatingKinds, OpeningKinds
  <2>8. AllIn(commands', Fitting') /\ Once(commands', Jobs) /\ (Sent' <=> Sent)
    <3>1. AllIn(commands, Fitting')
      BY <2>5, FittingGrows, AllInLarger DEF Control, JobFits
    <3>2. c.kind \notin Jobs
      BY <2>3 DEF Jobs
    <3> QED
      BY <2>2, <2>3, <2>7, <3>1, <3>2, PutIn, PutCarries DEF Control, OneJob, Sent
  <2>9. JobFits'
    BY <1>1, <2>5, <2>8, FittersKept
  <2>10. OneWorker' /\ OneJob'
    BY <1>1, <2>8 DEF Control, OneWorker, OneJob, InHand, InGit, Reports, Leaving, Arriving
  <2>11. /\ ~Cancels(commands, "cancel", active.id) /\ ~Cancels(events, "cancelled", active.id)
         /\ ~Cancels(backend.out, "cancelled", active.id) /\ ~BackendAt("cancel", active.id)
    <3>1. ~GivenUp(active.id)
      BY <1>1 DEF GivenUp
    <3>2. \A m \in Fitting : m.kind \in {"cancel", "cancelled"} => m.fork # active.id
      BY <3>1 DEF Fitting, Fits, CancelKinds
    <3> QED
      BY <3>1, <3>2 DEF Control, JobFits, AllIn, Cancels, BackendAt
  <2>12. Ahead(commands', Jobs, "cancel", active'.id)
    <3>1. Ahead(commands, Jobs, "cancel", active.id)
      BY <2>11, NotCancelled
    <3>2. c.kind \notin Jobs
      BY <2>3 DEF Jobs
    <3>3. Ahead(Append(commands, c), Jobs, "cancel", active.id)
      BY <2>2, <2>3, <3>1, <3>2, PutCancels
    <3> QED
      BY <2>1, <2>2, <3>3
  <2>13. Ahead(events', Results, "cancelled", active'.id)
    BY <1>1, <2>1, <2>11, NotCancelled
  <2>14. CancelComesLast'
    BY <1>1, <2>1, <2>11, <2>12, <2>13 DEF CancelComesLast, BackendAt
  <2> QED
    BY <2>4, <2>9, <2>10, <2>14 DEF Control
<1> QED
  BY <1>2, <1>3

LEMMA RequestKeeps ==
    ASSUME Types, Control, RequestFork
    PROVE  Control'
<1>1. UNCHANGED <<events, backend, runtime, worker>> /\ requested' = requested + 1 /\ requested < MaxForks
  BY DEF RequestFork, notUser, notUi, gitVars
<1>2. CASE active # NoFork
  BY <1>1, <1>2, QueuedFork, QueueingKeeps DEF RequestFork, Control
<1>3. CASE active = NoFork
  <2>1. StartNow(requested + 1) /\ UNCHANGED queue /\ queue = <<>>
    BY <1>3 DEF RequestFork, Control, Line
  <2>2. requested + 1 \in Forks /\ requested \in Nat
    BY <1>1, Queue, Limits DEF Forks, Control
  <2>3. \/ active' = Fork(requested + 1, "failedCreating", 0) /\ UNCHANGED commands
        \/ /\ active' = Fork(requested + 1, "creating", 0)
           /\ \E c \in CommandSet : /\ commands' = Append(commands, c)
                                    /\ c.kind = "fork" /\ c \in Fitting'
    BY <2>1, <2>2, StartNowFacts
  <2>4. active'.id = requested + 1 /\ active'.phase \in {"creating", "failedCreating"} /\ active'.root = 0
    BY <2>3 DEF Fork
  <2>5. Line'
    BY <1>1, <2>1, <2>2, <2>4 DEF Line
  <2>6. \A f : Begun(f) => Begun(f)' /\ f # active'.id
    BY <1>1, <2>1, <2>2, <2>4 DEF Begun, Queued
  <2>7. active.phase = "none"
    BY <1>3 DEF NoFork, Fork
  <2>8. ~Sent /\ ~InHand /\ ~InGit /\ ~Leaving /\ ~Arriving
    BY <2>7, NoJob
  <2>9. AllIn(events, Fitting) /\ events \in Seq(MessageSet)
    BY SeqTypes DEF Control, JobFits
  <2> QED
    BY <1>1, <2>3, <2>4, <2>5, <2>6, <2>8, <2>9, BegunEnds, PhaseKeeps DEF Arriving, Jobs
<1> QED
  BY <1>2, <1>3

LEMMA RetryKeeps ==
    ASSUME Types, Control, Retry
    PROVE  Control'
<1>1. /\ UNCHANGED <<events, backend, runtime, worker, queue, requested>> /\ active.phase \in Failed
      /\ IF active.root # 0 THEN OpenChat(active) ELSE StartNow(active.id)
  BY DEF Retry, notUser, notUi, gitVars
<1>2. ~Sent /\ ~InHand /\ ~InGit /\ ~Leaving /\ ~Arriving
  BY <1>1, NoJob DEF Failed
<1>3. active.id \in Forks
  BY <1>1, Queue DEF Failed, Control, Line
<1>4. /\ active'.id = active.id /\ (active'.root # 0 <=> active.root # 0)
      /\ IF active.root # 0 THEN active'.phase \in {"starting", "failedStarting"}
         ELSE active'.phase \in {"creating", "failedCreating"}
      /\ \/ UNCHANGED commands
         \/ \E c \in CommandSet : /\ commands' = Append(commands, c)
                                  /\ c.kind \in Jobs /\ c \in Fitting'
  <2>1. CASE active.root # 0
    BY <1>1, <2>1, OpenChatFacts DEF Types, UiTypes, Jobs
  <2>2. CASE active.root = 0
    <3>1. \/ active' = Fork(active.id, "failedCreating", 0) /\ UNCHANGED commands
          \/ /\ active' = Fork(active.id, "creating", 0)
             /\ \E c \in CommandSet : /\ commands' = Append(commands, c)
                                      /\ c.kind = "fork" /\ c \in Fitting'
      BY <1>1, <1>3, <2>2, StartNowFacts
    <3> QED
      BY <2>2, <3>1 DEF Fork, Jobs
  <2> QED
    BY <2>1, <2>2
<1>5. active.root # 0 <=> active.phase = "failedStarting"
  BY <1>1 DEF Control, Line, Failed
<1>6. Line'
  BY <1>1, <1>3, <1>4, Limits DEF Control, Line, NoFork, Fork, Failed
<1>7. \A f : GivenUp(f) => GivenUp(f)'
  BY <1>1, <1>4, <1>5 DEF GivenUp, Begun, Queued, Failed
<1>8. active'.phase # "cancelling" /\ AllIn(events', Fitting) /\ events' \in Seq(MessageSet)
  BY <1>1, <1>4, SeqTypes DEF Control, JobFits
<1> QED
  BY <1>1, <1>2, <1>4, <1>6, <1>7, <1>8, PhaseKeeps DEF Arriving

LEMMA DismissKeeps ==
    ASSUME Types, Control, Dismiss
    PROVE  Control'
<1>1. /\ UNCHANGED <<events, backend, runtime, worker, requested>> /\ active.phase \in Failed /\ StartNext
  BY DEF Dismiss, notUser, notUi, gitVars
<1>2. ~Sent /\ ~InHand /\ ~InGit /\ ~Leaving /\ ~Arriving
  BY <1>1, NoJob DEF Failed
<1>3. /\ Line' /\ active'.phase \in {"none", "creating", "failedCreating"}
      /\ \A f : GivenUp(f) => GivenUp(f)'
      /\ \/ UNCHANGED commands
         \/ \E c \in CommandSet : /\ commands' = Append(commands, c)
                                  /\ c.kind = "fork" /\ c \in Fitting'
  BY <1>1, StartNextFacts, BegunEnds DEF Control
<1>4. AllIn(events', Fitting) /\ events' \in Seq(MessageSet)
  BY <1>1, SeqTypes DEF Control, JobFits
<1> QED
  BY <1>1, <1>2, <1>3, <1>4, PhaseKeeps DEF Arriving, Jobs

LEMMA OtherEffectKeeps ==
    ASSUME Types, Control, OtherEffect
    PROVE  Control'
<1> DEFINE c == Command("other", 0)
<1>1. /\ UNCHANGED <<active, queue, requested, events, backend, runtime, worker>>
      /\ commands' = Append(commands, c) /\ commands \in Seq(CommandSet)
  BY SeqTypes DEF OtherEffect, notUser, notUi, gitVars, uiVars
<1>2. c \in CommandSet /\ c.kind = "other"
  BY DEF Command, CommandSet, CommandKinds
<1>3. c \in Fitting
  BY <1>2 DEF Fitting, Fits, CreatingKinds, OpeningKinds, CancelKinds
<1> HIDE DEF c
<1>4. /\ Sent' <=> Sent
      /\ Once(commands', Jobs) /\ AllIn(commands', Fitting)
  BY <1>1, <1>2, <1>3, PutCarries, PutIn DEF Control, OneJob, JobFits, Sent, Jobs
<1>5. Ahead(commands, Jobs, "cancel", active.id) => Ahead(commands', Jobs, "cancel", active.id)
  <2>1. c.kind \notin Jobs
    BY <1>2 DEF Jobs
  <2> QED
    BY <1>1, <1>2, <2>1, PutCancels
<1>6. Fitting' = Fitting
  BY <1>1, FittingKept
<1>7. Line' /\ OneWorker'
  BY <1>1, LineKept DEF Control, OneWorker
<1>8. OneJob'
  BY <1>1, <1>4 DEF Control, OneJob, InHand, InGit, Reports, Leaving, Arriving
<1>9. JobFits'
  BY <1>1, <1>4, <1>6, FitsKept DEF Control, JobFits, Reports, Creating
<1>10. CancelComesLast'
  BY <1>1, <1>4, <1>5 DEF Control, CancelComesLast, InHand, InGit, Reports, Leaving, BackendAt
<1> QED
  BY <1>7, <1>8, <1>9, <1>10 DEF Control

LEMMA StandingStill ==
    ASSUME Types, Control, UNCHANGED <<active, queue, requested, commands, events, backend, runtime, worker>>
    PROVE  Control'
<1>1. Line' /\ \A f : Begun(f) => Begun(f)'
  BY FitsKept, LineKept DEF Control
<1> QED
  BY <1>1, QueueingKeeps

LEMMA UserKeepsControl ==
    ASSUME Types, Control, User
    PROVE  Control'
<1>1. CASE CancelQueued
  BY <1>1, WithdrawnFork, QueueingKeeps DEF CancelQueued, notUser, notUi, gitVars, Control
<1>2. CASE Quit
  BY <1>2, StandingStill DEF Quit, uiVars, gitVars
<1> QED
  BY <1>1, <1>2, RequestKeeps, CancelActiveKeeps, RetryKeeps, DismissKeeps, OtherEffectKeeps DEF User

LEMMA InitControl == Init => Control
<1> SUFFICES ASSUME Init PROVE Control
  OBVIOUS
<1>1. /\ active = NoFork /\ queue = <<>> /\ requested = 0 /\ commands = <<>> /\ events = <<>>
      /\ backend = Idle /\ worker = [w \in Workers |-> NoWorker]
  BY DEF Init
<1>2. Line
  BY <1>1 DEF Line, NoFork, Fork
<1>3. OneWorker /\ ~InGit
  BY <1>1 DEF OneWorker, InGit, Reports, NoWorker
<1>4. backend.at = "idle" /\ backend.out = <<>>
  BY <1>1 DEF Idle
<1>5. ~Sent /\ ~Leaving /\ ~Arriving /\ ~InHand
  BY <1>1, <1>4, NothingOut DEF Sent, Leaving, Arriving, InHand
<1>6. OneJob
  BY <1>1, <1>3, <1>4, <1>5, NothingOut DEF OneJob
<1>7. JobFits
  BY <1>1, <1>3, <1>4, NothingOut DEF JobFits, InGit
<1>8. CancelComesLast
  BY <1>1 DEF CancelComesLast, NoFork, Fork
<1> QED
  BY <1>2, <1>3, <1>6, <1>7, <1>8 DEF Control

LEMMA ControlStep == Types /\ Control /\ [Next]_vars => Control'
<1> SUFFICES ASSUME Types, Control, [Next]_vars PROVE Control'
  OBVIOUS
<1>1. CASE \E w \in Workers : WorkerStep(w)
  BY <1>1, WorkerKeepsControl
<1>2. CASE UNCHANGED vars
  BY <1>2, StandingStill DEF vars, uiVars, gitVars
<1> QED
  BY <1>1, <1>2, BackendKeepsControl, ReducerKeepsControl, UserKeepsControl DEF Next, Exited

(* The values of the variables.                                              *)
THEOREM TypesHold == Spec => []TypeOK
<1>1. Types /\ Control => TypeOK
  <2> SUFFICES ASSUME Types, Control PROVE TypeOK
    OBVIOUS
  <2>1. active \in [id : 0..MaxForks, phase : Phases, root : {0} \cup Workers]
    BY Limits DEF Types, UiTypes, Forks
  <2>2. (active.id = 0 <=> active.phase = "none") /\ (active = NoFork => queue = <<>>)
    BY DEF Control, Line
  <2>3. \A i \in DOMAIN queue : queue[i] \in Forks
    BY Queue DEF Control
  <2>4. \A i \in DOMAIN commands : commands[i].kind \in {"fork", "cancel", "start", "other"}
    <3>1. \A i \in DOMAIN commands : commands[i] \in CommandSet
      BY SeqTypes
    <3> QED
      BY <3>1 DEF CommandSet, CommandKinds
  <2>5. \A i \in DOMAIN events : events[i].kind \in MessageKinds
    <3>1. \A i \in DOMAIN events : events[i] \in MessageSet
      BY SeqTypes
    <3> QED
      BY <3>1 DEF MessageSet
  <2>6. \A w \in Workers :
         /\ worker[w].fork \in {0} \cup Forks /\ worker[w].cancelled \in BOOLEAN
         /\ worker[w].at \in {"none", "probing", "building", "cleaning", "ready", "failed",
                              "ending", "gone"}
    BY DEF Types, BackendTypes, WorkerSet, WorkerStates
  <2>7. backend.at \in {"idle", "join", "cancel", "ask", "emit", "stopping", "stopped"}
    BY DEF Types, BackendTypes, BackendSet
  <2> QED
    BY <2>1, <2>2, <2>3, <2>4, <2>5, <2>6, <2>7 DEF TypeOK, Types, UiTypes, BackendTypes
<1> QED
  BY InitTypes, TypesStep, InitControl, ControlStep, <1>1, PTL DEF Spec

-----------------------------------------------------------------------------
(* What is shown as under way is under way.                                  *)
LEMMA WorkerProgress ==
    ASSUME Types, Control, InProgressIsReal, NEW w \in Workers, WorkerStep(w)
    PROVE  InProgressIsReal'
<1> SUFFICES ASSUME ~missed', ~quitting' PROVE InProgressIsReal'
  BY DEF InProgressIsReal
<1>1. /\ UNCHANGED <<active, queue, requested, commands, backend, runtime, quitting>>
      /\ \A v \in Workers \ {w} : worker'[v] = worker[v]
      /\ \A v \in Workers : Reports(v)' => Reports(v) /\ worker'[v].cancelled = worker[v].cancelled
  BY WorkerFrame
<1>2. ~missed /\ ~quitting
  BY <1>1 DEF WorkerStep, Allocate, ProbeFails, Complete, BuildFails, CleanUp, EmitOutcome, ThreadEnds
<1>3. active.phase = "creating" => \A v \in Workers : Reports(v)' => ~worker'[v].cancelled
  BY <1>1, <1>2 DEF InProgressIsReal
<1>4. UNCHANGED events \/ events' = Append(events, Outcome(w))
  BY DEF WorkerStep, Allocate, ProbeFails, Complete, BuildFails, CleanUp, EmitOutcome, ThreadEnds
<1>5. /\ Arriving => Arriving'
      /\ Cancels(events, "cancelled", active.id) => Cancels(events', "cancelled", active.id)
      /\ events' # events => Arriving'
  <2>1. Outcome(w) \in MessageSet /\ Outcome(w).kind \in Results /\ events \in Seq(MessageSet)
    BY SeqTypes DEF Outcome, Message, MessageSet, MessageKinds, Types, BackendTypes, WorkerSet, Results
  <2>2. Carries(Append(events, Outcome(w)), Results)
    BY <2>1, PutCarries
  <2>3. Cancels(events, "cancelled", active.id)
          => Cancels(Append(events, Outcome(w)), "cancelled", active.id)
    BY <2>1, PutCancels
  <2> QED
    BY <1>4, <2>2, <2>3 DEF Arriving
<1>6. CancelComes => CancelComes'
  BY <1>1, <1>5 DEF CancelComes, BackendAt
<1>7. active.phase \in {"creating", "starting"} /\ InGit => InGit' \/ Arriving'
  <2> SUFFICES ASSUME active.phase \in {"creating", "starting"}, InGit PROVE InGit' \/ Arriving'
    OBVIOUS
  <2>1. PICK v \in Workers : Reports(v)
    BY DEF InGit
  <2>2. Creating(worker[v].fork) /\ v = runtime
    BY <2>1, ReportsOnly DEF Control, JobFits
  <2>3. ~worker[v].cancelled
    BY <1>2, <2>1, <2>2 DEF InProgressIsReal, Creating
  <2>4. v = w
    BY <2>2, WorkerFrame
  <2>5. CASE EmitOutcome(w)
    BY <1>2, <1>5, <2>5, PutCarries DEF EmitOutcome, Arriving, Outcome, Message, MessageSet, MessageKinds,
      Types, BackendTypes, WorkerSet, Results
  <2>6. CASE ~EmitOutcome(w)
    <3>1. PICK at \in {"probing", "building", "cleaning", "ready", "failed"} :
             worker' = [worker EXCEPT ![w].at = at]
      BY <2>1, <2>3, <2>4, <2>6 DEF WorkerStep, Allocate, ProbeFails, Complete, BuildFails, CleanUp,
             ThreadEnds, Becomes, Report, Reports
    <3>2. Reports(w)'
      BY <3>1 DEF Reports, Types, BackendTypes
    <3> QED
      BY <3>2 DEF InGit
  <2> QED
    BY <2>5, <2>6
<1>8. active.phase \in {"creating", "starting"} => Job'
  BY <1>1, <1>2, <1>5, <1>7 DEF InProgressIsReal, Job, Sent, InHand, Leaving
<1> QED
  BY <1>1, <1>2, <1>3, <1>6, <1>8 DEF InProgressIsReal

LEMMA BackendProgress ==
    ASSUME Types, Control, InProgressIsReal, Backend
    PROVE  InProgressIsReal'
<1> SUFFICES ASSUME ~missed', ~quitting' PROVE InProgressIsReal'
  BY DEF InProgressIsReal
<1>1. UNCHANGED <<active, quitting>> /\ ~quitting
  BY BackendFrame
<1>2. ~missed
  BY DEF Backend, RunFork, JoinThenStart, RunCancel, CancelJoined, RunStart, AskForChat, RunOther,
         Emit, StopBackend, BackendStopped
<1>3. /\ active.phase \in {"creating", "starting"} => Job
      /\ active.phase = "cancelling" => CancelComes
      /\ active.phase = "creating" => \A w \in Workers : Reports(w) => ~worker[w].cancelled
  BY <1>1, <1>2 DEF InProgressIsReal
<1> DEFINE Cancelled == active.phase = "creating" => \A w \in Workers : Reports(w)' => ~worker'[w].cancelled
<1>4. ASSUME RunFork \/ RunStart PROVE Job' /\ (CancelComes => CancelComes') /\ Cancelled
  <2>1. PICK kind \in {"fork", "start"} :
           /\ Take(kind) /\ UNCHANGED <<events, worker>> /\ backend'.at \in {"join", "ask"}
    BY <1>4 DEF RunFork, RunStart, Goto, Busy, gitVars
  <2>2. Job'
    BY <2>1 DEF Job, InHand
  <2>3. /\ Cancels(commands, "cancel", active.id) => Cancels(commands', "cancel", active.id)
        /\ backend.at = "idle"
    BY <2>1, Taking
  <2>4. CancelComes => CancelComes'
    BY <1>1, <2>1, <2>3, NothingInOut DEF CancelComes, BackendAt
  <2> QED
    BY <1>3, <2>1, <2>2, <2>4 DEF Reports
<1>5. ASSUME JoinThenStart PROVE Job' /\ (CancelComes => CancelComes') /\ Cancelled
  <2>1. backend.at = "join" /\ Gone(runtime) /\ UNCHANGED <<commands, events>>
    BY <1>5 DEF JoinThenStart
  <2>2. CancelComes => CancelComes'
    BY <1>1, <2>1, NothingInOut DEF CancelComes, BackendAt
  <2>3. \A w \in Workers : worker[w].at \in {"none", "gone"}
    BY <2>1 DEF Control, OneWorker, Gone
  <2>4. CASE StartWorker
    <3> DEFINE rec == [NoWorker EXCEPT !.fork = backend.fork, !.at = "probing"]
    <3>1. PICK w \in Workers : worker' = [worker EXCEPT ![w] = rec]
      BY <2>4 DEF StartWorker, Unused
    <3>2. rec.at = "probing" /\ rec.cancelled = FALSE
      BY DEF NoWorker
    <3> HIDE DEF rec
    <3>3. worker'[w] = rec /\ \A v \in Workers \ {w} : worker'[v] = worker[v]
      BY <3>1 DEF Types, BackendTypes
    <3> QED
      BY <2>2, <2>3, <3>2, <3>3 DEF Job, InGit, Reports
  <2>5. CASE ~StartWorker
    <3>1. backend' = Emitting(<<Message("creationFailed", backend.fork, 0)>>) /\ worker' = worker
      BY <1>5, <2>5 DEF JoinThenStart, Goto
    <3>2. backend'.out = <<Message("creationFailed", backend.fork, 0)>>
      BY <3>1 DEF Emitting
    <3>3. Leaving'
      BY <3>2, OneOut DEF Leaving, Message, Results
    <3> QED
      BY <2>2, <2>3, <3>1, <3>3 DEF Job, Reports
  <2> QED
    BY <2>4, <2>5
<1>6. ASSUME RunCancel PROVE (Job => Job') /\ (CancelComes => CancelComes') /\ Cancelled
  <2>1. Take("cancel") /\ UNCHANGED events /\ backend.at = "idle"
    BY <1>6 DEF RunCancel, Take
  <2>2. \A v \in Workers : worker'[v].at = worker[v].at /\ worker'[v].fork = worker[v].fork
    <3>1. worker' = worker \/ worker' = [worker EXCEPT ![Reaped].cancelled = TRUE]
      BY <1>6 DEF RunCancel
    <3>2. worker \in [Workers -> WorkerSet]
      BY DEF Types, BackendTypes
    <3> QED
      BY <3>1, <3>2 DEF WorkerSet
  <2>3. /\ Sent <=> Sent'
        /\ Cancels(commands, "cancel", active.id)
                <=> (Cancels(commands', "cancel", active.id) \/ Taken = active.id)
        /\ GivenUp(Taken)
    <3>1. Head(commands) \in Fitting /\ Head(commands).kind = "cancel" /\ Taken = Head(commands).fork
      BY <2>1, Taking
    <3>2. GivenUp(Taken)
      BY <3>1 DEF Fitting, Fits, CancelKinds
    <3> QED
      BY <2>1, <3>2, Taking DEF Jobs
  <2>4. Job => Job'
    BY <2>1, <2>2, <2>3, NothingInOut DEF Job, InHand, InGit, Reports, Arriving
  <2>5. backend' = Busy("cancel", Taken) \/ backend' = Emitting(<<Message("cancelled", Taken, 0)>>)
    BY <1>6 DEF RunCancel, Goto
  <2>6. backend' = Emitting(<<Message("cancelled", Taken, 0)>>) => Cancels(backend'.out, "cancelled", Taken)
    BY OneOut DEF Emitting, Message
  <2>7. Taken = active.id => CancelComes'
    BY <1>1, <2>5, <2>6 DEF CancelComes, BackendAt, Busy
  <2>8. CancelComes => CancelComes'
    BY <1>1, <2>1, <2>3, <2>7, NothingInOut DEF CancelComes, BackendAt
  <2>9. Cancelled
    <3> SUFFICES ASSUME active.phase = "creating", NEW w \in Workers, Reports(w)' PROVE ~worker'[w].cancelled
      OBVIOUS
    <3>1. Reports(w) /\ ~worker[w].cancelled /\ Creating(worker[w].fork)
      BY <1>3, <2>2 DEF Reports, Control, JobFits
    <3>2. worker[w].fork # Taken
      BY <2>3, <3>1 DEF Creating, GivenUp
    <3>3. worker'[w] = worker[w]
      BY <1>6, <3>2 DEF RunCancel, Types, BackendTypes
    <3> QED
      BY <3>1, <3>3
  <2> QED
    BY <2>4, <2>8, <2>9
<1>7. ASSUME CancelJoined PROVE (Job => Job') /\ (CancelComes => CancelComes') /\ Cancelled
  <2>1. /\ backend.at = "cancel" /\ UNCHANGED <<commands, events, worker>>
        /\ backend' = Emitting(<<Message("cancelled", backend.fork, 0)>>)
    BY <1>7 DEF CancelJoined, Goto, gitVars
  <2>2. Cancels(backend'.out, "cancelled", backend.fork)
    BY <2>1, OneOut DEF Emitting, Message
  <2>3. CancelComes => CancelComes'
    BY <1>1, <2>1, <2>2, NothingInOut DEF CancelComes, BackendAt
  <2>4. Job => Job'
    BY <2>1, NothingInOut DEF Job, Sent, InHand, InGit, Reports, Arriving
  <2> QED
    BY <1>3, <2>1, <2>3, <2>4 DEF Reports
<1>8. ASSUME AskForChat PROVE Job' /\ (CancelComes => CancelComes') /\ Cancelled
  <2>1. PICK kind \in {"completed", "conversationFailed"} :
        backend' = Emitting(IF kind = "completed" THEN <<Note, Message(kind, backend.fork, 0)>>
                            ELSE <<Message(kind, backend.fork, 0)>>)
    BY <1>8 DEF AskForChat, Goto
  <2> DEFINE m == Message(kind, backend.fork, 0)
  <2>2. backend.at = "ask" /\ UNCHANGED <<commands, events, worker>>
    BY <1>8 DEF AskForChat, gitVars
  <2>3. m.kind \in Results /\ backend'.out \in {<<m>>, <<Note, m>>}
    BY <2>1 DEF Message, Results, Emitting
  <2> HIDE DEF m
  <2>4. Leaving'
    <3>1. CASE backend'.out = <<m>>
      BY <2>3, <3>1, OneOut DEF Leaving
    <3>2. CASE backend'.out = <<Note, m>>
      <4>1. 2 \in DOMAIN <<Note, m>> /\ <<Note, m>>[2] = m
        OBVIOUS
      <4> QED
        BY <2>3, <3>2, <4>1 DEF Leaving, Carries
    <3> QED
      BY <2>3, <3>1, <3>2
  <2>5. CancelComes => CancelComes'
    BY <1>1, <2>2, NothingInOut DEF CancelComes, BackendAt
  <2> QED
    BY <1>3, <2>2, <2>4, <2>5 DEF Job, Reports
<1>9. ASSUME RunOther PROVE (Job => Job') /\ (CancelComes => CancelComes') /\ Cancelled
  <2>1. Take("other") /\ UNCHANGED <<events, worker>> /\ backend.at = "idle"
    BY <1>9 DEF RunOther, Take, gitVars
  <2>2. /\ Sent <=> Sent'
        /\ Cancels(commands, "cancel", active.id) <=> Cancels(commands', "cancel", active.id)
    BY <2>1, Taking DEF Jobs
  <2>3. Job => Job'
    BY <2>1, <2>2, NothingInOut DEF Job, InHand, InGit, Reports, Arriving
  <2>4. CancelComes => CancelComes'
    BY <1>1, <2>1, <2>2, NothingInOut DEF CancelComes, BackendAt
  <2> QED
    BY <1>3, <2>1, <2>3, <2>4 DEF Reports
<1>10. ASSUME Emit PROVE (Job => Job') /\ (CancelComes => CancelComes') /\ Cancelled
  <2> DEFINE m == Head(backend.out)
             rest == Tail(backend.out)
  <2>1. /\ backend.at = "emit" /\ backend.out \in Seq(MessageSet) /\ backend.out # <<>>
        /\ UNCHANGED <<commands, worker>> /\ events' = Append(events, m)
        /\ events \in Seq(MessageSet) /\ m \in MessageSet
    BY <1>2, <1>10, SeqTypes, TakingFirst DEF Emit, gitVars
  <2>2. backend'.out = rest
    <3>1. CASE Len(backend.out) = 1
      <4>1. rest = <<>>
        BY <2>1, <3>1, TailOfOne
      <4> QED
        BY <1>10, <3>1, <4>1 DEF Emit, Goto, Idle
    <3>2. CASE Len(backend.out) # 1
      BY <1>10, <3>2 DEF Emit, Goto, Emitting
    <3> QED
      BY <3>1, <3>2
  <2>3. Leaving <=> (Carries(rest, Results) \/ m.kind \in Results)
    BY <2>1, TakeCarries DEF Leaving
  <2>4. Cancels(backend.out, "cancelled", active.id)
        <=> (Cancels(rest, "cancelled", active.id) \/ (m.kind = "cancelled" /\ m.fork = active.id))
    BY <2>1, TakeCancels
  <2> HIDE DEF m, rest
  <2>5. /\ Arriving' <=> (Arriving \/ m.kind \in Results)
        /\ Cancels(events', "cancelled", active.id)
             <=> (Cancels(events, "cancelled", active.id) \/ (m.kind = "cancelled" /\ m.fork = active.id))
    BY <2>1, PutCarries, PutCancels DEF Arriving
  <2>6. Job => Job'
    BY <2>1, <2>2, <2>3, <2>5 DEF Job, Sent, InHand, InGit, Reports, Leaving
  <2>7. CancelComes => CancelComes'
    BY <1>1, <2>1, <2>2, <2>4, <2>5 DEF CancelComes, BackendAt
  <2> QED
    BY <1>3, <2>1, <2>6, <2>7 DEF Reports
<1>11. ASSUME BackendStopped PROVE (Job => Job') /\ (CancelComes => CancelComes') /\ Cancelled
  <2>1. backend.at = "stopping" /\ UNCHANGED <<commands, events, worker>>
    BY <1>11 DEF BackendStopped, gitVars
  <2>2. Job => Job'
    BY <2>1, NothingInOut DEF Job, Sent, InHand, InGit, Reports, Arriving
  <2>3. CancelComes => CancelComes'
    BY <1>1, <2>1, NothingInOut DEF CancelComes, BackendAt
  <2> QED
    BY <1>3, <2>1, <2>2, <2>3 DEF Reports
<1>12. ~StopBackend
  BY <1>1 DEF StopBackend
<1>13. (Job => Job') /\ (CancelComes => CancelComes') /\ Cancelled
  BY <1>4, <1>5, <1>6, <1>7, <1>8, <1>9, <1>10, <1>11, <1>12 DEF Backend
<1> HIDE DEF Cancelled
<1>14. active.phase = "creating" => \A w \in Workers : Reports(w)' => ~worker'[w].cancelled
  BY <1>13 DEF Cancelled
<1> QED
  BY <1>1, <1>3, <1>13, <1>14 DEF InProgressIsReal

LEMMA IdleProgress ==
    ASSUME Types, Control, InProgressIsReal, UNCHANGED <<active, backend, runtime, worker, missed, quitting>>,
           Sent => Sent', Arriving => Arriving',
           Cancels(commands, "cancel", active.id) => Cancels(commands', "cancel", active.id),
           Cancels(events, "cancelled", active.id) => Cancels(events', "cancelled", active.id)
    PROVE  InProgressIsReal'
BY DEF InProgressIsReal, Job, InHand, InGit, Reports, Leaving, CancelComes, BackendAt

(* A phase that has just begun is worked on by the command that was sent.    *)
LEMMA NewPhaseProgress ==
    ASSUME Types, Control, UNCHANGED worker, ~InGit,
           active'.phase # "cancelling",
           \/ active'.phase \notin {"creating", "starting"}
           \/ \E c \in CommandSet : commands' = Append(commands, c) /\ c.kind \in Jobs
    PROVE  InProgressIsReal'
<1>1. ~InGit'
  BY DEF InGit, Reports
<1>2. (\E c \in CommandSet : commands' = Append(commands, c) /\ c.kind \in Jobs) => Sent'
  BY SeqTypes, PutCarries DEF Sent
<1> QED
  BY <1>1, <1>2 DEF InProgressIsReal, Job, InGit

LEMMA ReducerProgress ==
    ASSUME Types, Control, InProgressIsReal, Reduce
    PROVE  InProgressIsReal'
<1>1. CASE UNCHANGED <<active, queue, commands>>
  <2>1. PICK kind : NextIs(kind)
    BY DEF Reduce, ReduceReady, ReduceCreationFailed, ReduceConversationFailed, ReduceCompleted,
           ReduceCancelled, ReduceNote
  <2>2. /\ UNCHANGED <<backend, runtime, worker, missed, quitting>> /\ Head(events) \in Fitting
        /\ Head(events).kind = kind
        /\ Arriving <=> (Arriving' \/ kind \in Results)
        /\ Cancels(events, "cancelled", active.id)
                <=> \/ Cancels(events', "cancelled", active.id)
                    \/ kind = "cancelled" /\ Head(events).fork = active.id
    BY <2>1, Hearing
  <2>3. CASE kind \notin Results /\ ~(kind = "cancelled" /\ Head(events).fork = active.id)
    BY <1>1, <2>2, <2>3, IdleProgress DEF Sent
  <2>4. CASE kind = "cancelled" /\ Head(events).fork = active.id
    <3>1. active.phase # "cancelling"
      <4>1. ReduceCancelled
        BY <2>2, <2>4 DEF Reduce, ReduceReady, ReduceCreationFailed, ReduceConversationFailed,
               ReduceCompleted, ReduceCancelled, ReduceNote, NextIs
      <4>2. ASSUME active.phase = "cancelling" PROVE FALSE
        <5>1. StartNext
          BY <2>4, <4>1, <4>2 DEF ReduceCancelled, About
        <5>2. active'.phase # "cancelling"
          BY <4>1, <5>1, StartNextFacts DEF ReduceCancelled, NextIs, Control
        <5> QED
          BY <1>1, <4>2, <5>2
      <4> QED
        BY <4>2
    <3>2. kind \notin Results
      BY <2>4 DEF Results
    <3> QED
      BY <1>1, <2>2, <3>1, <3>2 DEF InProgressIsReal, Job, Sent, InHand, InGit, Reports, Leaving
  <2>5. CASE kind \in Results
    <3>1. active.phase \notin {"creating", "starting"}
      <4> SUFFICES ASSUME active.phase \in {"creating", "starting"} PROVE FALSE
        OBVIOUS
      <4>1. Fits(Head(events)) /\ active.id = Head(events).fork
            /\ \/ kind \in {"ready", "creationFailed"} /\ active.phase = "creating"
               \/ kind \in {"completed", "conversationFailed"} /\ active.phase = "starting"
        BY <2>2, <2>5 DEF Fitting, Fits, CreatingKinds, OpeningKinds, Creating, Opening, Results
      <4>2. CASE kind = "ready"
        <5>1. OpenChat([active EXCEPT !.root = Head(events).worker])
          BY <2>2, <4>1, <4>2 DEF About, ReadyPhases, Reduce, ReduceReady, ReduceCreationFailed,
             ReduceConversationFailed, ReduceCompleted, ReduceCancelled, ReduceNote, NextIs
        <5>2. [active EXCEPT !.root = Head(events).worker]
                 \in [id : {0} \cup Forks, phase : Phases, root : {0} \cup Workers]
          BY <2>1, Hearing DEF Types, UiTypes, MessageSet
        <5>3. active'.phase \in {"starting", "failedStarting"}
          BY <5>1, <5>2, OpenChatFacts
        <5> QED
          BY <1>1, <4>1, <4>2, <5>3
      <4>3. CASE kind \in {"creationFailed", "conversationFailed"}
        <5>1. active' \in {Phase("failedCreating"), Phase("failedStarting")}
          BY <2>2, <4>1, <4>3 DEF About, Reduce, ReduceReady, ReduceCreationFailed,
             ReduceConversationFailed, ReduceCompleted, ReduceCancelled, ReduceNote, NextIs
        <5>2. active'.phase \in {"failedCreating", "failedStarting"}
          BY <5>1 DEF Phase, Types, UiTypes
        <5> QED
          BY <1>1, <4>1, <5>2
      <4>4. CASE kind = "completed"
        <5>1. StartNext
          BY <2>2, <4>1, <4>4 DEF About, Reduce, ReduceReady, ReduceCreationFailed,
             ReduceConversationFailed, ReduceCompleted, ReduceCancelled, ReduceNote, NextIs
        <5>2. active'.phase \in {"none", "creating", "failedCreating"}
          BY <2>1, <5>1, StartNextFacts DEF NextIs, Control
        <5> QED
          BY <1>1, <4>1, <4>4, <5>2
      <4> QED
        BY <2>5, <4>2, <4>3, <4>4 DEF Results
    <3>2. kind # "cancelled"
      BY <2>5 DEF Results
    <3> QED
      BY <1>1, <2>2, <3>1, <3>2 DEF InProgressIsReal, CancelComes, BackendAt
  <2> QED
    BY <2>3, <2>4, <2>5
<1>2. CASE ~UNCHANGED <<active, queue, commands>>
  <2>1. CASE ReduceReady
    <3>1. NextIs("ready") /\ OpenChat([active EXCEPT !.root = Head(events).worker])
      BY <1>2, <2>1 DEF ReduceReady, Ignored
    <3>2. /\ Arriving /\ UNCHANGED worker /\ Head(events) \in MessageSet
      BY <3>1, Hearing DEF Results
    <3>3. ~InGit
      BY <3>2 DEF Control, OneJob
    <3>4. [active EXCEPT !.root = Head(events).worker]
                 \in [id : {0} \cup Forks, phase : Phases, root : {0} \cup Workers]
      BY <3>2 DEF Types, UiTypes, MessageSet
    <3>5. \/ active'.phase = "failedStarting"
          \/ /\ active'.phase = "starting"
             /\ \E c \in CommandSet : commands' = Append(commands, c) /\ c.kind = "start"
      BY <3>1, <3>4, OpenChatFacts
    <3> QED
      BY <3>2, <3>3, <3>5, NewPhaseProgress DEF Jobs
  <2>2. CASE ReduceCreationFailed \/ ReduceConversationFailed
    <3>1. PICK kind \in {"creationFailed", "conversationFailed"} :
             NextIs(kind) /\ active' \in {Phase("failedCreating"), Phase("failedStarting")}
      BY <1>2, <2>2 DEF ReduceCreationFailed, ReduceConversationFailed, Ignored
    <3>2. active'.phase \in {"failedCreating", "failedStarting"}
      BY <3>1 DEF Phase, Types, UiTypes
    <3>3. Arriving /\ UNCHANGED worker
      BY <3>1, Hearing DEF Results
    <3>4. ~InGit
      BY <3>3 DEF Control, OneJob
    <3> QED
      BY <3>2, <3>3, <3>4, NewPhaseProgress
  <2>3. CASE ReduceCompleted \/ ReduceCancelled
    <3>1. PICK kind \in {"completed", "cancelled"} :
        /\ NextIs(kind) /\ About(IF kind = "completed" THEN {"starting"} ELSE {"cancelling"})
        /\ StartNext
      BY <1>2, <2>3 DEF ReduceCompleted, ReduceCancelled, Ignored
    <3>2. ~InGit /\ UNCHANGED <<worker, requested>>
      BY <3>1, EndHears, Hearing
    <3>3. /\ active'.phase \in {"none", "creating", "failedCreating"}
          /\ \/ UNCHANGED commands
             \/ \E c \in CommandSet : commands' = Append(commands, c) /\ c.kind = "fork"
          /\ UNCHANGED commands \/ active'.phase = "creating"
      BY <3>1, <3>2, StartNextFacts DEF Control
    <3>4. active'.phase = "creating"
             => \E c \in CommandSet : commands' = Append(commands, c) /\ c.kind = "fork"
      BY <3>1, <3>2, StartNextSends DEF Control
    <3> QED
      BY <3>2, <3>3, <3>4, NewPhaseProgress DEF Jobs
  <2> QED
    BY <1>2, <2>1, <2>2, <2>3 DEF Reduce, ReduceNote, Ignored
<1> QED
  BY <1>1, <1>2

LEMMA UserProgress ==
    ASSUME Types, Control, InProgressIsReal, User
    PROVE  InProgressIsReal'
<1>1. UNCHANGED <<events, backend, runtime, worker, missed>>
  BY DEF User, RequestFork, CancelQueued, CancelActive, Retry, Dismiss, OtherEffect, Quit, notUser,
         notUi, gitVars
<1>2. CASE UNCHANGED <<active, commands, quitting>>
  BY <1>1, <1>2, IdleProgress DEF Sent, Arriving
<1>3. CASE RequestFork /\ active = NoFork
  <2>1. StartNow(requested + 1) /\ active.phase = "none" /\ requested + 1 \in Forks
    BY <1>3, Queue, Limits DEF RequestFork, NoFork, Fork, Forks, Control
  <2>2. \/ active' = Fork(requested + 1, "failedCreating", 0)
        \/ /\ active' = Fork(requested + 1, "creating", 0)
           /\ \E c \in CommandSet : commands' = Append(commands, c) /\ c.kind = "fork"
    BY <2>1, StartNowFacts
  <2> QED
    BY <1>1, <2>1, <2>2, NoJob, NewPhaseProgress DEF Fork, Jobs
<1>4. CASE CancelActive
  <2> DEFINE c == Command("cancel", active.id)
  <2>1. active.phase = "creating" /\ UNCHANGED quitting
    BY <1>4 DEF CancelActive, notUser, notUi
  <2>2. CASE CommandRoom
    <3>1. commands' = Append(commands, c) /\ active' = Phase("cancelling")
      BY <1>4, <2>2 DEF CancelActive, Dispatch, Phase, Types, UiTypes
    <3>2. c \in CommandSet /\ c.kind = "cancel" /\ c.fork = active.id
      BY DEF Command, CommandSet, CommandKinds, Types, UiTypes
    <3> HIDE DEF c
    <3>3. Cancels(commands', "cancel", active.id)
      BY <3>1, <3>2, SeqTypes, PutCancels
    <3>4. active'.id = active.id /\ active'.phase = "cancelling"
      BY <3>1 DEF Phase, Types, UiTypes
    <3> QED
      BY <3>3, <3>4 DEF InProgressIsReal, CancelComes
  <2>3. CASE ~CommandRoom
    BY <1>2, <1>4, <2>1, <2>3 DEF CancelActive, Dispatch
  <2> QED
    BY <2>2, <2>3
<1>5. CASE Retry
  <2>1. /\ active.phase \in Failed /\ IF active.root # 0 THEN OpenChat(active) ELSE StartNow(active.id)
    BY <1>5 DEF Retry
  <2>2. active.id \in Forks
    BY <2>1, Queue DEF Failed, Control, Line
  <2>3. ~InGit
    BY <2>1, NoJob DEF Failed
  <2>4. CASE active.root # 0
    <3>1. \/ active'.phase = "failedStarting"
          \/ /\ active'.phase = "starting"
             /\ \E c \in CommandSet : commands' = Append(commands, c) /\ c.kind = "start"
      BY <2>1, <2>4, OpenChatFacts DEF Types, UiTypes
    <3> QED
      BY <1>1, <2>3, <3>1, NewPhaseProgress DEF Jobs
  <2>5. CASE active.root = 0
    <3>1. \/ active' = Fork(active.id, "failedCreating", 0)
          \/ /\ active' = Fork(active.id, "creating", 0)
             /\ \E c \in CommandSet : commands' = Append(commands, c) /\ c.kind = "fork"
      BY <2>1, <2>2, <2>5, StartNowFacts
    <3> QED
      BY <1>1, <2>3, <3>1, NewPhaseProgress DEF Fork, Jobs
  <2> QED
    BY <2>4, <2>5
<1>6. CASE Dismiss
  <2>1. active.phase \in Failed /\ StartNext /\ UNCHANGED requested
    BY <1>6 DEF Dismiss
  <2>2. ~InGit
    BY <2>1, NoJob DEF Failed
  <2>3. active'.phase \in {"none", "creating", "failedCreating"}
    BY <2>1, StartNextFacts DEF Control
  <2>4. active'.phase = "creating"
             => \E c \in CommandSet : commands' = Append(commands, c) /\ c.kind = "fork"
    BY <2>1, StartNextSends DEF Control
  <2> QED
    BY <1>1, <2>2, <2>3, <2>4, NewPhaseProgress DEF Jobs
<1>7. CASE OtherEffect
  <2> DEFINE c == Command("other", 0)
  <2>1. commands' = Append(commands, c) /\ UNCHANGED <<active, quitting>>
    BY <1>7 DEF OtherEffect, uiVars, notUser, notUi
  <2>2. c \in CommandSet
    BY DEF Command, CommandSet, CommandKinds
  <2> HIDE DEF c
  <2>3. (Sent => Sent') /\ (Cancels(commands, "cancel", active.id) => Cancels(commands', "cancel", active.id))
    BY <2>1, <2>2, SeqTypes, PutCarries, PutCancels DEF Sent
  <2> QED
    BY <1>1, <2>1, <2>3, IdleProgress DEF Arriving
<1>8. CASE Quit
  BY <1>8 DEF Quit, InProgressIsReal
<1> QED
  BY <1>2, <1>3, <1>4, <1>5, <1>6, <1>7, <1>8 DEF User, RequestFork, CancelQueued, notUser, notUi

-----------------------------------------------------------------------------
(* Worktrees.                                                                *)
Tells(s, w) == \E i \in DOMAIN s : s[i].kind = "ready" /\ s[i].worker = w

LEMMA PutTells ==
    ASSUME NEW S, NEW s \in Seq(S), NEW x \in S, NEW w
    PROVE  Tells(Append(s, x), w) <=> (Tells(s, w) \/ (x.kind = "ready" /\ x.worker = w))
<1> DEFINE t == Append(s, x)
<1>1. /\ DOMAIN t = 1..(Len(s) + 1) /\ DOMAIN s = 1..Len(s) /\ Len(s) \in Nat
      /\ t[Len(s) + 1] = x /\ \A i \in 1..Len(s) : t[i] = s[i]
  BY PuttingLast
<1> HIDE DEF t
<1>2. \A i \in DOMAIN t : (i \in DOMAIN s /\ t[i] = s[i]) \/ (i = Len(s) + 1 /\ t[i] = x)
  BY <1>1
<1>3. (\A i \in DOMAIN s : i \in DOMAIN t /\ t[i] = s[i]) /\ Len(s) + 1 \in DOMAIN t
  BY <1>1
<1>4. Tells(t, w) <=> (Tells(s, w) \/ (x.kind = "ready" /\ x.worker = w))
  BY <1>1, <1>2, <1>3 DEF Tells
<1> QED
  BY <1>4 DEF t

LEMMA TakeTells ==
    ASSUME NEW S, NEW s \in Seq(S), s # <<>>, NEW w
    PROVE  Tells(s, w) => Tells(Tail(s), w) \/ (Head(s).kind = "ready" /\ Head(s).worker = w)
<1> DEFINE t == Tail(s)
<1>1. /\ DOMAIN t = 1..(Len(s) - 1) /\ DOMAIN s = 1..Len(s) /\ Len(s) \in Nat \ {0}
      /\ Head(s) = s[1] /\ \A i \in 1..(Len(s) - 1) : t[i] = s[i + 1]
  BY TakingFirst
<1> HIDE DEF t
<1>2. \A i \in DOMAIN s : i = 1 \/ (i - 1 \in DOMAIN t /\ t[i - 1] = s[i])
  BY <1>1
<1>3. Tells(s, w) => Tells(t, w) \/ (Head(s).kind = "ready" /\ Head(s).worker = w)
  BY <1>1, <1>2 DEF Tells
<1> QED
  BY <1>3 DEF t

LEMMA WorktreesKept ==
    ASSUME Worktrees, UNCHANGED disk,
           \A w \in Workers : disk[w].is = "partial" => worker'[w].at \in {"building", "cleaning"},
           \A f : Begun(f) => Begun(f)',
           \A w \in Workers : disk[w].is = "whole" /\ disk[w].fork = active'.id
                                => active'.phase # "failedCreating" /\ ~BeingMade',
           \A w \in Workers : disk[w].is = "whole" /\ KnownOf(w) => KnownOf(w)'
    PROVE  Worktrees'
<1> SUFFICES ASSUME NEW w \in Workers
             PROVE  /\ disk'[w].is = "partial" => worker'[w].at \in {"building", "cleaning"}
                    /\ disk'[w].is = "whole" =>
                         /\ Begun(disk[w].fork)'
                         /\ disk'[w].fork = active'.id => active'.phase # "failedCreating" /\ ~BeingMade'
                         /\ KnownOf(w)'
                         /\ \A v \in Workers \ {w} : disk'[v].is = "whole" => disk'[v].fork # disk'[w].fork
  BY DEF Worktrees
<1>1. PICK f : f = disk[w].fork
  OBVIOUS
<1>2. Begun(f)' => Begun(disk[w].fork)'
  BY <1>1 DEF Begun, Queued
<1> QED
  BY <1>1, <1>2 DEF Worktrees

(* The worker makes one worktree, for the fork in hand.                      *)
LEMMA WorkerMaking ==
    ASSUME Types, Control, NEW w \in Workers, WorkerStep(w)
    PROVE  BeingMade' => BeingMade
<1>1. UNCHANGED <<active, commands, backend, runtime>>
      /\ \A v \in Workers \ {w} : worker'[v] = worker[v]
  BY WorkerFrame
<1>2. worker'[w].at \in {"probing", "building", "cleaning", "failed"}
        => worker[w].at \in {"probing", "building", "cleaning", "failed"}
  BY DEF WorkerStep, Allocate, ProbeFails, Complete, BuildFails, CleanUp, EmitOutcome, ThreadEnds,
         Becomes, Report, NoWorker, Types, BackendTypes, WorkerSet
<1>3. Carries(events', {"creationFailed"}) => Carries(events, {"creationFailed"}) \/ worker[w].at = "failed"
  <2>1. CASE UNCHANGED events
    BY <2>1
  <2>2. CASE ~UNCHANGED events
    <3>1. events' = Append(events, Outcome(w)) /\ worker[w].at \in {"ready", "failed"}
      BY <2>2 DEF WorkerStep, Allocate, ProbeFails, Complete, BuildFails, CleanUp, EmitOutcome, ThreadEnds
    <3>2. Outcome(w) \in MessageSet /\ (worker[w].at = "ready" => Outcome(w).kind = "ready")
      BY DEF Outcome, Message, MessageSet, MessageKinds, Types, BackendTypes, WorkerSet
    <3> QED
      BY <3>1, <3>2, SeqTypes, PutCarries
  <2> QED
    BY <2>1, <2>2
<1> QED
  BY <1>1, <1>2, <1>3 DEF BeingMade

LEMMA WorkerTells ==
    ASSUME Types, Control, NEW w \in Workers, WorkerStep(w), NEW v \in Workers, KnownOf(v)
    PROVE  KnownOf(v)'
<1>0. missed => missed'
  BY DEF WorkerStep, Allocate, ProbeFails, Complete, BuildFails, CleanUp, EmitOutcome, ThreadEnds
<1>1. /\ UNCHANGED <<active, kept, quitting>> /\ (missed => missed')
      /\ v # w => worker'[v] = worker[v]
  BY <1>0, WorkerFrame
<1>2. CASE UNCHANGED events /\ (v # w \/ worker[v].at # "ready")
  BY <1>1, <1>2 DEF KnownOf, Announced
<1>3. CASE EmitOutcome(w)
  <2>1. CASE EventRoom
    <3>1. events' = Append(events, Outcome(w))
      BY <1>3, <2>1 DEF EmitOutcome
    <3>2. Outcome(w) \in MessageSet
          /\ (worker[w].at = "ready" => Outcome(w).kind = "ready" /\ Outcome(w).worker = w)
      BY DEF Outcome, Message, MessageSet, MessageKinds, Types, BackendTypes, WorkerSet
    <3>3. Tells(events, v) \/ (v = w /\ worker[w].at = "ready") => Tells(events', v)
      BY <3>1, <3>2, SeqTypes, PutTells
    <3> QED
      BY <1>1, <3>3 DEF KnownOf, Announced, Tells
  <2>2. CASE ~EventRoom
    BY <1>3, <2>2 DEF EmitOutcome, KnownOf
  <2> QED
    BY <2>1, <2>2
<1> QED
  BY <1>2, <1>3 DEF WorkerStep, Allocate, ProbeFails, Complete, BuildFails, CleanUp, EmitOutcome, ThreadEnds

LEMMA WorkerWorktrees ==
    ASSUME Types, Control, Worktrees, NEW w \in Workers, WorkerStep(w)
    PROVE  Worktrees'
<1>1. /\ UNCHANGED <<active, queue, requested, kept, commands, backend, runtime, quitting>>
      /\ w = runtime /\ worker[w].at \notin {"none", "gone"}
      /\ \A v \in Workers \ {w} : worker'[v] = worker[v] /\ disk'[v] = disk[v]
  BY WorkerFrame
<1>2. \A f : Begun(f)' <=> Begun(f)
  BY <1>1, FitsKept
<1>3. ASSUME NEW v \in Workers, disk'[v] = disk[v], disk'[v].is = "whole"
      PROVE  /\ Begun(disk[v].fork)'
             /\ disk'[v].fork = active'.id => active'.phase # "failedCreating" /\ ~BeingMade'
             /\ KnownOf(v)'
  <2>1. PICK f : f = disk[v].fork
    OBVIOUS
  <2>2. Begun(f)'
    BY <1>2, <1>3, <2>1 DEF Worktrees
  <2>3. Begun(disk[v].fork)'
    BY <1>3, <2>1, <2>2 DEF Begun, Queued
  <2> QED
    BY <1>1, <1>3, <2>3, WorkerMaking, WorkerTells DEF Worktrees
<1>4. ASSUME NEW v \in Workers, v # w
      PROVE  disk'[v].is = "partial" => worker'[v].at \in {"building", "cleaning"}
  BY <1>1, <1>4 DEF Worktrees
<1>5. CASE Complete(w)
  <2>1. /\ worker[w].at = "building" /\ Reports(w) /\ InGit /\ UNCHANGED events
        /\ disk'[w] = [fork |-> worker[w].fork, is |-> "whole"] /\ worker'[w].at = "ready"
    BY <1>5 DEF Complete, OnDisk, Becomes, Reports, InGit, Types, BackendTypes
  <2>2. Creating(worker[w].fork) /\ ~Sent /\ ~InHand /\ ~Leaving /\ ~Arriving
    BY <2>1 DEF Control, JobFits, OneJob
  <2>3. disk'[w].is = "whole" /\ disk'[w].fork = active.id
    BY <2>1, <2>2 DEF Creating
  <2>4. BeingMade
    BY <2>1 DEF BeingMade
  <2>5. \A v \in Workers \ {w} : disk[v].is = "whole" => disk[v].fork # active.id
    BY <2>4 DEF Worktrees
  <2>6. ~BeingMade'
    <3>1. ~Carries(commands', {"fork"}) /\ ~Carries(backend'.out, {"creationFailed"})
          /\ ~Carries(events', {"creationFailed"})
      BY <1>1, <2>1, <2>2 DEF Sent, Leaving, Arriving, Carries, Jobs, Results
    <3>2. \A v \in Workers : worker'[v].at \in {"none", "gone", "ready"}
      BY <1>1, <2>1 DEF Control, OneWorker
    <3> QED
      BY <1>1, <2>2, <3>1, <3>2 DEF BeingMade, InHand
  <2>7. Begun(disk[w].fork)'
    <3>1. PICK f : f = active.id
      OBVIOUS
    <3>2. active.id \in 1..requested /\ ~Queued(active.id)
      <4>1. active.id # 0 /\ active.id \in Nat /\ active.id <= requested /\ requested \in Nat
        BY <2>2, Queue DEF Creating, Control, Line
      <4>2. \A i \in DOMAIN queue : active.id < queue[i] /\ queue[i] \in Nat
        BY Queue DEF Control, Line
      <4> QED
        BY <4>1, <4>2 DEF Queued
    <3> QED
      BY <1>1, <2>3, <3>2 DEF Begun, Queued
  <2>8. KnownOf(w)'
    BY <2>1 DEF KnownOf, Announced
  <2>9. active'.phase # "failedCreating"
    BY <1>1, <2>2 DEF Creating
  <2> SUFFICES ASSUME NEW v \in Workers
               PROVE  /\ disk'[v].is = "partial" => worker'[v].at \in {"building", "cleaning"}
                      /\ disk'[v].is = "whole" =>
                         /\ Begun(disk[v].fork)'
                         /\ disk'[v].fork = active'.id => active'.phase # "failedCreating" /\ ~BeingMade'
                         /\ KnownOf(v)'
                         /\ \A u \in Workers \ {v} : disk'[u].is = "whole" => disk'[u].fork # disk'[v].fork
    BY DEF Worktrees
  <2>10. \A u \in Workers \ {v} : disk'[v].is = "whole" /\ disk'[u].is = "whole" => disk'[u].fork # disk'[v].fork
    BY <1>1, <2>3, <2>5 DEF Worktrees
  <2>11. CASE v = w
    BY <2>3, <2>6, <2>7, <2>8, <2>9, <2>10, <2>11
  <2>12. CASE v # w
    BY <1>1, <1>3, <1>4, <2>10, <2>12
  <2> QED
    BY <2>11, <2>12
<1>6. CASE ~Complete(w)
  <2>1. disk'[w].is = "partial" => worker'[w].at \in {"building", "cleaning"}
    <3>1. CASE Allocate(w)
      BY <3>1 DEF Allocate, Becomes, Types, BackendTypes, WorkerSet
    <3>4. CASE BuildFails(w)
      BY <3>4 DEF BuildFails, Becomes, Types, BackendTypes, WorkerSet
    <3>2. CASE CleanUp(w)
      BY <3>2 DEF CleanUp, NoDirectory, Types, BackendTypes
    <3>3. CASE ProbeFails(w) \/ EmitOutcome(w) \/ ThreadEnds(w)
      BY <3>3 DEF ProbeFails, EmitOutcome, ThreadEnds, Worktrees
    <3> QED
      BY <1>6, <3>1, <3>2, <3>3, <3>4 DEF WorkerStep
  <2>2. disk'[w].is = "whole" => disk'[w] = disk[w]
    BY <1>6 DEF WorkerStep, Allocate, ProbeFails, BuildFails, CleanUp, EmitOutcome,
       ThreadEnds, OnDisk, NoDirectory, Types, BackendTypes
  <2>3. \A v \in Workers : disk'[v].is = "whole" => disk'[v] = disk[v]
    BY <1>1, <2>2
  <2> SUFFICES ASSUME NEW v \in Workers
               PROVE  /\ disk'[v].is = "partial" => worker'[v].at \in {"building", "cleaning"}
                      /\ disk'[v].is = "whole" =>
                         /\ Begun(disk[v].fork)'
                         /\ disk'[v].fork = active'.id => active'.phase # "failedCreating" /\ ~BeingMade'
                         /\ KnownOf(v)'
                         /\ \A u \in Workers \ {v} : disk'[u].is = "whole" => disk'[u].fork # disk'[v].fork
    BY DEF Worktrees
  <2>4. \A u \in Workers \ {v} : disk'[v].is = "whole" /\ disk'[u].is = "whole" => disk'[u].fork # disk'[v].fork
    BY <2>3 DEF Worktrees
  <2> QED
    BY <1>3, <1>4, <2>1, <2>3, <2>4
<1> QED
  BY <1>5, <1>6

LEMMA BackendWorktrees ==
    ASSUME Types, Control, Worktrees, Backend
    PROVE  Worktrees'
<1>1. /\ UNCHANGED <<active, queue, requested, kept, disk, quitting>>
  BY BackendFrame
<1>2. \A f : Begun(f)' <=> Begun(f)
  BY <1>1, FitsKept
<1>3. \A v \in Workers : worker[v].at # "none" => worker'[v].at = worker[v].at
  <2>1. CASE JoinThenStart
    BY <2>1 DEF JoinThenStart, StartWorker, Unused, Types, BackendTypes
  <2>2. CASE RunCancel
    <3>1. worker' = worker \/ worker' = [worker EXCEPT ![Reaped].cancelled = TRUE]
      BY <2>2 DEF RunCancel
    <3>2. worker \in [Workers -> WorkerSet]
      BY DEF Types, BackendTypes
    <3> QED
      BY <3>1, <3>2 DEF WorkerSet
  <2>4. CASE StopBackend
    BY <2>4 DEF StopBackend, gitVars, Types, BackendTypes, WorkerSet
  <2>3. CASE ~(JoinThenStart \/ RunCancel \/ StopBackend)
    BY <2>3 DEF Backend, RunFork, CancelJoined, RunStart, AskForChat, RunOther, Emit, BackendStopped, gitVars
  <2> QED
    BY <2>1, <2>2, <2>3, <2>4
<1>4. \A v \in Workers : worker'[v].at = worker[v].at \/ backend.at = "join"
  <2>1. CASE JoinThenStart
    BY <2>1 DEF JoinThenStart
  <2>2. CASE RunCancel
    <3>1. worker' = worker \/ worker' = [worker EXCEPT ![Reaped].cancelled = TRUE]
      BY <2>2 DEF RunCancel
    <3>2. worker \in [Workers -> WorkerSet]
      BY DEF Types, BackendTypes
    <3> QED
      BY <3>1, <3>2 DEF WorkerSet
  <2>3. CASE StopBackend
    BY <2>3 DEF StopBackend, gitVars, Types, BackendTypes, WorkerSet
  <2>4. CASE ~(JoinThenStart \/ RunCancel \/ StopBackend)
    BY <2>4 DEF Backend, RunFork, CancelJoined, RunStart, AskForChat, RunOther, Emit,
       BackendStopped, gitVars
  <2> QED
    BY <2>1, <2>2, <2>3, <2>4
<1>5. Carries(commands', {"fork"}) => Carries(commands, {"fork"})
  <2>1. CASE UNCHANGED commands
    BY <2>1
  <2>2. CASE commands # <<>> /\ commands' = Tail(commands)
    BY <2>2, SeqTypes, TakeCarries
  <2> QED
    BY <2>1, <2>2 DEF Backend, RunFork, JoinThenStart, RunCancel, CancelJoined, RunStart, AskForChat,
         RunOther, Emit, StopBackend, BackendStopped, Take
<1>6. backend'.at = "join" => BeingMade
  <2>1. backend'.at = "join" => RunFork
    BY DEF Backend, RunFork, JoinThenStart, StartWorker, RunCancel, CancelJoined, RunStart, AskForChat,
         RunOther, Emit, StopBackend, BackendStopped, Goto, Idle, Busy, Emitting
  <2>2. RunFork => Carries(commands, {"fork"})
    BY SeqTypes, TakeCarries DEF RunFork, Take
  <2> QED
    BY <2>1, <2>2 DEF BeingMade
<1>7. /\ Carries(backend'.out, {"creationFailed"}) => BeingMade
      /\ Carries(events', {"creationFailed"}) => BeingMade
      /\ \A w \in Workers : Tells(events, w) => Tells(events', w)
  <2>1. CASE Emit
    <3>1. /\ backend.out \in Seq(MessageSet) /\ backend.out # <<>> /\ events \in Seq(MessageSet)
          /\ Head(backend.out) \in MessageSet
      BY <2>1, SeqTypes, TakingFirst DEF Emit
    <3>2. Carries(backend.out, {"creationFailed"})
            <=> (Carries(Tail(backend.out), {"creationFailed"}) \/ Head(backend.out).kind = "creationFailed")
      BY <3>1, TakeCarries
    <3>3. backend'.out \in {<<>>, Tail(backend.out)}
      BY <2>1 DEF Emit, Goto, Idle, Emitting
    <3>4. /\ Carries(Append(events, Head(backend.out)), {"creationFailed"})
               <=> (Carries(events, {"creationFailed"}) \/ Head(backend.out).kind = "creationFailed")
          /\ \A w \in Workers : Tells(events, w) => Tells(Append(events, Head(backend.out)), w)
      BY <3>1, PutCarries, PutTells
    <3> QED
      BY <2>1, <3>2, <3>3, <3>4, NothingOut DEF BeingMade, Emit
  <2>2. CASE ~Emit
    <3>1. UNCHANGED events
      BY <2>2 DEF Backend, RunFork, JoinThenStart, RunCancel, CancelJoined, RunStart, AskForChat,
         RunOther, StopBackend, BackendStopped
    <3>2. CASE JoinThenStart
      BY <3>1, <3>2 DEF JoinThenStart, BeingMade
    <3>3. CASE RunFork \/ RunStart \/ StopBackend \/ BackendStopped
      <4>1. backend'.out = <<>>
        BY <3>3 DEF RunFork, RunStart, StopBackend, BackendStopped, Goto, Busy
      <4> QED
        BY <3>1, <4>1, NothingOut DEF BeingMade
    <3>4. CASE RunCancel \/ CancelJoined
      <4>1. backend'.out = <<>> \/ \E f : backend'.out = <<Message("cancelled", f, 0)>>
        BY <3>4 DEF RunCancel, CancelJoined, Goto, Busy, Emitting
      <4>2. \A f : ~Carries(<<Message("cancelled", f, 0)>>, {"creationFailed"})
        BY OneOut DEF Message
      <4> QED
        BY <3>1, <4>1, <4>2, NothingOut DEF BeingMade
    <3>5. CASE RunOther
      <4>1. backend'.out = <<Note>> /\ Note.kind = "note"
        BY <3>5 DEF RunOther, Goto, Emitting, Note, Message
      <4> QED
        BY <3>1, <4>1, OneOut DEF BeingMade
    <3>6. CASE AskForChat
      <4>1. PICK m : m.kind \in {"completed", "conversationFailed"} /\ backend'.out \in {<<m>>, <<Note, m>>}
        BY <3>6 DEF AskForChat, Goto, Emitting, Message
      <4>2. \A i \in DOMAIN backend'.out : backend'.out[i] \in {m, Note}
        BY <4>1
      <4> QED
        BY <3>1, <4>1, <4>2 DEF BeingMade, Carries, Note, Message
    <3> QED
      BY <2>2, <3>2, <3>3, <3>4, <3>5, <3>6 DEF Backend
  <2> QED
    BY <2>1, <2>2
<1>8. BeingMade' => BeingMade
  BY <1>4, <1>5, <1>6, <1>7 DEF BeingMade
<1>9. missed => missed'
  BY DEF Backend, RunFork, JoinThenStart, RunCancel, CancelJoined, RunStart, AskForChat, RunOther,
         Emit, StopBackend, BackendStopped
<1>10. \A w \in Workers : KnownOf(w) => KnownOf(w)'
  BY <1>1, <1>3, <1>7, <1>9 DEF KnownOf, Announced, Tells
<1>11. \A w \in Workers : disk[w].is = "partial" => worker'[w].at \in {"building", "cleaning"}
  BY <1>3 DEF Worktrees
<1>12. \A w \in Workers : disk[w].is = "whole" /\ disk[w].fork = active'.id
                                => active'.phase # "failedCreating" /\ ~BeingMade'
  BY <1>1, <1>8 DEF Worktrees
<1> QED
  BY <1>1, <1>2, <1>10, <1>11, <1>12, WorktreesKept

(* The reducer and the user make no worktree, and leave none unknown.        *)
LEMMA UiWorktrees ==
    ASSUME Types, Control, Worktrees,
           UNCHANGED <<worker, disk, missed, backend>>, quitting => quitting', 
           \A w \in Workers : Tells(events, w) => Tells(events', w) \/ active'.root = w,
           \A w \in Workers : active.root = w => active'.root = w \/ w \in kept', kept \subseteq kept',
           \A f : Begun(f) => Begun(f)',
           Carries(events', {"creationFailed"}) => Carries(events, {"creationFailed"}),
           \/ \A f : Begun(f) => f # active'.id
           \/ /\ active'.id = active.id
              /\ active'.phase = "failedCreating" => active.phase = "failedCreating" \/ BeingMade
              /\ \/ Carries(commands', {"fork"}) => Carries(commands, {"fork"})
                 \/ active.phase = "failedCreating"
    PROVE  Worktrees'
<1>1. \A w \in Workers : disk[w].is = "partial" => worker'[w].at \in {"building", "cleaning"}
  BY DEF Worktrees
<1>2. \A w \in Workers : disk[w].is = "whole" /\ KnownOf(w) => KnownOf(w)'
  BY DEF KnownOf, Announced, Tells
<1>3. ASSUME NEW w \in Workers, disk[w].is = "whole", disk[w].fork = active'.id
      PROVE  active'.phase # "failedCreating" /\ ~BeingMade'
  BY <1>3 DEF Worktrees, BeingMade
<1> QED
  BY <1>1, <1>2, <1>3, WorktreesKept

LEMMA HearingTells ==
    ASSUME Types, Control, NEW kind, NextIs(kind)
    PROVE  /\ Carries(events', {"creationFailed"}) => Carries(events, {"creationFailed"})
           /\ kind = "creationFailed" => Carries(events, {"creationFailed"})
           /\ \A w \in Workers : Tells(events, w) => \/ Tells(events', w)
                                                     \/ kind = "ready" /\ Head(events).worker = w
<1>1. events \in Seq(MessageSet) /\ events # <<>> /\ events' = Tail(events) /\ Head(events).kind = kind
  BY SeqTypes DEF NextIs
<1>2. Carries(events, {"creationFailed"})
        <=> (Carries(Tail(events), {"creationFailed"}) \/ kind = "creationFailed")
  BY <1>1, TakeCarries
<1> QED
  BY <1>1, <1>2, TakeTells

LEMMA NewFork ==
    ASSUME NEW kinds, "fork" \notin kinds, commands \in Seq(CommandSet),
           \/ UNCHANGED commands
           \/ \E c \in CommandSet : commands' = Append(commands, c) /\ c.kind \in kinds
    PROVE  Carries(commands', {"fork"}) => Carries(commands, {"fork"})
BY PutCarries

LEMMA ReducerWorktrees ==
    ASSUME Types, Control, Worktrees, Reduce
    PROVE  Worktrees'
<1>1. PICK kind \in MessageKinds :
        /\ NextIs(kind)
        /\ \/ kind = "ready" /\ ReduceReady
           \/ kind = "creationFailed" /\ ReduceCreationFailed
           \/ kind = "conversationFailed" /\ ReduceConversationFailed
           \/ kind = "completed" /\ ReduceCompleted
           \/ kind = "cancelled" /\ ReduceCancelled
           \/ kind = "note" /\ ReduceNote
  BY DEF Reduce, ReduceReady, ReduceCreationFailed, ReduceConversationFailed, ReduceCompleted,
           ReduceCancelled, ReduceNote, MessageKinds
<1>2. /\ UNCHANGED <<worker, disk, missed, quitting, backend, requested>>
      /\ Head(events) \in Fitting /\ Head(events).kind = kind /\ Head(events) \in MessageSet
      /\ Carries(events', {"creationFailed"}) => Carries(events, {"creationFailed"})
      /\ kind = "creationFailed" => Carries(events, {"creationFailed"})
      /\ \A w \in Workers : Tells(events, w) => \/ Tells(events', w)
                                                \/ kind = "ready" /\ Head(events).worker = w
      /\ commands \in Seq(CommandSet)
  BY <1>1, Hearing, HearingTells, SeqTypes
<1>3. CASE kind = "ready"
  <2>1. /\ active.phase \in {"creating", "cancelling"} /\ Head(events).fork = active.id
        /\ Head(events).worker # 0 /\ active.root = 0
    BY <1>2, <1>3 DEF Fitting, Fits, CreatingKinds, Creating, Control, Line
  <2>2. /\ OpenChat([active EXCEPT !.root = Head(events).worker]) /\ UNCHANGED <<queue, kept>>
    BY <1>1, <1>3, <2>1 DEF ReduceReady, About, ReadyPhases
  <2> DEFINE fork == [active EXCEPT !.root = Head(events).worker]
  <2>3. /\ fork \in [id : {0} \cup Forks, phase : Phases, root : {0} \cup Workers]
        /\ fork.id = active.id /\ fork.root = Head(events).worker
    BY <1>2 DEF Types, UiTypes, MessageSet
  <2> HIDE DEF fork
  <2>4. /\ active'.id = active.id /\ active'.root = Head(events).worker
        /\ active'.phase # "failedCreating"
        /\ \/ UNCHANGED commands
           \/ \E c \in CommandSet : commands' = Append(commands, c) /\ c.kind \in {"start"}
    BY <2>2, <2>3, OpenChatFacts DEF fork
  <2>5. Carries(commands', {"fork"}) => Carries(commands, {"fork"})
    BY <1>2, <2>4, NewFork
  <2>6. \A f : Begun(f) => Begun(f)'
    BY <1>2, <2>2 DEF Begun, Queued
  <2>7. \A w \in Workers : active.root # w
    BY <2>1, Limits
  <2> QED
    BY <1>2, <2>2, <2>4, <2>5, <2>6, <2>7, UiWorktrees
<1>4. CASE kind # "ready" /\ UNCHANGED <<active, queue, commands, kept>>
  BY <1>2, <1>4, UiWorktrees DEF Begun, Queued
<1>5. CASE kind \in {"creationFailed", "conversationFailed"} /\ ~UNCHANGED <<active, queue, commands, kept>>
  <2>1. /\ UNCHANGED <<queue, commands, kept>>
        /\ \/ kind = "creationFailed" /\ active' = Phase("failedCreating")
           \/ active' = Phase("failedStarting")
    BY <1>1, <1>5 DEF ReduceCreationFailed, ReduceConversationFailed, Ignored
  <2>2. /\ active'.id = active.id /\ active'.root = active.root
        /\ active'.phase = "failedCreating" => kind = "creationFailed"
    BY <2>1 DEF Phase, Types, UiTypes
  <2>3. kind = "creationFailed" => BeingMade
    BY <1>2 DEF BeingMade
  <2>4. \A f : Begun(f) => Begun(f)'
    BY <1>2, <2>1 DEF Begun, Queued
  <2> QED
    BY <1>2, <1>5, <2>1, <2>2, <2>3, <2>4, UiWorktrees
<1>6. CASE kind \in {"completed", "cancelled"} /\ ~UNCHANGED <<active, queue, commands, kept>>
  <2>1. StartNext /\ UNCHANGED requested
    BY <1>1, <1>2, <1>6 DEF ReduceCompleted, ReduceCancelled, Ignored
  <2>2. \A f : Begun(f) => Begun(f)' /\ f # active'.id
    BY <2>1, StartNextFacts DEF Control
  <2>3. kept \subseteq kept' /\ \A w \in Workers : active.root = w => w \in kept'
    <3>1. CASE kind = "completed"
      BY <1>1, <1>6, <3>1, Limits DEF ReduceCompleted, Keep, Ignored
    <3>2. CASE kind = "cancelled"
      <4>1. UNCHANGED kept /\ active.phase = "cancelling"
        BY <1>1, <1>6, <3>2 DEF ReduceCancelled, Ignored, About
      <4> QED
        BY <4>1, Limits DEF Control, Line
    <3> QED
      BY <1>6, <3>1, <3>2
  <2> QED
    BY <1>2, <1>6, <2>2, <2>3, UiWorktrees
<1> QED
  BY <1>1, <1>3, <1>4, <1>5, <1>6 DEF ReduceNote, Ignored, MessageKinds

LEMMA UserWorktrees ==
    ASSUME Types, Control, Worktrees, User
    PROVE  Worktrees'
<1>1. /\ UNCHANGED <<events, worker, disk, missed, backend>> /\ (quitting => quitting')
      /\ commands \in Seq(CommandSet)
  BY SeqTypes
     DEF User, RequestFork, CancelQueued, CancelActive, Retry, Dismiss, OtherEffect, Quit, notUser,
         notUi, gitVars
<1>2. CASE UNCHANGED <<active, commands, kept>> /\ \A f : Begun(f) => Begun(f)'
  BY <1>1, <1>2, UiWorktrees
<1>3. CASE RequestFork /\ active = NoFork
  <2>1. /\ StartNow(requested + 1) /\ UNCHANGED <<queue, kept>> /\ requested' = requested + 1
        /\ active.root = 0 /\ queue = <<>>
    BY <1>3 DEF RequestFork, NoFork, Fork, Control, Line
  <2>2. requested + 1 \in Forks /\ requested \in Nat
    BY <1>3, Queue, Limits DEF RequestFork, Forks, Control
  <2>3. active'.id = requested + 1
    BY <2>1, <2>2, StartNowFacts DEF Fork
  <2>4. \A f : Begun(f) => Begun(f)' /\ f # active'.id
    BY <2>1, <2>2, <2>3 DEF Begun, Queued
  <2>5. \A w \in Workers : active.root # w
    BY <2>1, Limits
  <2> QED
    BY <1>1, <2>1, <2>4, <2>5, UiWorktrees
<1>4. CASE CancelActive
  <2>1. /\ Dispatch("cancel", Phase("cancelling"), active) /\ UNCHANGED <<queue, requested, kept>>
        /\ active.phase = "creating"
    BY <1>4 DEF CancelActive
  <2>2. /\ active'.id = active.id /\ active'.root = active.root /\ active'.phase # "failedCreating"
    BY <2>1 DEF Dispatch, Phase, Types, UiTypes
  <2>3. \/ UNCHANGED commands
        \/ \E c \in CommandSet : commands' = Append(commands, c) /\ c.kind \in {"cancel"}
    <3> DEFINE c == Command("cancel", active.id)
    <3>1. c \in CommandSet /\ c.kind = "cancel"
      BY DEF Command, CommandSet, CommandKinds, Types, UiTypes
    <3>2. UNCHANGED commands \/ commands' = Append(commands, c)
      BY <2>1 DEF Dispatch, Phase, Types, UiTypes
    <3> QED
      BY <3>1, <3>2
  <2>4. Carries(commands', {"fork"}) => Carries(commands, {"fork"})
    BY <1>1, <2>3, NewFork
  <2>5. \A f : Begun(f) => Begun(f)'
    BY <2>1 DEF Begun, Queued
  <2> QED
    BY <1>1, <2>1, <2>2, <2>4, <2>5, UiWorktrees
<1>5. CASE Retry
  <2>1. /\ active.phase \in Failed /\ IF active.root # 0 THEN OpenChat(active) ELSE StartNow(active.id)
        /\ UNCHANGED <<queue, requested, kept>>
    BY <1>5 DEF Retry
  <2>2. active.id \in Forks
    BY <2>1, Queue DEF Failed, Control, Line
  <2>3. \A f : Begun(f) => Begun(f)'
    BY <2>1 DEF Begun, Queued
  <2>4. CASE active.root # 0
    <3>1. /\ active'.id = active.id /\ active'.root = active.root
          /\ active'.phase # "failedCreating"
          /\ \/ UNCHANGED commands
             \/ \E c \in CommandSet : commands' = Append(commands, c) /\ c.kind \in {"start"}
      BY <2>1, <2>4, OpenChatFacts DEF Types, UiTypes
    <3>2. Carries(commands', {"fork"}) => Carries(commands, {"fork"})
      BY <1>1, <3>1, NewFork
    <3> QED
      BY <1>1, <2>1, <2>3, <3>1, <3>2, UiWorktrees
  <2>5. CASE active.root = 0
    <3>1. active'.id = active.id /\ active'.root = 0
      BY <2>1, <2>2, <2>5, StartNowFacts DEF Fork
    <3>2. active.phase = "failedCreating"
      BY <2>1, <2>5 DEF Control, Line, Failed
    <3> QED
      BY <1>1, <2>1, <2>3, <2>5, <3>1, <3>2, UiWorktrees
  <2> QED
    BY <2>4, <2>5
<1>6. CASE Dismiss
  <2>1. StartNext /\ UNCHANGED requested /\ Keep
    BY <1>6 DEF Dismiss
  <2>2. \A f : Begun(f) => Begun(f)' /\ f # active'.id
    BY <2>1, StartNextFacts DEF Control
  <2>3. kept \subseteq kept' /\ \A w \in Workers : active.root = w => w \in kept'
    BY <2>1, Limits DEF Keep
  <2> QED
    BY <1>1, <2>2, <2>3, UiWorktrees
<1>7. CASE OtherEffect
  <2> DEFINE c == Command("other", 0)
  <2>1. c \in CommandSet /\ c.kind = "other"
    BY DEF Command, CommandSet, CommandKinds
  <2>2. commands' = Append(commands, c) /\ UNCHANGED <<active, queue, requested, kept>>
    BY <1>7 DEF OtherEffect, uiVars
  <2> HIDE DEF c
  <2>3. Carries(commands', {"fork"}) => Carries(commands, {"fork"})
    BY <1>1, <2>1, <2>2, PutCarries
  <2> QED
    BY <1>1, <2>2, <2>3, UiWorktrees DEF Begun, Queued
<1>8. RequestFork /\ active # NoFork
        => UNCHANGED <<active, commands, kept>> /\ \A f : Begun(f) => Begun(f)'
  BY QueuedFork DEF RequestFork, Control
<1>9. CancelQueued => UNCHANGED <<active, commands, kept>> /\ \A f : Begun(f) => Begun(f)'
  BY WithdrawnFork DEF CancelQueued, Control
<1>10. Quit => UNCHANGED <<active, commands, kept>> /\ \A f : Begun(f) => Begun(f)'
  BY DEF Quit, uiVars, Begun, Queued
<1> QED
  BY <1>2, <1>3, <1>4, <1>5, <1>6, <1>7, <1>8, <1>9, <1>10 DEF User

LEMMA InitReal == Init => InProgressIsReal /\ Worktrees
<1> SUFFICES ASSUME Init PROVE InProgressIsReal /\ Worktrees
  OBVIOUS
<1>1. active.phase = "none" /\ \A w \in Workers : disk[w].is = "nothing"
  BY DEF Init, NoFork, Fork, NoDirectory
<1> QED
  BY <1>1 DEF InProgressIsReal, Worktrees

LEMMA RealStep ==
    Types /\ Control /\ InProgressIsReal /\ Worktrees /\ [Next]_vars => InProgressIsReal' /\ Worktrees'
<1> SUFFICES ASSUME Types, Control, InProgressIsReal, Worktrees, [Next]_vars
             PROVE  InProgressIsReal' /\ Worktrees'
  OBVIOUS
<1>1. CASE \E w \in Workers : WorkerStep(w)
  BY <1>1, WorkerProgress, WorkerWorktrees
<1>2. CASE Backend
  BY <1>2, BackendProgress, BackendWorktrees
<1>3. CASE Reduce
  BY <1>3, ReducerProgress, ReducerWorktrees
<1>4. CASE User
  BY <1>4, UserProgress, UserWorktrees
<1>5. CASE UNCHANGED vars
  <2>1. UNCHANGED <<active, queue, requested, kept, commands, events, backend, runtime, worker, disk,
                    missed, quitting>>
    BY <1>5 DEF vars, uiVars, gitVars
  <2>2. InProgressIsReal'
    BY <2>1, IdleProgress DEF Sent, Arriving
  <2>3. \A f : Begun(f) => Begun(f)'
    BY <2>1 DEF Begun, Queued
  <2>4. Worktrees'
    BY <2>1, <2>3, UiWorktrees
  <2> QED
    BY <2>2, <2>4
<1> QED
  BY <1>1, <1>2, <1>3, <1>4, <1>5 DEF Next, Exited

(* What a fork has made is not forgotten, a fork makes one worktree however  *)
(* often it is retried, and what the dialog shows as under way is: the       *)
(* command, the worker or the request that will end the phase is there.      *)
THEOREM ForksAreReal == Spec => []ForkIsReal
<1>1. Types /\ Control /\ InProgressIsReal /\ Worktrees => ForkIsReal
  <2> SUFFICES ASSUME Types, Control, InProgressIsReal, Worktrees PROVE NothingForgotten /\ ProgressIsReal
    BY DEF ForkIsReal
  <2>1. NothingForgotten
    <3>1. ASSUME NEW w \in Workers, NEW v \in Workers \ {w}, disk[w].is = "whole"
          PROVE  disk[v] # disk[w]
      BY <3>1 DEF Worktrees
    <3> QED
      BY <3>1 DEF Worktrees, NothingForgotten, KnownOf
  <2>2. ASSUME ~missed, ~quitting PROVE ProgressIsReal
    <3>1. \A i \in DOMAIN commands : commands[i] = Command(commands[i].kind, commands[i].fork)
      <4> SUFFICES ASSUME NEW i \in DOMAIN commands
                   PROVE  commands[i] = Command(commands[i].kind, commands[i].fork)
        OBVIOUS
      <4>1. commands[i] \in CommandSet
        BY SeqTypes
      <4> QED
        BY <4>1 DEF CommandSet, Command
    <3>2. ASSUME active.phase = "cancelling"
          PROVE  \/ Ordered("cancel", active.id) \/ BackendAt("cancel", active.id)
                 \/ OnItsWay("cancelled", active.id)
      <4>1. CASE Cancels(commands, "cancel", active.id)
        BY <3>1, <4>1 DEF Cancels, Ordered
      <4>2. CASE ~Cancels(commands, "cancel", active.id)
        BY <2>2, <3>2, <4>2 DEF InProgressIsReal, CancelComes, Cancels, OnItsWay
      <4> QED
        BY <4>1, <4>2
    <3>3. ASSUME active.phase \in {"creating", "starting"}
          PROVE  \/ /\ active.phase = "creating"
                    /\ \/ Ordered("fork", active.id) \/ BackendAt("join", active.id)
                       \/ \E w \in Workers : /\ worker[w].fork = active.id
                                             /\ AtWork(w) \/ worker[w].at \in {"ready", "failed"}
                       \/ OnItsWay("ready", active.id) \/ OnItsWay("creationFailed", active.id)
                 \/ /\ active.phase = "starting"
                    /\ \/ Ordered("start", active.id) \/ BackendAt("ask", active.id)
                       \/ OnItsWay("completed", active.id) \/ OnItsWay("conversationFailed", active.id)
      <4>1. Job
        BY <2>2, <3>3 DEF InProgressIsReal
      <4>2. \A m \in Fitting : /\ m.kind \in CreatingKinds => m.fork = active.id /\ active.phase # "starting"
                               /\ m.kind \in OpeningKinds => m.fork = active.id /\ active.phase = "starting"
        BY DEF Fitting, Fits, Creating, Opening
      <4>3. CASE Sent
        BY <3>1, <3>3, <4>2, <4>3 DEF Sent, Carries, Jobs, CreatingKinds, OpeningKinds, Ordered, Control,
           JobFits, AllIn
      <4>4. CASE InHand
        BY <3>3, <4>4 DEF InHand, Control, JobFits, Creating, Opening, BackendAt
      <4>5. CASE InGit
        BY <3>3, <4>5 DEF InGit, Reports, AtWork, Control, JobFits, Creating
      <4>6. CASE Leaving
        BY <3>3, <4>2, <4>6 DEF Leaving, Carries, Results, CreatingKinds, OpeningKinds, OnItsWay, Control,
           JobFits, AllIn
      <4>7. CASE Arriving
        BY <3>3, <4>2, <4>7 DEF Arriving, Carries, Results, CreatingKinds, OpeningKinds, OnItsWay, Control,
           JobFits, AllIn
      <4> QED
        BY <4>1, <4>3, <4>4, <4>5, <4>6, <4>7 DEF Job
    <3> QED
      BY <3>2, <3>3 DEF ProgressIsReal
  <2>3. missed \/ quitting => ProgressIsReal
    BY DEF ProgressIsReal
  <2> QED
    BY <2>1, <2>2, <2>3
<1> QED
  BY InitTypes, TypesStep, InitControl, ControlStep, InitReal, RealStep, <1>1, PTL DEF Spec

-----------------------------------------------------------------------------
(* Refinement: each step is one step of the handoffs, or none of them.       *)

Stage == [f \in Forks |-> StageOf(f)]

(* In which stage a fork is. *)
StagesAreClear ==
    \A f \in Forks :
        /\ StageOf(f) = "new" <=> f > requested
        /\ StageOf(f) = "running" <=> f = active.id
        /\ StageOf(f) = "queued" <=> Queued(f)
        /\ StageOf(f) = "ended" <=> Begun(f) /\ f # active.id
        /\ StageOf(f) \in {"new", "running", "queued", "ended"}

BusyIsRunning == \A f \in BusyForks : f = active.id /\ f \in Forks

LEMMA ClearStages == Types /\ Control => StagesAreClear
<1> SUFFICES ASSUME Types, Control, NEW f \in Forks
             PROVE  /\ StageOf(f) = "new" <=> f > requested
                    /\ StageOf(f) = "running" <=> f = active.id
                    /\ StageOf(f) = "queued" <=> Queued(f)
                    /\ StageOf(f) = "ended" <=> Begun(f) /\ f # active.id
                    /\ StageOf(f) \in {"new", "running", "queued", "ended"}
  BY DEF StagesAreClear
<1>1. /\ requested \in Nat /\ f \in Nat /\ f > 0 /\ active.id \in Nat /\ active.id <= requested
      /\ Queued(f) => active.id < f /\ f <= requested
  BY Queue DEF Control, Line, Queued, Forks
<1>2. CASE f > requested
  BY <1>1, <1>2 DEF StageOf, Begun
<1>3. CASE f <= requested
  BY <1>1, <1>3 DEF StageOf, Begun
<1> QED
  BY <1>1, <1>2, <1>3

LEMMA BusyRuns == Types /\ Control => BusyIsRunning
<1> SUFFICES ASSUME Types, Control, NEW f \in BusyForks PROVE f = active.id /\ f \in Forks
  BY DEF BusyIsRunning
<1>1. f = active.id /\ active.phase # "none"
  <2>1. CASE \E w \in Workers : AtWork(w) /\ f = worker[w].fork
    BY <2>1 DEF AtWork, Reports, Control, JobFits, Creating
  <2>2. CASE backend.at = "ask" /\ f = backend.fork
    BY <2>2 DEF Control, JobFits, Opening
  <2> QED
    BY <2>1, <2>2 DEF BusyForks
<1> QED
  BY <1>1, Queue DEF Control, Line

LEMMA AfterStep ==
    Types /\ Control /\ [Next]_vars => Types' /\ Control' /\ StagesAreClear' /\ BusyIsRunning'
<1>1. Types /\ Control /\ [Next]_vars => Types' /\ Control'
  BY TypesStep, ControlStep
<1>2. Types' /\ Control' => StagesAreClear'
  BY ClearStages, PTL
<1>3. Types' /\ Control' => BusyIsRunning'
  BY BusyRuns, PTL
<1> QED
  BY <1>1, <1>2, <1>3

LEMMA InitHandoff == Init => Handoff!Init
<1> SUFFICES ASSUME Init PROVE Handoff!Init
  OBVIOUS
<1>1. \A f \in Forks : StageOf(f) = "new"
  <2>1. \A f \in Forks : f > requested /\ active.id # f /\ ~Queued(f)
    BY Limits DEF Init, Forks, NoFork, Fork, Queued
  <2> QED
    BY <2>1 DEF StageOf
<1>2. BusyForks = {}
  BY DEF Init, BusyForks, AtWork, NoWorker, Idle
<1> QED
  BY <1>1, <1>2 DEF Handoff!Init

(* The threads work for the fork in hand, or for none. *)
LEMMA ThreadsHandoff ==
    ASSUME Types, Control, StagesAreClear, BusyIsRunning', UNCHANGED <<active, queue, requested>>
    PROVE  Handoff!Next
<1>1. \A f \in Forks : StageOf(f)' = StageOf(f)
  BY DEF StageOf, Queued
<1>2. [f \in Forks |-> StageOf(f)]' = [f \in Forks |-> StageOf(f)]
  BY <1>1
<1>3. CASE BusyForks' = {}
  BY <1>2, <1>3 DEF Handoff!Next, Handoff!Rest
<1>4. CASE BusyForks' # {}
  <2>1. BusyForks' = {active.id} /\ active.id \in Forks
    BY <1>4 DEF BusyIsRunning
  <2>2. [f \in Forks |-> StageOf(f)][active.id] = "running"
    BY <2>1 DEF StagesAreClear
  <2> QED
    BY <1>2, <2>1, <2>2 DEF Handoff!Next, Handoff!Work
<1> QED
  BY <1>3, <1>4

LEMMA UiStutters ==
    ASSUME UNCHANGED <<queue, requested, worker, backend>>, active'.id = active.id
    PROVE  UNCHANGED <<[f \in Forks |-> StageOf(f)], BusyForks>>
<1>1. \A f \in Forks : StageOf(f)' = StageOf(f)
  BY DEF StageOf, Queued
<1>2. BusyForks' = BusyForks
  BY DEF BusyForks, AtWork
<1> QED
  BY <1>1, <1>2

(* fork_task: at once when nothing is in hand, or behind the others. *)
LEMMA RequestHandoff ==
    ASSUME Types, Control, StagesAreClear, StagesAreClear', RequestFork
    PROVE  Handoff!Next
<1> DEFINE f == requested + 1
<1>1. /\ f \in Forks /\ requested' = f /\ f \in Nat /\ requested \in Nat
      /\ UNCHANGED <<worker, backend>>
  <2>1. requested \in Nat /\ MaxForks \in Nat
    BY Limits, CapacityAssumption DEF Types, UiTypes
  <2>2. requested < MaxForks /\ requested' = f
    BY DEF RequestFork
  <2>3. UNCHANGED <<worker, backend>>
    BY DEF RequestFork, notUser, notUi, gitVars
  <2> QED
    BY <2>1, <2>2, <2>3 DEF Forks
<1>2. BusyForks' = BusyForks
  BY <1>1 DEF BusyForks, AtWork
<1>3. Stage[f] = "new" /\ f # active.id /\ ~Queued(f)
  BY <1>1, Queue DEF Stage, StagesAreClear, Control, Line, Queued
<1>4. \A g \in Forks : g < f => Stage[g] \in {"queued", "running", "ended"}
  BY <1>1 DEF Stage, StagesAreClear, Forks
<1>5. \E to \in {"queued", "running"} :
         /\ Stage' = [Stage EXCEPT ![f] = to]
         /\ to = "running" => \A g \in Forks : Stage[g] \in {"new", "ended"}
  <2>1. CASE active = NoFork
    <3>1. active'.id = f /\ queue = <<>> /\ UNCHANGED queue
      BY <2>1 DEF RequestFork, StartNow, Dispatch, Fork, Control, Line
    <3>2. \A g : ~Queued(g) /\ ~Queued(g)'
      BY <3>1 DEF Queued
    <3>3. active.id = 0
      BY <2>1 DEF NoFork, Fork
    <3>4. \A g \in Forks : Stage[g] \in {"new", "ended"}
      BY <3>2, <3>3, Limits DEF Stage, StagesAreClear
    <3>5. \A g \in Forks : StageOf(g)' = IF g = f THEN "running" ELSE StageOf(g)
      BY <1>1, <3>1, <3>2, <3>3, Limits DEF StagesAreClear, Begun, Forks
    <3> QED
      BY <3>4, <3>5 DEF Stage
  <2>2. CASE active # NoFork
    <3>1. queue' = Append(queue, f) /\ UNCHANGED active
      BY <2>2 DEF RequestFork
    <3>2. \A g : Queued(g)' <=> (Queued(g) \/ g = f)
      <4>1. queue \in Seq(Forks)
        BY DEF Types, UiTypes
      <4> QED
        BY <1>1, <3>1, <4>1, PuttingLast DEF Queued
    <3>3. \A g \in Forks : StageOf(g)' = IF g = f THEN "queued" ELSE StageOf(g)
      BY <1>1, <1>3, <3>1, <3>2 DEF StagesAreClear, Begun, Forks
    <3> QED
      BY <3>3 DEF Stage
  <2> QED
    BY <2>1, <2>2
<1> QED
  BY <1>1, <1>2, <1>3, <1>4, <1>5 DEF Stage, Handoff!Next, Handoff!Request, Handoff!Move, Handoff!InOrder

LEMMA WithdrawHandoff ==
    ASSUME Types, Control, StagesAreClear, StagesAreClear', CancelQueued
    PROVE  Handoff!Next
<1>1. UNCHANGED <<active, requested, worker, backend>>
  BY DEF CancelQueued, notUser, notUi, gitVars
<1>2. PICK f : /\ \E i \in DOMAIN queue : f = queue[i]
               /\ \A g : Queued(g)' <=> (Queued(g) /\ g # f)
  BY WithdrawnFork DEF Control
<1>3. f \in Forks /\ Queued(f) /\ Begun(f)'
  <2>1. f \in Forks /\ Queued(f) /\ f <= requested /\ requested \in Nat
    BY <1>2, Queue DEF Queued, Control, Line
  <2> QED
    BY <1>1, <1>2, <2>1 DEF Begun, Forks
<1>4. BusyForks' = BusyForks
  BY <1>1 DEF BusyForks, AtWork
<1>5. Stage[f] = "queued" /\ f # active.id
  BY <1>3 DEF Stage, StagesAreClear
<1>6. \A g \in Forks : StageOf(g)' = IF g = f THEN "ended" ELSE StageOf(g)
  BY <1>1, <1>2, <1>3, <1>5 DEF StagesAreClear, Begun
<1>7. Stage' = [Stage EXCEPT ![f] = "ended"]
  BY <1>6 DEF Stage
<1> QED
  BY <1>3, <1>4, <1>5, <1>7 DEF Stage, Handoff!Next, Handoff!Withdraw, Handoff!Move

(* start_next_worktree_fork: the fork in hand is done with, at rest. *)
LEMMA EndHandoff ==
    ASSUME Types, Control, StagesAreClear, StagesAreClear', UNCHANGED <<requested, worker, backend>>,
           active.id # 0, ~InGit, ~InHand, StartNext
    PROVE  Handoff!Next
<1>1. BusyForks = {} /\ BusyForks' = {}
  BY DEF BusyForks, InGit, Reports, AtWork, InHand
<1>2. active.id \in Forks /\ Begun(active.id)
  BY Queue, Limits DEF Control, Line, Begun, Queued, Forks
<1>3. PICK next \in Forks \cup {0} :
         /\ active'.id = next
         /\ \A g : Queued(g)' <=> (Queued(g) /\ g # next)
         /\ IF next = 0 THEN \A g : ~Queued(g)
            ELSE Queued(next) /\ \A g : Queued(g) => g >= next
  <2>1. CASE queue = <<>>
    BY <2>1 DEF StartNext, NoFork, Fork, Queued
  <2>2. CASE queue # <<>>
    <3>1. queue \in Seq(Forks) /\ queue' = Tail(queue) /\ active'.id = Head(queue)
      BY <2>2 DEF StartNext, StartNow, Dispatch, Fork, Types, UiTypes
    <3>2. /\ Head(queue) \in Forks /\ Queued(Head(queue)) /\ Forks \subseteq Nat
          /\ \A i \in DOMAIN Tail(queue) : Head(queue) < Tail(queue)[i]
      BY <2>2, QueueTail, Limits DEF Control
    <3>3. \A g : Queued(g)' => Queued(g) /\ g \in Nat /\ g # Head(queue) /\ g >= Head(queue)
      <4> SUFFICES ASSUME NEW g, NEW i \in DOMAIN Tail(queue), Tail(queue)[i] = g
                   PROVE  Queued(g) /\ g \in Nat /\ g # Head(queue) /\ g >= Head(queue)
        BY <3>1 DEF Queued
      <4>1. Queued(g) /\ g \in Nat
        BY <2>2, <3>2, QueueTail, Queue DEF Queued, Control
      <4>2. Head(queue) < Tail(queue)[i] /\ Head(queue) \in Nat
        BY <3>2
      <4> QED
        BY <4>1, <4>2
    <3>4. \A g : Queued(g) => g = Head(queue) \/ Queued(g)'
      <4> SUFFICES ASSUME NEW g, NEW i \in DOMAIN queue, queue[i] = g
                   PROVE  g = Head(queue) \/ Queued(g)'
        BY DEF Queued
      <4>1. /\ Len(queue) \in Nat /\ DOMAIN Tail(queue) = 1..(Len(queue) - 1) /\ DOMAIN queue = 1..Len(queue)
            /\ Head(queue) = queue[1]
            /\ \A j \in 1..(Len(queue) - 1) : Tail(queue)[j] = queue[j + 1]
        BY <2>2, <3>1, TakingFirst
      <4>2. CASE i = 1
        BY <4>1, <4>2
      <4>3. CASE i # 1
        <5>1. i - 1 \in 1..(Len(queue) - 1) /\ (i - 1) + 1 = i
          BY <4>1, <4>3
        <5>2. Tail(queue)[i - 1] = queue[i]
          BY <4>1, <5>1
        <5> QED
          BY <3>1, <4>1, <5>1, <5>2 DEF Queued
      <4> QED
        BY <4>2, <4>3
    <3>5. \A g : Queued(g)' <=> (Queued(g) /\ g # Head(queue))
      BY <3>3, <3>4
    <3>6. Head(queue) \in Nat /\ Head(queue) # 0 /\ \A g : Queued(g) => g >= Head(queue)
      <4>1. Head(queue) \in Nat /\ Head(queue) # 0
        BY <3>2, Limits
      <4>2. ASSUME NEW g, Queued(g) PROVE g >= Head(queue)
        <5>1. CASE g = Head(queue)
          BY <4>1, <5>1
        <5>2. CASE g # Head(queue)
          BY <3>3, <3>4, <4>2, <5>2
        <5> QED
          BY <5>1, <5>2
      <4> QED
        BY <4>1, <4>2
    <3> QED
      BY <3>1, <3>2, <3>5, <3>6
  <2> QED
    BY <2>1, <2>2
<1>4. next # active.id
  BY <1>2, <1>3 DEF Begun
<1>5. \A g \in Forks : StageOf(g)' = CASE g = active.id -> "ended" [] g = next -> "running"
                                       [] OTHER -> StageOf(g)
  <2> SUFFICES ASSUME NEW g \in Forks
               PROVE  StageOf(g)' = IF g = active.id THEN "ended" ELSE
                                    IF g = next THEN "running" ELSE StageOf(g)
    BY <1>4
  <2>1. Begun(g)' <=> Begun(g) \/ g = next
    BY <1>3, ClearStages DEF Begun, StagesAreClear, Forks, Control, Line, Queued
  <2>2. CASE g = active.id
    BY <1>2, <1>3, <1>4, <2>1, <2>2 DEF StagesAreClear
  <2>3. CASE g = next
    BY <1>3, <1>4, <2>3 DEF StagesAreClear
  <2>4. CASE g # active.id /\ g # next
    BY <1>3, <2>1, <2>4 DEF StagesAreClear
  <2> QED
    BY <1>4, <2>2, <2>3, <2>4
<1>6. Stage' = [g \in Forks |-> CASE g = active.id -> "ended" [] g = next -> "running"
                                  [] OTHER -> Stage[g]]
  BY <1>5 DEF Stage
<1>7. Stage[active.id] = "running"
  BY <1>2 DEF Stage, StagesAreClear
<1>8. IF next = 0 THEN \A g \in Forks : Stage[g] # "queued"
      ELSE Stage[next] = "queued" /\ \A g \in Forks : g < next => Stage[g] \in {"running", "ended"}
  <2>1. CASE next = 0
    BY <1>3, <2>1 DEF Stage, StagesAreClear
  <2>2. CASE next # 0
    <3>1. next \in Forks /\ Queued(next) /\ Stage[next] = "queued" /\ next <= requested
      BY <1>3, <2>2, Queue DEF Stage, StagesAreClear, Queued, Control, Line
    <3>2. ASSUME NEW g \in Forks, g < next PROVE ~Queued(g) /\ ~(g > requested)
      BY <1>3, <2>2, <3>1, <3>2, Limits DEF Types, UiTypes
    <3> QED
      BY <2>2, <3>1, <3>2 DEF Stage, StagesAreClear
  <2> QED
    BY <2>1, <2>2
<1> QED
  BY <1>1, <1>2, <1>3, <1>6, <1>7, <1>8 DEF Stage, Handoff!Next, Handoff!End, Handoff!InOrder

LEMMA ReducerHandoff ==
    ASSUME Types, Control, StagesAreClear, StagesAreClear', Reduce
    PROVE  Handoff!Next \/ UNCHANGED <<[f \in Forks |-> StageOf(f)], BusyForks>>
<1>1. UNCHANGED <<requested, worker, backend>>
  BY DEF Reduce, ReduceReady, ReduceCreationFailed, ReduceConversationFailed, ReduceCompleted,
     ReduceCancelled, ReduceNote, NextIs, notUi, gitVars
<1>2. CASE /\ ReduceCompleted \/ ReduceCancelled
           /\ ~UNCHANGED <<active, queue, commands>>
  <2>1. StartNext
    BY <1>2, EndingKeeps
  <2>2. ~InGit /\ ~InHand /\ active.id # 0
    <3>1. CASE ReduceCompleted
      <4>1. NextIs("completed") /\ About({"starting"})
        BY <1>2, <3>1 DEF ReduceCompleted, Ignored
      <4> QED
        BY <4>1, EndHears DEF About, Control, Line
    <3>2. CASE ReduceCancelled
      <4>1. NextIs("cancelled") /\ About({"cancelling"})
        BY <1>2, <3>2 DEF ReduceCancelled, Ignored
      <4> QED
        BY <4>1, EndHears DEF About, Control, Line
    <3> QED
      BY <1>2, <3>1, <3>2
  <2> QED
    BY <1>1, <2>1, <2>2, EndHandoff
<1>3. CASE ~( /\ ReduceCompleted \/ ReduceCancelled
              /\ ~UNCHANGED <<active, queue, commands>>)
  <2>1. UNCHANGED queue /\ active'.id = active.id
    <3>1. CASE ReduceReady
      BY <3>1 DEF ReduceReady, OpenChat, Dispatch, Ignored, Types, UiTypes
    <3>2. CASE ReduceCreationFailed \/ ReduceConversationFailed
      BY <3>2 DEF ReduceCreationFailed, ReduceConversationFailed, Phase, Ignored, Types, UiTypes
    <3>3. CASE ReduceNote
      BY <3>3 DEF ReduceNote, Ignored
    <3> QED
      BY <1>3, <3>1, <3>2, <3>3 DEF Reduce
  <2> QED
    BY <1>1, <2>1, UiStutters
<1> QED
  BY <1>2, <1>3

LEMMA UserHandoff ==
    ASSUME Types, Control, StagesAreClear, StagesAreClear', User
    PROVE  Handoff!Next \/ UNCHANGED <<[f \in Forks |-> StageOf(f)], BusyForks>>
<1>1. UNCHANGED <<worker, backend>>
  BY DEF User, RequestFork, CancelQueued, CancelActive, Retry, Dismiss, OtherEffect, Quit,
     notUser, notUi, gitVars
<1>2. CASE RequestFork \/ CancelQueued
  BY <1>2, RequestHandoff, WithdrawHandoff
<1>3. CASE Dismiss
  <2>1. active.phase \in Failed /\ StartNext /\ UNCHANGED requested
    BY <1>3 DEF Dismiss
  <2>2. ~InGit /\ ~InHand /\ active.id # 0
    BY <2>1, NoJob DEF Failed, Control, Line
  <2> QED
    BY <1>1, <2>1, <2>2, EndHandoff
<1>4. CASE CancelActive \/ Retry \/ OtherEffect \/ Quit
  <2>1. UNCHANGED <<queue, requested>>
    BY <1>4 DEF CancelActive, Retry, OtherEffect, Quit, uiVars
  <2>2. active'.id = active.id
    <3>1. CASE CancelActive
      BY <3>1 DEF CancelActive, Dispatch, Phase, Types, UiTypes
    <3>2. CASE Retry
      BY <3>2 DEF Retry, OpenChat, StartNow, Dispatch, Fork, Types, UiTypes
    <3> QED
      BY <1>4, <3>1, <3>2 DEF OtherEffect, Quit, uiVars
  <2> QED
    BY <1>1, <2>1, <2>2, UiStutters
<1> QED
  BY <1>2, <1>3, <1>4 DEF User

LEMMA NextHandoff ==
    Types /\ Control /\ [Next]_vars => [Handoff!Next]_<<[f \in Forks |-> StageOf(f)], BusyForks>>
<1> SUFFICES ASSUME Types, Control, [Next]_vars
             PROVE  Handoff!Next \/ UNCHANGED <<[f \in Forks |-> StageOf(f)], BusyForks>>
  OBVIOUS
<1>1. StagesAreClear /\ StagesAreClear' /\ BusyIsRunning'
  BY ClearStages, AfterStep
<1>2. CASE (\E w \in Workers : WorkerStep(w)) \/ Backend
  BY <1>1, <1>2, WorkerFrame, BackendFrame, ThreadsHandoff
<1>3. CASE Reduce
  BY <1>1, <1>3, ReducerHandoff
<1>4. CASE User
  BY <1>1, <1>4, UserHandoff
<1>5. CASE UNCHANGED vars
  <2>1. UNCHANGED <<queue, requested, worker, backend, active>>
    BY <1>5 DEF vars, uiVars, gitVars
  <2> QED
    BY <2>1, UiStutters
<1> QED
  BY <1>2, <1>3, <1>4, <1>5 DEF Next, Exited

(* The forks are the handoffs of docs/parity-matrix.md:83: begun in the      *)
(* order of the requests, one at a time, and the next only when neither Git  *)
(* nor the app-server is at work for the one before.                         *)
THEOREM Refinement == Spec => ImplementsHandoff
<1>1. Init => Types /\ Control
  BY InitTypes, InitControl
<1>2. Types /\ Control /\ [Next]_vars => (Types /\ Control)'
  BY TypesStep, ControlStep
<1> QED
  BY InitHandoff, NextHandoff, <1>1, <1>2, PTL DEF Spec, ImplementsHandoff, Handoff!Spec
=============================================================================
