----------------------------- MODULE WorktreeFork -----------------------------
(***************************************************************************)
(* "Continue in new worktree": the reducer's queue of pending forks        *)
(* (codex-core), the backend that runs their effects, the Git worker it    *)
(* starts for the one in hand (backend.rs, codex-platform/src/git.rs), and *)
(* the thread/fork request that opens the chat.                            *)
(*                                                                         *)
(*   user -> reducer --commands (try_send)--> backend --spawn, join--> worker*)
(*           reducer <--events (100 ms)------ backend and worker           *)
(*                                                                         *)
(* Data abstraction: paths, titles and error texts are left out; a fork is *)
(* its request id, a worktree the worker that makes it.  The steps of      *)
(* create_managed_worktree are those before something is on disk           *)
(* ("probing") and those after ("building"); each runs a bounded Git       *)
(* command that ends by itself, by its time limit or by cancellation.      *)
(***************************************************************************)
EXTENDS Naturals, Sequences, FiniteSets

CONSTANTS
    MaxPendingForks,  \* MAX_PENDING_WORKTREE_FORKS
    CommandCapacity,  \* BACKEND_COMMAND_CAPACITY
    EventCapacity,    \* BACKEND_EVENT_CAPACITY
    MaxForks,         \* bound: forks the user asks for
    MaxExtras         \* bound: retries of a failed fork and other effects, together

ASSUME CapacityAssumption ==
    {MaxPendingForks, CommandCapacity, EventCapacity, MaxForks} \subseteq Nat \ {0}

ASSUME BoundsAssumption == MaxExtras \in Nat

Forks   == 1..MaxForks
Workers == 1..(MaxForks + MaxExtras)

VARIABLES
    active,    \* pending_worktree_fork: request id, phase, and its worktree
    queue,     \* queued_worktree_forks
    requested, \* next_worktree_fork_request_id - 1
    commands,  \* the command channel
    events,    \* the event channel
    backend,   \* the backend's program counter, fork in hand and actions to emit
    runtime,   \* pending_worktree_runtime: the worker it names, or 0
    worker,    \* worker[w]: the fork it works for, its state, its cancellation flag
    disk,      \* disk[w]: the worktree that w makes, as far as it is on disk
    kept,      \* worktrees left to a chat, or to the user who was told of them
    missed,    \* a full event queue has swallowed an action
    quitting,  \* shutdown_requested
    extras     \* retries and other effects so far

uiVars   == <<active, queue, requested, kept>>
gitVars  == <<worker, disk>>
vars == <<uiVars, commands, events, backend, runtime, gitVars, missed,
          quitting, extras>>

Fork(f, phase, root) == [id |-> f, phase |-> phase, root |-> root]
NoFork == Fork(0, "none", 0)
Phase(phase) == [active EXCEPT !.phase = phase]
Failed == {"failedCreating", "failedStarting"}

Message(kind, f, w) == [kind |-> kind, fork |-> f, worker |-> w]
Note == Message("note", 0, 0)
Command(kind, f) == [kind |-> kind, fork |-> f]

CommandRoom == Len(commands) < CommandCapacity
EventRoom   == Len(events) < EventCapacity

Idle == [at |-> "idle", fork |-> 0, out |-> <<>>]
Busy(at, f) == [at |-> at, fork |-> f, out |-> <<>>]
Emitting(out) == [at |-> "emit", fork |-> 0, out |-> out]

NoWorker == [fork |-> 0, at |-> "none", cancelled |-> FALSE]
NoDirectory == [fork |-> 0, is |-> "nothing"]
Gone(w)   == w \in Workers => worker[w].at \in {"none", "gone"}
AtWork(w) == worker[w].at \in {"probing", "building", "cleaning"}

Extra == extras < MaxExtras /\ extras' = extras + 1

Init ==
    /\ active = NoFork /\ queue = <<>> /\ requested = 0 /\ kept = {}
    /\ commands = <<>> /\ events = <<>> /\ backend = Idle /\ runtime = 0
    /\ worker = [w \in Workers |-> NoWorker] /\ disk = [w \in Workers |-> NoDirectory]
    /\ missed = FALSE /\ quitting = FALSE
    /\ extras = 0

-----------------------------------------------------------------------------
(* The worker: git_create_managed_worktree, then one action, or none when    *)
(* it was cancelled.  Cancellation is looked at before and during every      *)
(* command, and once more when the worktree is complete.                     *)

notWorker == <<uiVars, commands, backend, runtime, quitting, extras>>

Becomes(w, at) == worker' = [worker EXCEPT ![w].at = at]
OnDisk(w, what) == disk' = [disk EXCEPT ![w] = [fork |-> worker[w].fork, is |-> what]]

Allocate(w) ==
    /\ worker[w].at = "probing" /\ ~worker[w].cancelled
    /\ Becomes(w, "building") /\ OnDisk(w, "partial")
    /\ UNCHANGED <<notWorker, events, missed>>

(* A command that failed by itself may be reported as such although the      *)
(* cancellation has come.                                                    *)
Report(w) ==
    \E at \in IF worker[w].cancelled THEN {"ending", "failed"} ELSE {"failed"} : Becomes(w, at)

ProbeFails(w) ==
    /\ worker[w].at = "probing" /\ Report(w)
    /\ UNCHANGED <<notWorker, events, missed, disk>>

Complete(w) ==
    /\ worker[w].at = "building" /\ ~worker[w].cancelled
    /\ Becomes(w, "ready") /\ OnDisk(w, "whole")
    /\ UNCHANGED <<notWorker, events, missed>>

BuildFails(w) ==
    /\ worker[w].at = "building"
    /\ Becomes(w, "cleaning")
    /\ UNCHANGED <<notWorker, events, missed, disk>>

(* Cleaning up is tried once; what it cannot remove is not accounted for.    *)
CleanUp(w) ==
    /\ worker[w].at = "cleaning" /\ Report(w)
    /\ disk' = [disk EXCEPT ![w] = NoDirectory]
    /\ UNCHANGED <<notWorker, events, missed>>

Outcome(w) == IF worker[w].at = "ready" THEN Message("ready", worker[w].fork, w)
              ELSE Message("creationFailed", worker[w].fork, 0)

EmitOutcome(w) ==
    /\ worker[w].at \in {"ready", "failed"}
    /\ IF EventRoom THEN events' = Append(events, Outcome(w)) /\ UNCHANGED missed
       ELSE missed' = TRUE /\ UNCHANGED events
    /\ Becomes(w, "ending")
    /\ UNCHANGED <<notWorker, disk>>

ThreadEnds(w) ==
    /\ worker[w].at = "ending"
    /\ worker' = [worker EXCEPT ![w] = [NoWorker EXCEPT !.at = "gone"]]
    /\ UNCHANGED <<notWorker, events, missed, disk>>

WorkerStep(w) ==
    \/ Allocate(w) \/ ProbeFails(w) \/ Complete(w) \/ BuildFails(w)
    \/ CleanUp(w) \/ EmitOutcome(w) \/ ThreadEnds(w)

-----------------------------------------------------------------------------
(* The backend, one command at a time.                                       *)

notBackend == <<uiVars, quitting, extras>>
Goto(where) == backend' = where

(* The head of the loop: a worker that has ended is joined, then a command.  *)
Reaped == IF Gone(runtime) THEN 0 ELSE runtime

Take(kind) ==
    /\ backend.at = "idle" /\ ~quitting
    /\ commands # <<>> /\ Head(commands).kind = kind
    /\ commands' = Tail(commands)
Taken == Head(commands).fork

RunFork ==
    /\ Take("fork")
    /\ runtime' = Reaped /\ Goto(Busy("join", Taken))
    /\ UNCHANGED <<notBackend, events, gitVars, missed>>

(* The worker before it is waited for, and never cancelled.  Then a worker   *)
(* is started, or there is no place or no thread for it.                     *)
Unused == {w \in Workers : worker[w].at = "none"}

StartWorker ==
    \E w \in Unused :
        /\ \A other \in Unused : w <= other
        /\ worker' = [worker EXCEPT ![w] = [NoWorker EXCEPT !.fork = backend.fork, !.at = "probing"]]
        /\ runtime' = w /\ Goto(Idle)

JoinThenStart ==
    /\ backend.at = "join" /\ Gone(runtime)
    /\ \/ StartWorker
       \/ /\ runtime' = 0 /\ UNCHANGED worker
          /\ Goto(Emitting(<<Message("creationFailed", backend.fork, 0)>>))
    /\ UNCHANGED <<notBackend, commands, events, disk, missed>>

(* Mutant: a cancellation that comes after its worker is not answered.       *)
RunCancelKnown ==
    /\ Take("cancel") /\ runtime' = Reaped
    /\ IF Reaped # 0 /\ worker[Reaped].fork = Taken
       THEN /\ worker' = [worker EXCEPT ![Reaped].cancelled = TRUE]
            /\ Goto(Busy("cancel", Taken))
       ELSE Goto(Idle) /\ UNCHANGED worker
    /\ UNCHANGED <<notBackend, events, disk, missed>>

RunCancel ==
    /\ Take("cancel") /\ runtime' = Reaped
    /\ IF Reaped # 0 /\ worker[Reaped].fork = Taken
       THEN /\ worker' = [worker EXCEPT ![Reaped].cancelled = TRUE]
            /\ Goto(Busy("cancel", Taken))
       ELSE Goto(Emitting(<<Message("cancelled", Taken, 0)>>)) /\ UNCHANGED worker
    /\ UNCHANGED <<notBackend, events, disk, missed>>

(* Mutant: cancelled as soon as the flag is up.                              *)
CancelJoinedAtOnce ==
    /\ backend.at = "cancel"
    /\ runtime' = 0 /\ Goto(Emitting(<<Message("cancelled", backend.fork, 0)>>))
    /\ UNCHANGED <<notBackend, commands, events, gitVars, missed>>

CancelJoined ==
    /\ backend.at = "cancel" /\ Gone(runtime)
    /\ runtime' = 0 /\ Goto(Emitting(<<Message("cancelled", backend.fork, 0)>>))
    /\ UNCHANGED <<notBackend, commands, events, gitVars, missed>>

RunStart ==
    /\ Take("start")
    /\ runtime' = Reaped /\ Goto(Busy("ask", Taken))
    /\ UNCHANGED <<notBackend, events, gitVars, missed>>

(* thread/fork, on the app-server connection: answered, or not.              *)
AskForChat ==
    /\ backend.at = "ask"
    /\ \E kind \in {"completed", "conversationFailed"} :
         LET outcome == Message(kind, backend.fork, 0)
         IN  Goto(Emitting(IF kind = "completed" THEN <<Note, outcome>> ELSE <<outcome>>))
    /\ UNCHANGED <<notBackend, commands, events, runtime, gitVars, missed>>

RunOther ==
    /\ Take("other")
    /\ runtime' = Reaped /\ Goto(Emitting(<<Note>>))
    /\ UNCHANGED <<notBackend, events, gitVars, missed>>

Emit ==
    /\ backend.at = "emit"
    /\ IF EventRoom THEN events' = Append(events, Head(backend.out)) /\ UNCHANGED missed
       ELSE missed' = TRUE /\ UNCHANGED events
    /\ Goto(IF Len(backend.out) = 1 THEN Idle ELSE Emitting(Tail(backend.out)))
    /\ UNCHANGED <<notBackend, commands, runtime, gitVars>>

(* Shutting down: the worker is cancelled and waited for.                    *)
StopBackend ==
    /\ backend.at = "idle" /\ quitting
    /\ worker' = IF runtime = 0 THEN worker ELSE [worker EXCEPT ![runtime].cancelled = TRUE]
    /\ Goto(Busy("stopping", 0))
    /\ UNCHANGED <<notBackend, commands, events, runtime, disk, missed>>

BackendStopped ==
    /\ backend.at = "stopping" /\ Gone(runtime)
    /\ runtime' = 0 /\ Goto(Busy("stopped", 0))
    /\ UNCHANGED <<notBackend, commands, events, gitVars, missed>>

Backend ==
    \/ RunFork \/ JoinThenStart \/ RunCancel \/ CancelJoined \/ RunStart \/ AskForChat
    \/ RunOther \/ Emit \/ StopBackend \/ BackendStopped

-----------------------------------------------------------------------------
(* The reducer, with the UI thread's dispatch: an effect that does not fit   *)
(* into the command queue is turned into the failure of what it was for.     *)

notUi == <<backend, runtime, gitVars, missed, quitting>>

Dispatch(kind, sent, refused) ==
    IF CommandRoom
    THEN commands' = Append(commands, Command(kind, sent.id)) /\ active' = sent
    ELSE UNCHANGED commands /\ active' = refused

StartNow(f) == Dispatch("fork", Fork(f, "creating", 0), Fork(f, "failedCreating", 0))
OpenChat(fork) == Dispatch("start", [fork EXCEPT !.phase = "starting"],
                                    [fork EXCEPT !.phase = "failedStarting"])

(* Mutant: the queue waits for the next request of the user.                 *)
StartNextWaits == active' = NoFork /\ UNCHANGED <<queue, commands>>

(* start_next_worktree_fork, when the one before is done with.               *)
StartNext ==
    IF queue = <<>>
    THEN active' = NoFork /\ UNCHANGED <<queue, commands>>
    ELSE StartNow(Head(queue)) /\ queue' = Tail(queue)

NextIs(kind) ==
    /\ ~quitting /\ events # <<>> /\ Head(events).kind = kind
    /\ events' = Tail(events)
    /\ UNCHANGED <<notUi, requested, extras>>

About(phases) == Head(events).fork = active.id /\ active.phase \in phases
Ignored == UNCHANGED <<active, queue, commands, kept>>
Keep == kept' = kept \cup ({active.root} \ {0})

(* Mutant: a worktree that is ready while its cancellation is queued is      *)
(* dropped.                                                                  *)
ReadyPhases == {"creating", "cancelling"}

ReduceReady ==
    /\ NextIs("ready")
    /\ IF About(ReadyPhases)
       THEN /\ OpenChat([active EXCEPT !.root = Head(events).worker])
            /\ UNCHANGED <<queue, kept>>
       ELSE Ignored

ReduceCreationFailed ==
    /\ NextIs("creationFailed")
    /\ IF About({"creating"})
       THEN active' = Phase("failedCreating") /\ UNCHANGED <<queue, commands, kept>>
       ELSE Ignored

ReduceConversationFailed ==
    /\ NextIs("conversationFailed")
    /\ IF About({"starting"})
       THEN active' = Phase("failedStarting") /\ UNCHANGED <<queue, commands, kept>>
       ELSE Ignored

ReduceCompleted ==
    /\ NextIs("completed")
    /\ IF About({"starting"}) THEN StartNext /\ Keep ELSE Ignored

ReduceCancelled ==
    /\ NextIs("cancelled")
    /\ IF About({"cancelling"}) THEN StartNext /\ UNCHANGED kept ELSE Ignored

ReduceNote == NextIs("note") /\ Ignored

Reduce ==
    \/ ReduceReady \/ ReduceCreationFailed \/ ReduceConversationFailed
    \/ ReduceCompleted \/ ReduceCancelled \/ ReduceNote

-----------------------------------------------------------------------------
(* The user.                                                                 *)

notUser == <<events, notUi>>
UserMay == ~quitting

QueueRoom == Len(queue) + 1 < MaxPendingForks

(* fork_task: at once, behind the others, or not at all.                     *)
RequestFork ==
    /\ UserMay /\ requested < MaxForks
    /\ requested' = requested + 1
    /\ IF active = NoFork THEN StartNow(requested + 1) /\ UNCHANGED queue
       ELSE /\ QueueRoom
            /\ queue' = Append(queue, requested + 1) /\ UNCHANGED <<active, commands>>
    /\ UNCHANGED <<notUser, kept, extras>>

CancelQueued ==
    /\ UserMay
    /\ \E i \in DOMAIN queue :
         queue' = SubSeq(queue, 1, i - 1) \o SubSeq(queue, i + 1, Len(queue))
    /\ UNCHANGED <<notUser, active, requested, kept, commands, extras>>

(* Mutant: the refusal of the command is not noticed.                        *)
CancelActiveUnheard ==
    /\ UserMay /\ active.phase = "creating"
    /\ Dispatch("cancel", Phase("cancelling"), Phase("cancelling"))
    /\ UNCHANGED <<notUser, queue, requested, kept, extras>>

CancelActive ==
    /\ UserMay /\ active.phase = "creating"
    /\ Dispatch("cancel", Phase("cancelling"), active)
    /\ UNCHANGED <<notUser, queue, requested, kept, extras>>

Retry ==
    /\ UserMay /\ active.phase \in Failed
    /\ Extra
    /\ IF active.root # 0 THEN OpenChat(active) ELSE StartNow(active.id)
    /\ UNCHANGED <<notUser, queue, requested, kept>>

Dismiss ==
    /\ UserMay /\ active.phase \in Failed
    /\ StartNext /\ Keep
    /\ UNCHANGED <<notUser, requested, extras>>

OtherEffect ==
    /\ UserMay /\ CommandRoom
    /\ Extra
    /\ commands' = Append(commands, Command("other", 0))
    /\ UNCHANGED <<notUser, uiVars>>

Quit ==
    /\ UserMay /\ quitting' = TRUE
    /\ UNCHANGED <<uiVars, commands, events, backend, runtime, gitVars, missed, extras>>

User == RequestFork \/ CancelQueued \/ CancelActive \/ Retry \/ Dismiss \/ OtherEffect \/ Quit

Exited == backend.at = "stopped" /\ (\A w \in Workers : Gone(w)) /\ UNCHANGED vars

Next == (\E w \in Workers : WorkerStep(w)) \/ Backend \/ Reduce \/ User \/ Exited

Spec == Init /\ [][Next]_vars

(* Threads keep running and Git commands end (run_bounded_cancelable has a   *)
(* time limit); nothing is assumed of the user.                              *)
FairSpec ==
    /\ Spec
    /\ \A w \in Workers : WF_vars(WorkerStep(w))
    /\ WF_vars(Backend) /\ WF_vars(Reduce)

-----------------------------------------------------------------------------
(* Properties.                                                               *)

Phases == {"none", "creating", "cancelling", "starting"} \cup Failed
MessageKinds == {"ready", "creationFailed", "conversationFailed", "completed", "cancelled", "note"}

(* The values of the variables; no more than MAX_PENDING_WORKTREE_FORKS      *)
(* forks are pending, and the channels keep to their capacities.             *)
TypeOK ==
    /\ active \in [id : 0..MaxForks, phase : Phases, root : {0} \cup Workers]
    /\ active.id = 0 <=> active.phase = "none"
    /\ \A i \in DOMAIN queue : queue[i] \in Forks
    /\ active = NoFork => queue = <<>>
    /\ Len(queue) + 1 <= MaxPendingForks
    /\ requested \in 0..MaxForks
    /\ Len(commands) <= CommandCapacity
    /\ \A i \in DOMAIN commands : commands[i].kind \in {"fork", "cancel", "start", "other"}
    /\ Len(events) <= EventCapacity
    /\ \A i \in DOMAIN events : events[i].kind \in MessageKinds
    /\ backend.at \in {"idle", "join", "cancel", "ask", "emit", "stopping", "stopped"}
    /\ runtime \in {0} \cup Workers
    /\ \A w \in Workers :
         /\ worker[w].fork \in {0} \cup Forks /\ worker[w].cancelled \in BOOLEAN
         /\ worker[w].at \in {"none", "probing", "building", "cleaning", "ready", "failed",
                              "ending", "gone"}
    /\ disk \in [Workers -> [fork : {0} \cup Forks, is : {"nothing", "partial", "whole"}]]
    /\ missed \in BOOLEAN /\ quitting \in BOOLEAN

OnItsWay(kind, f) ==
    \/ \E i \in DOMAIN events : events[i].kind = kind /\ events[i].fork = f
    \/ \E i \in DOMAIN backend.out : backend.out[i].kind = kind /\ backend.out[i].fork = f
Ordered(kind, f) == \E i \in DOMAIN commands : commands[i] = Command(kind, f)
BackendAt(at, f) == backend.at = at /\ backend.fork = f

(* A worktree never outlives the knowledge of it: a complete one is          *)
(* announced by its worker, is in the event queue, is the one its pending    *)
(* fork will use, or was left to a chat or to the user with a message; half  *)
(* of one exists only while its worker is at work.  So a worktree that gets  *)
(* ready while its cancellation is queued is not forgotten, and a retry of   *)
(* the chat does not make a second one (docs/parity-matrix.md:83).           *)
Announced(w) ==
    \/ worker[w].at = "ready"
    \/ \E i \in DOMAIN events : events[i].kind = "ready" /\ events[i].worker = w

NothingForgotten ==
    \A w \in Workers :
        /\ disk[w].is = "partial" => worker[w].at \in {"building", "cleaning"}
        /\ disk[w].is = "whole" =>
             /\ missed \/ quitting \/ Announced(w) \/ active.root = w \/ w \in kept
             /\ \A v \in Workers \ {w} : disk[v] # disk[w]

(* What the dialog shows as under way is under way: Git is at work or about  *)
(* to be, or the thread/fork, or the action that says how it went will come  *)
(* and will be accepted.                                                     *)
ProgressIsReal ==
    ~missed /\ ~quitting =>
    LET f == active.id
        inGit == \E w \in Workers : worker[w].fork = f /\ (AtWork(w) \/ worker[w].at \in {"ready", "failed"})
    IN  /\ active.phase = "creating" =>
             \/ Ordered("fork", f) \/ BackendAt("join", f) \/ inGit
             \/ OnItsWay("ready", f) \/ OnItsWay("creationFailed", f)
        /\ active.phase = "cancelling" =>
             \/ Ordered("cancel", f) \/ BackendAt("cancel", f) \/ OnItsWay("cancelled", f)
        /\ active.phase = "starting" =>
             \/ Ordered("start", f) \/ BackendAt("ask", f)
             \/ OnItsWay("completed", f) \/ OnItsWay("conversationFailed", f)

(* What a fork has made is not forgotten, and what it shows is going on.     *)
ForkIsReal == NothingForgotten /\ ProgressIsReal

(* A fork in progress is done, cancelled or failed in the end.               *)
InProgress(f) == active.id = f /\ active.phase \notin Failed
ForkSettles == \A f \in Forks : InProgress(f) ~> (~InProgress(f) \/ missed \/ quitting)

(* Quitting ends the backend thread, and when it has ended no Git command is *)
(* left running behind the closed window.                                    *)
QuitStopsGit ==
    /\ quitting ~> backend.at = "stopped"
    /\ [](backend.at = "stopped" => \A w \in Workers : ~AtWork(w))

(* Neither a fork nor the application that quits is left waiting for Git.    *)
ForksEnd == ForkSettles /\ QuitStopsGit

-----------------------------------------------------------------------------
(* The reducer's queue and the threads behind it are the handoffs that the   *)
(* documentation promises.                                                   *)

Queued(f) == \E i \in DOMAIN queue : queue[i] = f
StageOf(f) == CASE f > requested  -> "new"
                [] active.id = f -> "running"
                [] Queued(f)     -> "queued"
                [] OTHER         -> "ended"
BusyForks == {worker[w].fork : w \in {v \in Workers : AtWork(v)}}
                 \cup (IF backend.at = "ask" THEN {backend.fork} ELSE {})

Handoff == INSTANCE WorktreeHandoff
    WITH stage <- [f \in Forks |-> StageOf(f)], working <- BusyForks

ImplementsHandoff == Handoff!Spec
=============================================================================
