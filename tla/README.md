# A TLA+ development of codexRS

codexRS is a native desktop client of the official `codex app-server`, written
in Rust. It starts the app-server as a child process, talks JSON lines with it
over stdio, and shows chats, approvals, Git, terminals and a browser in one
window. This directory models the concurrent core of the program in TLA+,
model-checks it with TLC and proves part of it with TLAPS.

Paths below are relative to the repository. `backend.rs` and `ui.rs` are in
`crates/codex-app/src`, `lib.rs` is `crates/codex-core/src/lib.rs`, the other
files are in `crates/codex-platform/src`.

## 1. The system

```
 UI thread (ui.rs)                 backend thread (backend.rs)          app_server.rs
 reduce (lib.rs)  --Effect(64)-->  run_backend ---- request ---------> router thread --stdin--> codex
 queues of cards  <-Action(1024)-  pending_approvals                   pending table            app-server
                  <-- lost flag    reconnect timer <-- events -------- reader thread <-stdout-
```

| component | state | operations | how it interacts | what is hard | what makes it correct |
|---|---|---|---|---|---|
| App-server connection (`app_server.rs`) | command, message and event channels, pending table, ingress byte budget, drop counters, the child | request, notify, respond, receive an event, shutdown, drop | callers, router, reader, event consumer and owner on five kinds of thread, bounded channels with 100 ms send timeouts | late answers against deadlines, full channels everywhere, a child that hangs or exits, shutdown against a blocked router | a caller gets one outcome and no refused request is ever sent; leases return; events have no gaps; the end is noticed; shutdown ends the child |
| Byte budgets (`byte_budget.rs`) | bytes used, under a mutex with a condition variable | try_acquire, acquire_timeout, drop of a lease | reader and UI event sender acquire, consumers of replies and events release | wake-ups lost between release and wait, time-outs that race with room, saturating arithmetic | never over the limit, no refusal while there is room, no waiter asleep beside room |
| Connection supervision (`backend.rs` run_backend, UiEventSender, reconnect scheduler; the connection state of `lib.rs`; dispatch and drain in `ui.rs`) | connection, reconnect timer and back-off, event and command channels, lost flag, status of the reducer, sign-in under way | connect, lose, schedule, retry, restart for a Bedrock sign-in, quit | actions one way, effects the other, both lossy; a flag that overtakes the queue | losses reduced out of order, full queues, replies to old effects, a join from the UI thread | no state of the UI waits for something that will not come; the back-off runs as designed; quitting ends |
| Requests of the app-server (`backend.rs` handle_app_server_event to respond_*; the cards of `lib.rs`) | pending_approvals, three queues of cards | register, refuse, decide, answer, restore after a failure, cancel by Escape, archive, clear at a loss | through both channels and the connection | decisions crossing cancellations and losses, ids used again by the next app-server, answers that cannot be sent | one answer each, to the request that was shown, none lost |
| Reducer features (`lib.rs` reduce) | AppState: tasks, timelines, turns, composer, settings, and generations of loads | 10 000 lines of sequential transitions | actions in, effects out | replies out of order (generations), turns that end while being steered | a stale reply never replaces a newer one; no feature loads for ever |
| Worktree forks (`backend.rs` 3792-3817, 4042-4140; `lib.rs` 9122-9289; `git.rs`) | a worker thread, a cancellation flag, a phase in the reducer | create, cancel, retry, dismiss | worker emits to the event channel, backend joins it | ready against cancelled, lost actions | a fork ends in one way and leaves no worktree behind unseen |
| Effects of the backend: account, tasks, goals, plugins, settings (`backend.rs` run_effect) | no state besides the connection, debounce timers of Git, task search, pull requests and goals | request, map, emit | over the connection | partial failure of sequences of requests | the UI hears of each outcome |
| Git and pull requests (`git.rs`, `github.rs`, `process.rs`) | child processes with a deadline, output limits and cancellation | snapshot, diff, stage, commit, worktree, gh | from the backend thread | descendants that keep pipes open, cancellation | a run returns by its deadline, nothing is left running |
| Terminals (`terminal.rs`) | a pty, a supervisor and a reader thread, bounded channels, input held back until the shell is ready | write, resize, shutdown | polled by the backend | output bursts against control messages, shutdown against both threads | exit is reported, input is neither lost nor reordered |
| Turns of a chat (`lib.rs` SubmitComposer to TurnCompleted; `backend.rs` StartTurn to RetrySafetyBufferedTurn) | composer, active turn, retry banner with its messages, the backend's entries of retryable turns | start, steer, stop, buffer, retry as a fork, select another chat | actions and effects through both lossy queues, notices that cross answers | turns that end while they are steered, a retry of what was never recorded, a snapshot that is older than a notice | what was accepted is retried, what was not comes back, the active turn is the one that runs |
| Remote Control (`lib.rs` 7643-7774, 13334-13781; `backend.rs` 5419-5617) | status, operation in progress, pairing code, list of devices, four generations | refresh, enable, disable, pair, check, list, revoke | effects and answers, `status/changed` in between, policy of the connection | answers of old generations, changes during an operation, lost answers | busy is waited for, the page shows what the app-server has |
| Browser and agent bridge (`browser.rs`, `browser_agent.rs`) | CDP pending table, tabs, downloads, permissions | navigate, input, download, CDP of the agent | pipe to a browser, named pipe to the agent | two clients of one protocol connection, ids rewritten | answers reach their asker, policy holds for both |
| Computer Use (`computer_*.rs`) | armed turn and generation, helper processes | capture, click, type, stop by Escape | polling thread to the backend through channels of one | a stop that reaches the wrong turn | only the armed turn is stopped, once |
| Storage (`codex-storage`) | SQLite tables, bounded | preferences, workspaces, downloads | from the backend thread | limits, migration | bounds kept, newest kept |
| Protocol types (`codex-protocol`), artifacts, notifications, desktop entry, command line, UI rendering, vendored gpui-component | - | - | - | - | data and presentation; not modelled |

## 2. Modules

| module | models | uses |
|---|---|---|
| `AppServerRouter` | the connection, all five kinds of thread | `RequestContract` as an INSTANCE with a refinement mapping |
| `RequestContract` | the abstract promise of `request`: issue, send, one outcome | |
| `ByteBudget` | the budget at the level of the mutex and condition variable; `AppServerRouter` and `ConnectionRecovery` use it as a counter | |
| `ConnectionRecovery` | backend loop, UI loop, the two channels, reconnect timer, status | |
| `ClientRequests` | requests of the app-server from arrival to answer | |
| `WorktreeFork` | the queue of forks, the effects, the Git worker | `WorktreeHandoff` as an INSTANCE with a refinement mapping |
| `WorktreeHandoff` | the promise of the forks together: a FIFO, one handoff at a time | |
| `TurnLifecycle` | composer, timeline, backend and server of the turns of one chat | |
| `Terminals` | tabs, sessions, supervisor and reader threads, the shell | |
| `ComputerUse` | calls of a turn, the interruption monitor, stops, touches, the indicator | |
| `RemoteControl` | the page of Remote Control, its effects, the status of the app-server | |
| `MCRemoteControl` | the symmetry of its environments, for TLC | `RemoteControl` |
| `*Proofs` | the theorems about the module of that name (those about `ByteBudget` are at the end of `AppServerRouterProofs`) | that module |

The modules are composed by contract: `ConnectionRecovery` takes a connection
to be what `AppServerRouter` promises (events in order, one end that is
noticed), the others take reconnecting to be one step or two, as
`ConnectionRecovery` describes it, and `ComputerUse` takes the decisions on its
cards to arrive as `ClientRequests` says. Each models the command queue and the
event queue between reducer and backend with its own messages: an effect that
finds no room in the command queue is lost at once (`try_send`), an action that
finds none in the event queue after 100 ms.

### AppServerRouter

One action per step that another thread can see between. `call[id]` is the
program counter of the caller that was handed request id `id`
(`Call`, `CallQueued`, `CallReturns`, ...), `router` that of
`route_app_server` (with the message in hand in `cur`), `reader` that of
`routed_stdout_reader` (with `item`), `owner` that of shutdown and drop.
`commands`, `incoming` and `events` are the three channels; `reply[id]` is the
channel of one element a caller waits on. The child is the environment: it
answers what was written, sends frames of its own, may stop reading its stdin
(`MayHang`) and may exit at any moment.

Abstractions: a frame costs one unit of the byte budget; a deadline is a flag
that may rise at any moment; a send timeout may fire whenever the channel is
full. Answers are only sent for ids that were written, once. The error path of
`try_wait`, the initialize handshake and the typed wrappers are left out.
`RouterCommandsGone` does not exist: drop always ends the router before its
channel closes.

### ByteBudget

One action per critical section: the check, the wait, a wake-up by
notification, time-out or for no reason, the return of a lease, and
`notify_all` as a separate step because the code calls it without the mutex.

### ConnectionRecovery

`backend` is the program counter of `run_backend` (poll, command, connect,
restart, timer), `out`/`after` the actions it is still to emit: `emit` waits
100 ms for room and then drops, which is `EmitTimedOut` and sets `missed`.
`events`, `commands`, `lossPending` and `dropRequested` are the channels and
flags; `ui` and `batch` are the drain of the UI thread; `status`, `shown`,
`auth` and `profile` are the parts of AppState that decide about the
connection. A dispatch reduces one action and sends its effects.

Abstractions: the limit of 64 events in a poll is not modelled; the effects of
one action are sent in one step; the delays are units up to `MaxDelay` and time
is the nondeterministic `TimerDue`; logout and a panic of the backend thread
are left out.

### ClientRequests

`asked` is what the current app-server has asked, `read` how far the backend
has got, `answers` what was sent and on which card it was based, `pending` is
`pending_approvals`, `cards` the three queues of the reducer, `commands` and
`events` the channels, `cancelling` the entries of an Escape still to be
cancelled. A request is known by its id; a new app-server numbers its requests
from the start (an assumption about the app-server, which no source of this
repository excludes). `forgotten` records ids whose card, answer or decision
the code gives up: an answer at once that could not be sent, a tool that has
run but whose answer could not be sent, an action or effect that found its
queue full, an archived chat.

Abstractions: every way the client answers by itself (full table, invalid,
automatic) is `AnswerAtOnce`; the UI reduces one action at a time;
the countdown of a structured input and the user are both `DecideOnCard`;
one Computer Use turn at a time. The client does not handle
`serverRequest/resolved`, and neither does the model.

### WorktreeFork and WorktreeHandoff

`active` and `queue` are the pending forks of the reducer with the six phases of
the dialog, `runtime` is the worker the backend knows of, `worker[w]` the thread
of `create_managed_worktree` with its cancellation flag, `disk[w]` what it has
made of its worktree. The steps of Git are those before anything is on disk and
those after, each with a failure; cancellation is seen between them. `kept`
records the worktrees that were left to a chat or to the user with a message,
`missed` that a queue has swallowed something. The mapping to `WorktreeHandoff`
takes a fork as running while it is the active one, and as worked on while its
worker or its `thread/fork` is at work.

### TurnLifecycle

`tl` is the timeline of the chat (active turn, stopping, retry snapshot, banner,
generation), `composer` and `draft` the text not sent yet, `cache` the backend's
entry of retryable turns, `server` the turns as the app-server has them, `notes`
what it tells on its own. A message is the set of the pieces of text typed into
it; `acked`, `tried`, `forks`, `owed`, `sent` and `tl.heard` are history: what
each turn has accepted, the turns whose entry was taken for a retry, what a retry
sent, what was submitted and has not reached the app-server, what was ever
submitted, and the turns of which the reducer was told that the assistant spoke.
`holes` records what has gone without a trace: a request refused by the full
command queue, one made without a connection, an action swallowed by the full
event queue. The user goes on whatever has happened.

Abstractions: the items of the timeline are left out. They come from notices and
from pages (`LoadTimeline` of `Connected`, `lib.rs:8026`, of `SelectTask`,
`lib.rs:9915`, and of `LoadMoreTimeline`, all answered by `TimelineLoaded`,
`lib.rs:10073`), which replace them but change nothing else that is modelled; the
timeline is trimmed too. Their one reader among the modelled parts is
`SafetyBufferingUpdated` (`lib.rs:12584`), which looks for output of the
assistant: in `ReduceBuffering` what it finds is open. A page that is read after
the assistant spoke and before its notice shows that output beside a banner that
is still open; `BannerIsLive` is about the notice, not about the page.

### Terminals

`tab[t]` is a tab of the reducer, `terminals` the sessions of the backend,
`session[i]` one session: the supervisor's queue and state, input held back
until the shell is ready, the output channel, the reader with its device status
queries, and the shell. `windows` chooses between a pty, whose reader ends with
the shell, and ConPTY, whose reader ends when the pseudo-console is closed. A
`hindrance` is what the program cannot help: a shell that reads nothing
("deaf"), a background job that keeps the terminal open ("job"). The user
acts as long as nothing has gone wrong (`holes` is empty). `Restart` is that of an
ended tab: the reducer would restart a running one (`lib.rs:18110`), but its button
is Stop there (`ui.rs:24913-24921`), and nothing else dispatches the action.

### ComputerUse

`backend` is `run_backend` around a call (check, disarm, run, acting), `armed`
and `passed` the shared state of the monitor with the generation cut down to
whether it has gone on since the monitor looked, `monitor` the polling thread
with its two edges, `stops` and `touches` its channels of one. `interrupted`
and `stale` are the bounded sets of stopped turns and touched windows, with
`allStale` for the overflow of the second; the first is cleared at its limit,
as the code does. `escape` and `moved` are the hands of the user and of the
agent; `noticed`, `swallowed` and `obeyed` are history: the windows reported as
touched, the turns whose stop found its channel full, and those whose stop
`run_backend` has read and has not let go since at the limit of the set.

### RemoteControl

`remote` is `RemoteControlState`, `policy` and `auth` the parts of the reducer
that permit it, `commands` and `events` the channels, `notices` the
`remoteControl/status/changed` on their way, `server` and `link` the app-server
and its connection. An answer overtakes the notices its request caused, because
`run_backend` waits for the answer; the loss flag overtakes the event queue.
`unheard` records the awaited requests whose answer was lost to a full queue or
thrown away while the policy of a new connection was loading.

## 3. Runs

| run | bounds, and why they suffice |
|---|---|
| `router` | up to three of: two requests, three must-deliver frames, two best-effort ones (`MaxTraffic`), every channel, the table and the byte budget of one, so that each is full in some behaviour while another request or frame waits; the child may hang or exit |
| `router_liveness` | one request, one event, one frame, fair |
| `router_shutdown_full` | one frame, no request; violated, see below |
| `recovery` | a failed start, a death, and one of: an event, a user effect, a sign-in; commands of two, events of three, batches of two, a UI budget of one: each of them overflows; fair |
| `byte_budget` | three threads, limit two, sizes zero to three: fits, fits later and never fits; fair |
| `client_requests` | three requests of any kind against a table of two, two app-servers that number theirs alike, one command and two events of room, one failure, one Escape, one archived chat; fair |
| `client_requests_stale_card` | two app-servers with one request each; violated, see below |
| `worktree_fork` | four requests against a limit of three, one retry or other effect, queues of one; fair |
| `turn_lifecycle` | two pieces of text, two turns, one buffering, one of stop, change of chat, refusal, death; commands of one, events of two; a retry holds two messages; fair; 1.5 million states. A retry that skips a message in the middle needs three of them and is covered by the theorem only |
| `terminals` | two tabs in turn against a limit of one, two shells, three of input, output, failure, hindrance; every queue of one, one output drained at a time; fair |
| `computer_use` | two turns, two windows, two calls, two of Escape, touch, stop, late answer, loss; both sets hold one, so that both overflow |
| `remote_control` | two environments, which are symmetric, one device, two operations and a third that races them, two changes, losses, refusals or sign-ins; beside connected and errored the status is disabled only |

`CHECK_DEADLOCK FALSE` stands in the router's runs, because a connection that is
closed really stops, and in `remote_control`, because its bounded user and
environment do; the other runs check for deadlock. A limit of one or two is
enough for what depends on a limit: a queue is full, one short of it, or empty.
Two of a kind (requests, turns, windows, app-servers, environments) are needed
to confuse one with another; three forks to have one wait behind one that waits.
What a run shows for these bounds a theorem of section 4 shows for every bound,
where one is named.

### What the properties say

* Router: `NoOrphanedCall` (the reply sender of a waiting caller is in exactly
  one place), `NoLeaseLeak` (the budget is the sum of the frames alive),
  `EndIsOrderly` (Disconnected is last; a shutdown that reports success has
  ended everything), `EventsAreFaithful` (no gap, nothing both rejected and
  delivered, no false count of drops), `ImplementsContract`, and
  `NobodyWaitsForEver`.
* Recovery: `StatusIsReal` (whenever the UI shows a state that it cannot leave by
  itself, what will take it out is under way; and where it offers a retry, nothing
  else connects or will: `RetryIsAlone`), `RecoverySettles` (it arrives),
  `TimerOnlyWhileDown`, `BackoffFollowsFailures`. A dropped action or effect
  (`missed`) excuses them, except the timer, the delays and `RetryIsAlone`, which is
  asked with one sign-in at most. `LossIsComing` and `LossIsNoticed` are asked
  unless `SignInMayBeForgotten`: an account is known, or more than one sign-in was
  submitted, and a failed restart may go unseen, see below.
* Byte budget: `AccountIsExact`, `RefusedOnlyWhenFull`, `NoLostWakeUp`.
* Client requests: `TableIsExact`, `AnsweredOnce`, `CardsMatchRequests`,
  `EveryRequestIsAnswered`.
* Worktree forks: `ForkIsReal` (no worktree is forgotten; what the dialog shows
  is under way), `ForksEnd`, `ImplementsHandoff`.
* Turns: `UiAgrees`; `BannerIsLive` (the banner is that of the active turn, and
  offers no retry once the reducer was told that the assistant spoke);
  `MessagesAreKept`, a step property of three parts. `RetryKeepsSteers`: a retry
  sends all that its turn had accepted when it finds the backend's entry; it is
  without the entry only after an earlier retry of the turn or an overflow of the
  entry, and then sends the first messages up to some point, or a selection of
  them if an event was missed; no turn is sent again twice. `PromptComesBack`: a
  submission that the app-server has not got is under way or back in the composer,
  unless the user has touched the composer, or the code drops it (full command
  queue, no connection, a missed event). `DraftIsKept`: never over a newer draft.
  And `WaitsEnd`, unless something is in `holes`.
* Terminals: `InputInOrder`, `ShownIsReal`, `WaitsEnd`.
* Computer Use: `StopHolds` (only the user stops a turn; and from when the backend
  has read a stop at the head of its loop, no call of that turn acts and no approval
  of it waits, after the turn's end and a lost connection too, unless the stop was
  let go with the set at its limit), `TouchesAreHonoured`, `EscIsWatched`.
* Remote Control: `BusyIsReal`, `PageIsTrue`.

### Fairness

The program's own threads keep running: weak fairness of each kind of thread,
and of each session's threads. `select!` picks at random among ready channels,
hence strong fairness for a command that stays ready, and for the reconnect
timer, whose deadline comes again and again. The router is not assumed to get
out of a write to a child that hangs, nor is the app-server assumed to answer,
to send or to live. `EveryCallReturns` states the passage of time as its
hypothesis. In `ClientRequests` a card is decided on in the end: structured
input has a countdown in the code, for the other cards this is an assumption
about the user. In `WorktreeFork` a Git command ends (it has a deadline); in
`TurnLifecycle` a turn that was told to stop ends, and the backend reads the
notifications before every command, whatever the user sends; in `Terminals`
nothing is assumed of the shell. `ComputerUse` and `RemoteControl` have no liveness property and
assume no fairness.

### Disagreements found

* **Shutdown with a full command queue** (`router_shutdown_full`).
  `AppServerConnection::shutdown` offers its command for 100 ms; if it is not
  taken, shutdown still joins the router, which was told nothing and whose
  command channel is open: the join never returns and the child is not ended
  (`app_server.rs:1654`), against `docs/architecture.md:57`.
* **A decision on a card of the last connection** (`client_requests_stale_card`).
  Approval and input cards outlive their connection, and a decision on one
  answers a request of the next app-server that has the same id, against
  `docs/parity-matrix.md:80`.

Observations made while modelling, which the properties excuse by name rather
than state as runs of their own:

* A reconnect is never scheduled when its effect finds the command queue full
  (`ui.rs:7047`), against the text at `ui.rs:13625` (`missed`).
* A failed restart after a Bedrock sign-in is not shown when an older
  AccountLoaded has reset the sign-in (`lib.rs:14509`, `lib.rs:14676`; `profile`),
  nor when the answer to an earlier sign-in has: no action carries the sign-in it
  answers (`lib.rs:14648` after the reset at `lib.rs:8048`). The proof of
  `StatusIsReal` found the second (`SignInMayBeForgotten`).
* A retry may lose accepted steers: the entry is taken for a retry
  (`backend.rs:7650`) and not put back when the interrupt fails, so a second retry
  sends what the timeline was told, without the steers it has not heard of yet,
  and without one in the middle if its event was missed. `CHANGELOG.md:269-270`
  and `docs/parity-matrix.md:75` promise that accepted steers are preserved
  (`tried` in `RetryKeepsSteers`). A prompt is lost when the command queue is full
  or nothing is connected (CHANGELOG.md:132; `owed` and `holes`).
* The exit of a terminal that was stopped may reach the tab after its restart
  (`lib.rs:18213`, "late"); a refused StopTerminal leaves a hidden shell that
  counts against the limit ("refused"); the end of a terminal waits for as long
  as a background job keeps the pty open (`terminal.rs:560`,
  `docs/architecture.md:102`; `Hindered`).
* Computer Use: the indicator may outlive its turn, a second stop is lost when
  the channel of one is full, a touch can be lost although it is marked as
  reported, a late stop of a completed turn stays in the set of stopped turns,
  and at its limit the whole set is cleared (`swallowed`, `obeyed`). A stop that
  arrives while a batch is worked off waits in its channel until the next head of
  the loop (`backend.rs:3384-3407`); up to 64 events and a command are handled
  before (`backend.rs:3410-3529` and the command after them), and calls of the
  stopped turn, or the consent to one, act in that time. `docs/parity-matrix.md:87`
  (the monitor "rejects later Computer Use calls in that turn" and "cancels pending
  app approvals") knows no such window; `StopHolds` begins where it ends.
* Remote Control: after the restart of a Bedrock sign-in an answer that arrives
  while the policy is loading leaves the page busy (`lib.rs:13345`; `unheard`).


## 4. Proofs

Every theorem holds for every value of the constants that satisfies the named
assumptions of the model (`CapacityAssumption` and the like: capacities are
positive, bounds are natural numbers), so for the capacities of the code as well
as for those of the runs. Nothing else is assumed. Each proof module EXTENDS the
model, states an inductive invariant, proves it for Init and then action by
action, and derives the property of the run from it.

| module | theorems | states |
|---|---|---|
| `AppServerRouterProofs` | `InductiveInvariant`, `TypeCorrect`, `NoCallOrphaned`, `RefusedNeverSent`, `EndsOrderly`, `LeasesReturn`, `EventsHaveNoHole`, `EventsFaithful`, `Refinement` | `TypeOK`, `NoOrphanedCall`, `EndIsOrderly`, `NoLeaseLeak`, `EventsAreFaithful`, `ImplementsContract` |
| the same, at its end, about `ByteBudget` | `LimitHolds`, `AccountExact`, `RefusalsAreJustified` | `AccountIsExact`, `RefusedOnlyWhenFull` |
| `ConnectionRecoveryProofs` | `TypesHold`, `TimerIsForTheDisconnected`, `StatusHolds`, `BackoffHolds` | `TypeOK`, `TimerOnlyWhileDown`, `StatusIsReal`, `BackoffFollowsFailures` |
| `ClientRequestsProofs` | `TypesHold`, `AnswersFit`, `OneAnswerEach`, `TableHoldsOpenRequests`, `NoRequestLost`, `PendingTableIsExact`, `CardsMatch` | `TypeOK`, `AnsweredOnce`, `TableIsExact`, `CardsMatchRequests` |
| `WorktreeForkProofs` | `TypesHold`, `ForksAreReal`, `Refinement` | `TypeOK`, `ForkIsReal`, `ImplementsHandoff` |
| `TurnLifecycleProofs` | `TypesHold`, `BannerHolds`, `MessagesHold`, `AgreementHolds` | `TypeOK`, `BannerIsLive`, `MessagesAreKept`, `UiAgrees` |
| `ComputerUseProofs` | `TypesHold`, `StopsHold`, `ActsDisarmed`, `AgentLooksAgain`, `EscWorks` | `TypeOK`, `StopHolds`, `TouchesAreHonoured`, `EscIsWatched` |
| `RemoteControlProofs` | `TypesHold`, `BusyHolds`, `ShownHolds`, `PageHolds` | `TypeOK`, `BusyIsReal`, `PageIsTrue` |
| `TerminalsProofs` | `TypesHold`, `InputKeepsItsOrder`, `TabsShowWhatIs` | `TypeOK`, `InputInOrder`, `ShownIsReal` |

### The arguments

* **Router.** `IInv` is the types, what the program counters of router, reader
  and owner say about the channels, and the place of every request. The place
  alone is not inductive: that a reply settles a caller who waits needs that a
  reply on its way belongs to a request that was written, that no request is
  queued twice, and that the router has in hand what it has taken from the
  queue. The refinement maps a request that is queued or in the router's hand to
  one that is issued; each step is then a step of `RequestContract` or a stutter.
  On top of `IInv` stand three more. `NoLeaseLeak` is inductive as it is: the
  leases are counted at six places (two queues, the replies, the hands of
  reader, router and consumer), and the lemmas say how each count moves when its
  place does. `FlowInv` looks at the numbers of the must-deliver frames alone:
  as sets they lie one behind the other (delivered, in the event queue, in the
  router's hand, in its queue, in the reader's hand), each set has everything
  before it that was not rejected, and this lasts as far up the way as frames
  can still come. `DropInv` adds up what the consumer was told, the two counters
  of drops and what each queue and hand says of best-effort notifications.
* **Byte budget.** Room is compared and taken in one critical section, so the
  limit and the justification of a refusal are kept by each step alone. That the
  account is the sum of the leases is kept by adding or removing one lease.
* **Sums.** The community modules sum over a set by a recursive function that
  picks an element at a time. What both accounts need of it is that the sum
  changes by f(x) when any x comes or goes, whatever was picked. It is proved by
  the least cardinality of a set for which it fails (`LeastNumber`, from
  `NatLessThanWellFounded` and `WFMin`), because the induction theorems of the
  library cannot be instantiated here. The lemmas are stated once for the
  operator of each account.
* **Recovery.** `TimerInv`: no part of the backend is about to connect with the
  timer set; with this `TimerOnlyWhileDown` is inductive. `RealInv`: the batch in
  hand, the pending loss that overtakes the queue, the queue and what the
  backend is still to say are read as one sequence, `Stream`. In it a loss or a
  failed restart is made good by a connection behind it or by the restart that
  is going on, an accepted sign-in has its end behind it, one sign-in has one
  answer, and behind every connect of a recovery stands a schedule. The lemmas
  say what appending, taking the first and letting a loss slip in do to each of
  these; the steps only have to say which of the three they are. `BackoffInv`:
  the delay of every attempt is the power of two that belongs to it, in the
  scheduler, in what the backend says, in the queue, in the batch and on the
  screen. The powers are those of the finite-set library, where 2^n is the number
  of the subsets of 1..n: half of them have n in them (`Power`). `FreshInv`: a
  connection has no progression behind it, nor has who connects for the user or a
  sign-in; so the restart of a sign-in, which takes a connection down, has none to
  start over. `Alone`, with one sign-in at most: who dials for the user, a failure
  on its way to the UI, the retry offered after it and a progression of delays
  exclude each other (`Apart`), the status tells which it is (`Told`), and no news
  of the sign-in that could change the status is left then (`SignedOff`). The order
  on the way matters twice: behind a failure that is shown comes no connection, and
  a schedule that finds a sign-in under way stands before it in the queue. Most
  steps are `Calmly`: after them nobody does what he did not do before. From this
  follow `RetryIsAlone` and that the user's retry has no progression to start over.
* **Requests.** `TableInv` and `AnswersInv` are about the table alone: an id is
  in it from the moment its request is read until its answer is sent.
  `CardsInv` is about places: a waiting request of the first app-server is in
  exactly one of cards, events and commands. That a full queue of cards gives up
  no card that is needed is counted (`RoomAhead`): the cards and those on their
  way are no more than the entries of the table, whose limit is the same.
* **Worktree forks.** At most one job exists. It is handed from the command
  queue to the backend, to its Git worker and back as a message, is of the fork
  in hand, fits the phase of that fork, and stays ahead of its cancellation.
  From this follow both `ForkIsReal` and each step of the refinement.
* **Turns.** Nine actions of the reducer touch what the banner depends on; that it
  is the active turn's, with a model and messages, they keep by themselves
  (`Right`). That it offers nothing once the assistant was heard needs the order of
  the event queue: the record of a turn is emitted before the first word of the turn
  is read, so no record can follow a word that has been told, and a steer adds
  nothing to an empty snapshot (`HeardInv`).
  `MessagesAreKept`
  needs all the parts, in `KeptInv`. *Drafts*: every message that is queued, kept
  or in hand was sent by the user, and one that may restore a draft of the present
  generation comes back next to nothing that was not sent before (`SentInv`).
  *Failed submissions*: what is owed to the user is in a command, in the hand of
  the backend, in its answers, among the events or in the composer, at the
  generation of the draft (`PromptInv`). *Retries*: the events that are on their
  way tell, in order, what lies between the messages the timeline would send
  again and those the turn accepted (`Log`, `LogInv`); with one that was missed
  they tell a selection of it. So a retry that is asked for has a prefix of the
  accepted messages, or a selection (`RetriesInv`), and one that finds the
  backend's entry has them all (`TurnsInv`). Whoever can ask for a retry of the turn
  that runs finds its entry unless an earlier retry took it or it overflowed
  (`EntryInv`), because otherwise the entry goes only with the end of the turn or
  with its connection, and then the turn does not run (`NotesInv`). What the turn has
  accepted does not change behind a retry that was sent, since a turn is sent again
  only after it has ended, and no turn runs twice (`BusyInv`, `ForksInv`). The
  lemmas on `Log` say what no event, one more event and the first event tell.
  `UiAgrees` needs that what is still to be
  read leads from the turn that is shown to the one that runs (`PathInv`): the
  events, the answers of the backend and the notices of the app-server are three
  walks, one behind the other, over the places where a chat can stand (connected
  or not, loaded or not, its turn). An answer overtakes the notices before it, so
  the notices must lead there from whatever turn is thought to run, once there is
  a start among them (`Settled`); that holds because the end of a turn is behind
  its start and ends no other (`LiveInv`). An answer to an older request for the
  runtime is recognised by its generation (`GenInv`): asking again turns the
  whole walk into that of a chat that is not loaded (`WalkUnloaded`). Behind a
  connection that is gone the walk ends in a chat that is not loaded (`LinkInv`).
* **Computer Use.** `Disarmed`: while a call runs or acts nobody is watched and
  only then is Escape the agent's. `Snapshot`: what the monitor holds is armed
  unless the generation has passed. `StopHolds`: while a stopped turn is in the set,
  nothing of it waits or acts (`Stopped`); it leaves the set, unless the set starts
  anew, when its end is taken from the events, and the end of a turn is the last of
  its events (`Closing`), so nothing of it is anywhere any more, nor comes
  (`Heeded`). `WInv`: a turn has one call at a time, so
  what a call or a decision arms when it is through is the turn that was watched
  before or its own.
* **Remote Control.** `IInv`: a request leaves a queue only to leave its answer
  in the next one, an operation waits for answers of its own kind, devices are
  waited for only while the status is connected. `TInv`: the last notice tells
  what the app-server has; with none left, so does what is on its way, or
  something newer is behind it, or the page asks or will ask.
* **Terminals.** `Base`: a session is in exactly one hand (the tab that drives it,
  the backend that joins it, or nobody once its threads are gone), so that what
  the backend does to a session in hand is done to no other; a tab is spawned
  once, so a spawn finds its tab without a session. Of a session it says how the
  phases of its two threads, its queue, what it holds back and what its shell got
  fit (`Fine`), and each session makes one step at a time (`Evolves`). From this
  follows `InputInOrder`: what was accepted is what the shell got, then what is
  held, then the writes in the queue. `CalmInv` holds as long as nothing has gone
  wrong (`Calm`). Of the commands and the events on their way a tab sees those
  that have a rank (a stop before a restart; started, lost output, the exit of the
  shell, the answer to a stop), and `Shown` says which sets of ranks fit what the
  tab shows and whether it has a session: that they rise along the channel is what
  makes the sets enough. Two states have no order to speak of: a closed tab, where
  only a stop behind every start matters (`Cover`), and a tab that starts again
  while the answer to its stop is still on its way (`Doomed`), which is where
  calm ends. `Tale` keeps what is known of a session that is in no hand any more,
  for the exit and the mark of lost output that are still to be read. `Roomy`
  counts, for every spawn in the queue, the tabs that can have a session when it
  is taken: those that are shown or have a stop behind it, without those that are
  opened behind it. The lemmas say what appending, taking and concatenating do to
  ranks; then each action has a lemma about the tab it is for (`Shown...`), and
  one that it leaves the others alone (`Passes`).

Some invariants were changed by their proof: `SignInMayBeForgotten` (section 3)
was found where `StatusIsReal` is not inductive. That the delays start over only
with a connection, as `ResetOnlyWhenConnected` once said, is proved for one sign-in
only: after three of them a late answer may show a connection as failed while a
retry is scheduled, and the retry that the user is offered then starts the
progression over, as the code means it to (`backend.rs:3636`). Hence the condition
on `count.logins` there and in `RetryIsAlone`.

### What is only model-checked

* Liveness (`NobodyWaitsForEver`, `RecoverySettles`, `NoLostWakeUp`,
  `EveryRequestIsAnswered`, `ForksEnd`, both `WaitsEnd`): fairness and ENABLED are
  beyond the prover.

## 5. Plan

In this order; what is done is described above.

1. Done: the connection, budgets, recovery, requests, forks, turns, terminals,
   Computer Use, Remote Control; the theorems of section 4.
2. Done: every invariant, step property and refinement that a run checks is proved.
3. Models that are left: the generations of snapshots, diffs and searches
   (`lib.rs:17093`), bounded child processes (`process.rs:303`), the browser with
   the agent bridge, the bounds of the storage.

## 6. Not modelled

`PROJECT.json` lists every component with its status and, under hazards, what
no property covers. Left out are

* rendering, input and layout (`ui.rs` besides dispatch and drain), the vendored
  widget library, artifacts, notifications, the desktop entry and the command
  line: presentation, or sequential code without state that lasts;
* the features of the reducer that fold data into lists (tasks, plugins, skills,
  settings, goals): one action each, and no order that matters besides the
  generations of section 5;
* the protocol types with their redaction: functions of one message;
* the calls of Computer Use into the system (windows, accessibility, capture);
  the model of Computer Use takes their outcome as given;
* the blocking `AppServerClient`, which is sequential and serves the probe command
  only.
