--------------------------- MODULE AppServerRouter ---------------------------
(***************************************************************************)
(* The long-lived connection to the official `codex app-server` process:   *)
(* AppServerConnection, its router thread and its stdout reader thread     *)
(* (crates/codex-platform/src/app_server.rs).                              *)
(*                                                                         *)
(*   callers --commands--> router --stdin--> child                         *)
(*   callers <---reply---- router <-incoming- reader <--stdout-- child     *)
(*   consumer <--events--- router                                          *)
(*                                                                         *)
(* Five kinds of thread take steps: the callers of request (one per        *)
(* request id), the router, the stdout reader, the consumer of the event   *)
(* queue, and the owner who shuts the connection down.  The child process  *)
(* is the environment: it answers what was written to it, sends requests   *)
(* and notifications of its own, may stop reading its stdin and may exit   *)
(* at any moment.                                                          *)
(*                                                                         *)
(* Data abstraction: a frame is one unit of the ingress byte budget, and   *)
(* carries a kind and a number.  A deadline is a flag that time may raise  *)
(* at any moment; a 100 ms send timeout may fire whenever the channel it   *)
(* waits for is full.                                                      *)
(***************************************************************************)
EXTENDS Naturals, Sequences, FiniteSets, Functions

CONSTANTS
    MaxRequests,      \* bound: request ids handed out by next_request_id
    MaxEvents,        \* bound: must-deliver frames the child sends
    MaxLossy,         \* bound: best-effort notifications the child sends
    MaxFrames,        \* bound: notify / respond_* frames the client sends
    MaxTraffic,       \* bound: all of these together
    CommandCapacity,  \* DEFAULT_COMMAND_CHANNEL_CAPACITY
    MessageCapacity,  \* DEFAULT_MESSAGE_CHANNEL_CAPACITY
    EventCapacity,    \* DEFAULT_EVENT_CHANNEL_CAPACITY
    MaxPending,       \* MAX_PENDING_REQUESTS
    ByteLimit,        \* DEFAULT_INGRESS_BYTE_BUDGET, in frames
    MayHang           \* whether the child may stop reading its stdin

ASSUME BoundsAssumption ==
    /\ MaxRequests \in Nat /\ MaxEvents \in Nat
    /\ MaxLossy \in Nat /\ MaxFrames \in Nat /\ MaxTraffic \in Nat
    /\ MayHang \in BOOLEAN

ASSUME CapacityAssumption ==
    /\ CommandCapacity \in Nat \ {0} /\ MessageCapacity \in Nat \ {0}
    /\ EventCapacity \in Nat \ {0} /\ MaxPending \in Nat \ {0}
    /\ ByteLimit \in Nat \ {0}

VARIABLES
    call,          \* call[id]: where the thread that issued request id stands
    reply,         \* reply[id]: content of its bounded(1) reply channel
    expired,       \* requests whose deadline has passed
    commands,      \* the command channel
    pending,       \* the router's table of requests awaiting an answer
    router,        \* the router thread's program counter
    cur,           \* the message it is publishing or the frame it is writing
    written,       \* requests written to the child's stdin
    incoming,      \* the reader-to-router channel
    events,        \* the event channel
    dropped,       \* dropped_notifications, local to the router
    readerDropped, \* reader_dropped_notifications, shared with the reader
    reader,        \* the stdout reader's program counter
    item,          \* what the reader is about to send to the router
    used,          \* bytes leased from the ingress ByteBudget
    server,        \* the child process
    owner,         \* progress of AppServerConnection::shutdown and drop
    shutdownReply, \* the shutdown command's reply channel
    result,        \* what shutdown returned
    consumer,      \* the event whose guard the consumer holds
    noticed,       \* the consumer has learnt that the connection is over
    hist           \* counters of what passed by, for bounds and properties

callerVars   == <<call, expired>>
queueVars    == <<commands, incoming, events>>
dropVars     == <<dropped, readerDropped>>
readerVars   == <<reader, item>>
ownerVars    == <<owner, result>>
consumerVars == <<consumer, noticed>>
vars == <<callerVars, reply, queueVars, pending, router, cur, written, dropVars,
          readerVars, used, server, ownerVars, shutdownReply, consumerVars, hist>>

(* What the steps of each kind of thread never change. *)
notCaller   == <<incoming, events, pending, router, cur, written, dropVars,
                 readerVars, server, ownerVars, shutdownReply, consumerVars>>
notConsumer == <<callerVars, reply, commands, incoming, pending, router, cur, written,
                 dropVars, readerVars, server, ownerVars, shutdownReply>>
notReader   == <<callerVars, reply, commands, events, pending, router, cur, written,
                 dropped, server, ownerVars, shutdownReply, consumerVars>>
notRouter   == <<callerVars, readerVars, server, ownerVars, shutdownReply, consumerVars>>
notOwner    == <<callerVars, reply, incoming, pending, router, cur, written, dropVars,
                 readerVars, server, shutdownReply, consumerVars, hist>>

Requests == 1..MaxRequests
Msg(k, n) == [kind |-> k, n |-> n]
NoMsg == Msg("none", 0)

(* The bounds leave room for one more request or frame. *)
MoreTraffic ==
    Cardinality({id \in Requests : call[id] # "idle"})
        + hist.produced + hist.lossy + hist.frames < MaxTraffic

(* Frames that hold a lease on the ingress budget while they travel. *)
AnswerKinds == {"success", "failure"}
EventKinds  == {"request", "semantic", "lossy"}
FrameKinds  == AnswerKinds \cup EventKinds \cup {"badId"}
(* Items with which the reader announces that it stops. *)
FinalKinds  == {"overloaded", "eof", "error"}
Leased(m) == m.kind \in FrameKinds

(* What the thread that issued a request can be told. *)
Answers  == {"ok", "rejected"}
Refusals == {"queueFull", "tooMany"}
Failures == {"timedOut", "closed", "transport"}
Outcomes == Answers \cup Refusals \cup Failures

InFlight(id) == call[id] \in {"sending", "waiting"}
Usable == owner \in {"open", "returned", "abandoned"}
EventsOpen == owner # "dropped"
ServerGone == server \in {"exited", "reaped"}
RouterRunning == router \in {"top", "select", "publish", "write"}
QueuedCall(id) == \E i \in DOMAIN commands : commands[i] = Msg("call", id)
LeasesIn(s) == Cardinality({i \in DOMAIN s : Leased(s[i])})

(* Room in the bounded channels, the pending table and the byte budget.      *)
CommandRoom == Len(commands) < CommandCapacity
MessageRoom == Len(incoming) < MessageCapacity
EventRoomOffByOne == Len(events) <= EventCapacity
EventRoom == Len(events) < EventCapacity
TableRoom == Cardinality(pending) < MaxPending
BudgetRoom == used < ByteLimit

(* Dropping leases: ByteLease::drop subtracts saturating at zero.            *)
Freed(count) == IF count > used THEN 0 ELSE used - count

(* notification_requires_resync: the notifications that must not be dropped. *)
RequiresResync(m) == m.kind = "semantic"

Init ==
    /\ call = [id \in Requests |-> "idle"]
    /\ reply = [id \in Requests |-> "none"]
    /\ expired = {} /\ pending = {} /\ written = {}
    /\ commands = <<>> /\ incoming = <<>> /\ events = <<>>
    /\ router = "top" /\ cur = NoMsg
    /\ reader = "read" /\ item = NoMsg
    /\ dropped = 0 /\ readerDropped = 0 /\ used = 0
    /\ server = "running"
    /\ owner = "open" /\ shutdownReply = "none" /\ result = "none"
    /\ consumer = NoMsg /\ noticed = FALSE
    /\ hist = [produced |-> 0, lossy |-> 0, frames |-> 0, answered |-> {},
               delivered |-> {}, rejected |-> {}, lossySeen |-> 0, dropSeen |-> 0]

-----------------------------------------------------------------------------
(* Callers: request_optional_with_timeout, one thread per request id. *)

(* The closed check, then allocate_request_id: ids are handed out in order. *)
CallStart(id) ==
    /\ MoreTraffic /\ Usable /\ call[id] = "idle"
    /\ \A other \in Requests : other < id => call[other] # "idle"
    /\ call' = [call EXCEPT ![id] = IF owner = "open" THEN "sending" ELSE "closed"]
    /\ UNCHANGED <<notCaller, reply, expired, commands, used, hist>>

CallEnqueue(id) ==
    /\ call[id] = "sending" /\ router # "done" /\ CommandRoom
    /\ call' = [call EXCEPT ![id] = "waiting"]
    /\ commands' = Append(commands, Msg("call", id))
    /\ UNCHANGED <<notCaller, reply, expired, used, hist>>

(* send_timeout gave up on a full queue, or found the router gone. *)
CallNotQueued(id) ==
    /\ call[id] = "sending"
    /\ \/ /\ router # "done" /\ ~CommandRoom
          /\ call' = [call EXCEPT ![id] = "queueFull"]
       \/ /\ router = "done"
          /\ call' = [call EXCEPT ![id] = "closed"]
    /\ UNCHANGED <<notCaller, reply, expired, commands, used, hist>>

(* The reply, and with it the lease of an answer, is consumed. *)
CallReceive(id) ==
    /\ call[id] = "waiting" /\ reply[id] # "none"
    /\ call' = [call EXCEPT ![id] = reply[id]]
    /\ reply' = [reply EXCEPT ![id] = "none"]
    /\ used' = IF reply[id] \in Answers THEN Freed(1) ELSE used
    /\ UNCHANGED <<notCaller, expired, commands, hist>>

(* recv_deadline: the deadline passed, or every reply sender was dropped. *)
DeadlinePassed(id) == id \in expired

CallTimeout(id) ==
    /\ call[id] = "waiting" /\ reply[id] = "none" /\ DeadlinePassed(id)
    /\ call' = [call EXCEPT ![id] = "timedOut"]
    /\ UNCHANGED <<notCaller, reply, expired, commands, used, hist>>

CallDisconnected(id) ==
    /\ call[id] = "waiting" /\ reply[id] = "none"
    /\ id \notin pending /\ ~QueuedCall(id)
    /\ call' = [call EXCEPT ![id] = "closed"]
    /\ UNCHANGED <<notCaller, reply, expired, commands, used, hist>>

(* notify, respond_success, respond_error: fire and forget.  The responses    *)
(* are sent without a look at closed.                                        *)
SendFrame ==
    /\ Usable /\ router # "done" /\ CommandRoom
    /\ MoreTraffic /\ hist.frames < MaxFrames
    /\ commands' = Append(commands, Msg("frame", 0))
    /\ hist' = [hist EXCEPT !.frames = @ + 1]
    /\ UNCHANGED <<notCaller, callerVars, reply, used>>

(* Time passes the deadline of a request. *)
Expire(id) ==
    /\ call[id] = "waiting" /\ id \notin expired
    /\ expired' = expired \cup {id}
    /\ UNCHANGED <<notCaller, call, reply, commands, used, hist>>

-----------------------------------------------------------------------------
(* Consumer: try_recv_event, and the guard that keeps the lease. *)

ConsumerReceive ==
    /\ Usable /\ consumer = NoMsg /\ events # <<>>
    /\ LET e == Head(events) IN
         /\ events' = Tail(events)
         /\ consumer' = IF Leased(e) THEN e ELSE NoMsg
         /\ noticed' = (noticed \/ e.kind = "disconnected")
         /\ hist' = CASE e.kind \in {"request", "semantic"} ->
                           [hist EXCEPT !.delivered = @ \cup {e.n}]
                      [] e.kind = "lossy" -> [hist EXCEPT !.lossySeen = @ + 1]
                      [] e.kind = "dropped" -> [hist EXCEPT !.dropSeen = @ + e.n]
                      [] OTHER -> hist
    /\ UNCHANGED <<notConsumer, used>>

ConsumerDone ==
    /\ consumer # NoMsg
    /\ consumer' = NoMsg
    /\ used' = Freed(1)
    /\ UNCHANGED <<notConsumer, events, noticed, hist>>

(* The channel is empty and its sender is gone: Err(TransportClosed). *)
EventsClosed == events = <<>> /\ router = "done"

ConsumerClosed ==
    /\ Usable /\ consumer = NoMsg /\ EventsClosed /\ ~noticed
    /\ noticed' = TRUE
    /\ UNCHANGED <<notConsumer, events, used, consumer, hist>>
-----------------------------------------------------------------------------
(* Reader: routed_stdout_reader.  The child's frames are chosen as they are *)
(* read: what it sent earlier waits in the pipe, also after it exited.      *)

(* A lease is taken at once for a best-effort notification, or the drop is  *)
(* counted for the router; every other frame waits for one.                 *)
ReaderReadLossy ==
    /\ reader = "read" /\ MoreTraffic /\ hist.lossy < MaxLossy
    /\ hist' = [hist EXCEPT !.lossy = @ + 1]
    /\ \/ /\ BudgetRoom
          /\ used' = used + 1 /\ item' = Msg("lossy", 0) /\ reader' = "send"
          /\ UNCHANGED readerDropped
       \/ /\ ~BudgetRoom
          /\ readerDropped' = readerDropped + 1
          /\ UNCHANGED <<used, item, reader>>
    /\ UNCHANGED <<notReader, incoming>>

ReaderReadFrame ==
    /\ reader = "read"
    /\ \/ \E id \in written \ hist.answered, kind \in AnswerKinds :
             /\ item' = Msg(kind, id)
             /\ hist' = [hist EXCEPT !.answered = @ \cup {id}]
       \/ \E kind \in {"request", "semantic"} :
             /\ MoreTraffic /\ hist.produced < MaxEvents
             /\ item' = Msg(kind, hist.produced + 1)
             /\ hist' = [hist EXCEPT !.produced = @ + 1]
       \/ item' = Msg("badId", 0) /\ UNCHANGED hist
    /\ reader' = "acquire"
    /\ UNCHANGED <<notReader, incoming, readerDropped, used>>

(* An undecodable or oversized frame, or the end of the child's stdout. *)
ReaderReadFinal ==
    /\ reader = "read"
    /\ item' \in {Msg("error", 0)} \cup (IF ServerGone THEN {Msg("eof", 0)} ELSE {})
    /\ reader' = "send"
    /\ UNCHANGED <<notReader, incoming, readerDropped, used, hist>>

(* acquire_timeout: a lease when the budget has room, Overloaded otherwise. *)
ReaderAcquire ==
    /\ reader = "acquire" /\ reader' = "send"
    /\ \/ BudgetRoom /\ used' = used + 1 /\ UNCHANGED item
       \/ ~BudgetRoom /\ item' = Msg("overloaded", 0) /\ UNCHANGED used
    /\ UNCHANGED <<notReader, incoming, readerDropped, hist>>

(* send_routed_reader_event: sent, or given up after 100 ms.  The reader     *)
(* stops when it gives up and after a final item.                            *)
ReaderSend ==
    /\ reader = "send"
    /\ \/ /\ MessageRoom
          /\ incoming' = Append(incoming, item)
          /\ reader' = IF item.kind \in FinalKinds THEN "stopped" ELSE "read"
          /\ UNCHANGED used
       \/ /\ ~MessageRoom
          /\ reader' = "stopped"
          /\ used' = IF Leased(item) THEN Freed(1) ELSE used
          /\ UNCHANGED incoming
    /\ item' = NoMsg
    /\ UNCHANGED <<notReader, readerDropped, hist>>

-----------------------------------------------------------------------------
(* Router: route_app_server and handle_routed_message. *)

(* try_send on a request's reply channel: lost when the caller has left. *)
Reply(ids, outcome) ==
    [id \in Requests |->
        IF id \in ids /\ call[id] = "waiting" THEN outcome ELSE reply[id]]

FailPendingSilently == pending' = {} /\ UNCHANGED reply
FailPending == reply' = Reply(pending, "closed") /\ pending' = {}

(* publish_drop_count: a count that does not fit is kept for later. *)
PublishDropCountOnce(count) ==
    /\ dropped' = 0
    /\ events' = IF count > 0 /\ EventsOpen /\ EventRoom
                 THEN Append(events, Msg("dropped", count)) ELSE events
PublishDropCount(count) ==
    IF count > 0 /\ EventsOpen /\ EventRoom
    THEN events' = Append(events, Msg("dropped", count)) /\ dropped' = 0
    ELSE dropped' = count /\ UNCHANGED events

(* expire_pending_requests, the merge of the reader's drops, and their       *)
(* publication, at the top of every iteration.                               *)
RouterTop ==
    /\ router = "top" /\ router' = "select"
    /\ reply' = Reply(pending \cap expired, "timedOut")
    /\ pending' = pending \ expired
    /\ readerDropped' = 0
    /\ PublishDropCount(dropped + readerDropped)
    /\ UNCHANGED <<notRouter, commands, cur, written, incoming, used, hist>>

(* The default arm of select!, after ROUTER_TICK without work.  The command  *)
(* channel is never found closed: Drop runs shutdown, which queues a command *)
(* or joins the router before the sender goes.                               *)
RouterTick ==
    /\ router = "select" /\ commands = <<>>
    /\ incoming = <<>> /\ reader # "stopped"
    /\ router' = "top"
    /\ UNCHANGED <<notRouter, queueVars, dropVars, reply, pending, cur, written,
                   used, hist>>

RefuseAndWrite(id) ==
    /\ reply' = Reply({id}, "tooMany")
    /\ cur' = Msg("call", id) /\ router' = "write"
    /\ UNCHANGED pending

Refuse(id) ==
    /\ reply' = Reply({id}, "tooMany")
    /\ router' = "top"
    /\ UNCHANGED <<pending, cur>>

RouterTakeCall ==
    /\ router = "select" /\ commands # <<>> /\ Head(commands).kind = "call"
    /\ commands' = Tail(commands)
    /\ LET id == Head(commands).n IN
         \/ ~TableRoom /\ Refuse(id)
         \/ /\ TableRoom
            /\ pending' = pending \cup {id}
            /\ cur' = Msg("call", id)
            /\ router' = "write"
            /\ UNCHANGED reply
    /\ UNCHANGED <<notRouter, dropVars, written, incoming, events, used, hist>>

RouterTakeFrame ==
    /\ router = "select" /\ commands # <<>> /\ Head(commands).kind = "frame"
    /\ commands' = Tail(commands)
    /\ cur' = Head(commands)
    /\ router' = "write"
    /\ UNCHANGED <<notRouter, dropVars, reply, pending, written, incoming, events,
                   used, hist>>

RouterTakeShutdown ==
    /\ router = "select" /\ commands # <<>> /\ Head(commands).kind = "shutdown"
    /\ commands' = Tail(commands)
    /\ FailPending
    /\ cur' = Msg("shutdown", 0)
    /\ router' = "closing"
    /\ UNCHANGED <<notRouter, dropVars, written, incoming, events, used, hist>>

(* write_router_frame, of the frame in cur.  A child that hangs may leave    *)
(* room in its pipe for this frame or none at all.                           *)
WriteSucceeds ==
    /\ router = "write"
    /\ written' = IF cur.kind = "call" THEN written \cup {cur.n} ELSE written
    /\ hist' = IF cur.kind = "reject" THEN [hist EXCEPT !.rejected = @ \cup {cur.n}]
                                      ELSE hist
    /\ cur' = NoMsg /\ router' = "top"
    /\ UNCHANGED <<notRouter, queueVars, dropVars, reply, pending, used>>

RouterWrite == server = "running" /\ WriteSucceeds
RouterWriteHung == server = "hung" /\ WriteSucceeds

RouterWriteFails ==
    /\ router = "write" /\ ServerGone
    /\ reply' = [id \in Requests |->
                   IF cur = Msg("call", id) /\ call[id] = "waiting" THEN "transport"
                   ELSE Reply(pending, "closed")[id]]
    /\ pending' = {}
    /\ cur' = NoMsg /\ router' = "closing"
    /\ UNCHANGED <<notRouter, queueVars, dropVars, written, used, hist>>

(* A response: routed to its request, or ignored when that is gone.          *)
LeaseKept(delivered) == used
LeaseAfterAnswer(delivered) == IF delivered THEN used ELSE Freed(1)

RouterTakeAnswer ==
    /\ router = "select" /\ incoming # <<>> /\ Head(incoming).kind \in AnswerKinds
    /\ LET id == Head(incoming).n
           delivered == id \in pending /\ call[id] = "waiting"
       IN  /\ reply' = Reply({id} \cap pending,
                             IF Head(incoming).kind = "success" THEN "ok" ELSE "rejected")
           /\ pending' = pending \ {id}
           /\ used' = LeaseAfterAnswer(delivered)
    /\ incoming' = Tail(incoming)
    /\ router' = "top"
    /\ UNCHANGED <<notRouter, dropVars, commands, cur, written, events, hist>>

(* A request or a notification: it becomes an event; a notification is       *)
(* preceded by the count of those dropped before it, if that fits.           *)
RouterTakeEvent ==
    /\ router = "select" /\ incoming # <<>> /\ Head(incoming).kind \in EventKinds
    /\ incoming' = Tail(incoming)
    /\ cur' = Head(incoming)
    /\ router' = "publish"
    /\ IF cur'.kind = "request" THEN UNCHANGED <<events, dropped>>
                                ELSE PublishDropCount(dropped)
    /\ UNCHANGED <<notRouter, reply, commands, pending, written, readerDropped,
                   used, hist>>

NextIteration == cur' = NoMsg /\ router' = "top"

Published ==
    /\ router = "publish" /\ EventsOpen /\ EventRoom
    /\ events' = Append(events, cur)
    /\ NextIteration
    /\ UNCHANGED <<notRouter, dropVars, reply, commands, pending, written, incoming,
                   used, hist>>

(* The event queue stayed full, or its receiver is gone: a request is        *)
(* rejected to the child, a best-effort notification is counted as dropped   *)
(* and a semantic one takes the connection down.                             *)
NotPublished ==
    /\ router = "publish"
    /\ ~EventsOpen \/ ~EventRoom
    /\ used' = Freed(1)
    /\ \/ /\ cur.kind = "request"
          /\ cur' = Msg("reject", cur.n) /\ router' = "write"
          /\ UNCHANGED <<reply, pending, dropped>>
       \/ /\ cur.kind # "request" /\ ~RequiresResync(cur) /\ EventsOpen
          /\ dropped' = dropped + 1
          /\ cur' = NoMsg /\ router' = "top"
          /\ UNCHANGED <<reply, pending>>
       \/ /\ cur.kind # "request" /\ (RequiresResync(cur) \/ ~EventsOpen)
          /\ FailPending
          /\ cur' = NoMsg /\ router' = "closing"
          /\ UNCHANGED dropped
    /\ UNCHANGED <<notRouter, queueVars, written, readerDropped, hist>>

(* A response id that is no integer, the reader's last word, or its silence. *)
RouterIncomingFails ==
    /\ router = "select"
    /\ \/ /\ incoming # <<>> /\ Head(incoming).kind \in FinalKinds \cup {"badId"}
          /\ incoming' = Tail(incoming)
          /\ used' = IF Leased(Head(incoming)) THEN Freed(1) ELSE used
       \/ incoming = <<>> /\ reader = "stopped" /\ UNCHANGED <<incoming, used>>
    /\ FailPending
    /\ router' = "closing"
    /\ UNCHANGED <<notRouter, dropVars, commands, cur, written, events, hist>>

(* ManagedChild::shutdown: stdin is closed, and the child exits or is killed. *)
ChildShutdown == "reaped"

RouterReapChild ==
    /\ router = "closing"
    /\ server' = ChildShutdown /\ router' = "join"
    /\ UNCHANGED <<callerVars, readerVars, ownerVars, consumerVars, queueVars,
                   dropVars, reply, pending, cur, written, used, shutdownReply, hist>>

(* The reader is joined, shutdown is answered, Disconnected is offered, and  *)
(* the router returns: what its channels still hold is discarded.            *)
NotJoined == TRUE
ReaderJoined == reader = "stopped"
QueueKept(queue) == queue
Discarded(queue) == <<>>

RouterFinish ==
    /\ router = "join" /\ ReaderJoined
    /\ router' = "done" /\ cur' = NoMsg
    /\ shutdownReply' = IF cur.kind = "shutdown" THEN "ok" ELSE shutdownReply
    /\ events' = IF EventsOpen /\ EventRoom
                 THEN Append(events, Msg("disconnected", 0)) ELSE events
    /\ commands' = Discarded(commands) /\ incoming' = <<>>
    /\ used' = Freed(LeasesIn(incoming))
    /\ UNCHANGED <<callerVars, readerVars, server, ownerVars, consumerVars, dropVars, reply,
                   pending, written, hist>>
-----------------------------------------------------------------------------
(* The child process, outside this program. *)

ServerExit ==
    /\ server \in {"running", "hung"} /\ server' = "exited"
    /\ UNCHANGED <<callerVars, readerVars, ownerVars, consumerVars, queueVars,
                   dropVars, reply, pending, router, cur, written, used, shutdownReply, hist>>

ServerHang ==
    /\ MayHang /\ server = "running" /\ server' = "hung"
    /\ UNCHANGED <<callerVars, readerVars, ownerVars, consumerVars, queueVars,
                   dropVars, reply, pending, router, cur, written, used, shutdownReply, hist>>

-----------------------------------------------------------------------------
(* Owner: AppServerConnection::shutdown and Drop.  Both borrow the connection *)
(* exclusively, so no request is in flight when they start.                   *)

ShutdownStart ==
    /\ owner = "open" /\ \A id \in Requests : ~InFlight(id)
    /\ owner' = "sending"
    /\ UNCHANGED <<notOwner, commands, events, used, result>>

ShutdownEnqueue ==
    /\ owner = "sending" /\ router # "done" /\ CommandRoom
    /\ owner' = "awaiting"
    /\ commands' = Append(commands, Msg("shutdown", 0))
    /\ UNCHANGED <<notOwner, events, used, result>>

(* The send failed or timed out: TransportClosed, but the router is joined.  *)
ShutdownNotQueued ==
    /\ owner = "sending" /\ (router = "done" \/ ~CommandRoom)
    /\ owner' = "joining" /\ result' = "error"
    /\ UNCHANGED <<notOwner, commands, events, used>>

ShutdownAnswered ==
    /\ owner = "awaiting" /\ shutdownReply = "ok"
    /\ owner' = "joining" /\ result' = "ok"
    /\ UNCHANGED <<notOwner, commands, events, used>>

(* No answer in shutdown_timeout + 1 s: an early return, with no join.       *)
ShutdownGivesUp ==
    /\ owner = "awaiting" /\ shutdownReply = "none"
    /\ owner' = "abandoned" /\ result' = "error"
    /\ UNCHANGED <<notOwner, commands, events, used>>

ShutdownJoined ==
    /\ owner = "joining" /\ router = "done"
    /\ owner' = "returned"
    /\ UNCHANGED <<notOwner, commands, events, used, result>>

(* The connection is freed: its ends of the command and event channels go.   *)
DropConnection ==
    /\ owner \in {"returned", "abandoned"} /\ \A id \in Requests : ~InFlight(id)
    /\ owner' = "dropped"
    /\ events' = <<>>
    /\ used' = Freed(LeasesIn(events))
    /\ UNCHANGED <<notOwner, commands, result>>

-----------------------------------------------------------------------------
CallerStep(id) ==
    \/ CallStart(id) \/ CallEnqueue(id) \/ CallNotQueued(id) \/ CallReceive(id)
    \/ CallTimeout(id) \/ CallDisconnected(id) \/ Expire(id)

ConsumerStep == ConsumerReceive \/ ConsumerDone \/ ConsumerClosed

ReaderStep ==
    \/ ReaderReadLossy \/ ReaderReadFrame \/ ReaderReadFinal
    \/ ReaderAcquire \/ ReaderSend

RouterStep ==
    \/ RouterTop \/ RouterTick
    \/ RouterTakeCall \/ RouterTakeFrame \/ RouterTakeShutdown
    \/ RouterWrite \/ RouterWriteHung \/ RouterWriteFails
    \/ RouterTakeAnswer \/ RouterTakeEvent \/ Published \/ NotPublished
    \/ RouterIncomingFails \/ RouterReapChild \/ RouterFinish

OwnerStep ==
    \/ ShutdownStart \/ ShutdownEnqueue \/ ShutdownNotQueued \/ ShutdownAnswered
    \/ ShutdownGivesUp \/ ShutdownJoined \/ DropConnection

Next ==
    \/ \E id \in Requests : CallerStep(id)
    \/ SendFrame \/ ConsumerStep \/ ReaderStep \/ RouterStep
    \/ ServerExit \/ ServerHang \/ OwnerStep

Spec == Init /\ [][Next]_vars

(* Fairness.  The program's own threads keep running: the router unless it   *)
(* blocks in a write to a child that hangs, the reader except that the child *)
(* owes it no frame, an owner that has started to shut down, and the         *)
(* consumer, which polls.  select! picks at random among the ready channels, *)
(* so a command that stays ready is taken (strong fairness).  Callers return *)
(* once their reply is there or its sender is gone.                          *)
RouterFairness ==
    /\ WF_vars(RouterTop \/ RouterTick \/ RouterWrite \/ RouterWriteFails
               \/ RouterTakeAnswer \/ RouterTakeEvent \/ Published \/ NotPublished
               \/ RouterIncomingFails \/ RouterReapChild \/ RouterFinish)
    /\ SF_vars(RouterTakeCall \/ RouterTakeFrame \/ RouterTakeShutdown)
    /\ SF_vars(RouterIncomingFails)

ReaderFairness ==
    /\ WF_vars(ReaderAcquire \/ ReaderSend)
    /\ WF_vars(ServerGone /\ ReaderReadFinal)

OwnerFairness ==
    WF_vars(ShutdownEnqueue \/ ShutdownNotQueued \/ ShutdownAnswered
            \/ ShutdownJoined \/ (router = "done" /\ ShutdownGivesUp))

CallerFairness ==
    \A id \in Requests :
        WF_vars(CallEnqueue(id) \/ CallNotQueued(id) \/ CallReceive(id)
                \/ CallDisconnected(id))

FairSpec ==
    /\ Spec
    /\ RouterFairness /\ ReaderFairness /\ OwnerFairness /\ CallerFairness
    /\ WF_vars(ConsumerStep)

(* The passage of time: deadlines come, and recv_deadline returns then.      *)
DeadlinesPass ==
    \A id \in Requests : WF_vars(Expire(id)) /\ WF_vars(CallTimeout(id))
-----------------------------------------------------------------------------
(* Properties. *)

CallStates == {"idle", "sending", "waiting"} \cup Outcomes
ReplyStates == {"none", "tooMany"} \cup Answers \cup Failures
CommandSet == [kind : {"call", "frame", "shutdown"}, n : 0..MaxRequests]
MsgSet == [kind : FrameKinds \cup FinalKinds, n : Nat]
EventSet == [kind : EventKinds \cup {"dropped", "disconnected"}, n : Nat]
HistSet == [produced : Nat, lossy : Nat, frames : Nat, answered : SUBSET Requests,
            delivered : SUBSET Nat, rejected : SUBSET Nat, lossySeen : Nat, dropSeen : Nat]
CurSet == [kind : EventKinds \cup {"none", "call", "frame", "reject", "shutdown"}, n : Nat]

(* Every variable keeps its type, and the channels and the table of pending  *)
(* requests stay within the capacities they were created with.               *)
TypeOK ==
    /\ call \in [Requests -> CallStates]
    /\ reply \in [Requests -> ReplyStates]
    /\ expired \subseteq Requests /\ pending \subseteq Requests /\ written \subseteq Requests
    /\ commands \in Seq(CommandSet) /\ Len(commands) <= CommandCapacity
    /\ incoming \in Seq(MsgSet) /\ Len(incoming) <= MessageCapacity
    /\ events \in Seq(EventSet) /\ Len(events) <= EventCapacity
    /\ Cardinality(pending) <= MaxPending
    /\ router \in {"top", "select", "publish", "write", "closing", "join", "done"}
    /\ cur \in CurSet
    /\ reader \in {"read", "acquire", "send", "stopped"}
    /\ item \in MsgSet \cup {NoMsg}
    /\ dropped \in Nat /\ readerDropped \in Nat /\ used \in 0..ByteLimit
    /\ server \in {"running", "hung", "exited", "reaped"}
    /\ owner \in {"open", "sending", "awaiting", "joining", "returned", "abandoned",
                  "dropped"}
    /\ shutdownReply \in {"none", "ok"} /\ result \in {"none", "ok", "error"}
    /\ consumer \in EventSet \cup {NoMsg} /\ noticed \in BOOLEAN
    /\ hist \in HistSet

(* What the program counters say about the message in hand, and where the    *)
(* answers in transit come from.                                             *)
ControlOK ==
    /\ router = "publish" <=> cur.kind \in EventKinds
    /\ router = "write" <=> cur.kind \in {"call", "frame", "reject"}
    /\ cur.kind = "call" => cur.n \in pending
    /\ router \in {"closing", "join", "done"} => pending = {}
    /\ reader = "acquire" => item.kind \in FrameKinds
    /\ reader = "send" => item \in MsgSet
    /\ item.kind \in AnswerKinds => item.n \in written
    /\ \A i \in DOMAIN incoming : incoming[i].kind \in AnswerKinds => incoming[i].n \in written

(* Where a request is, against what its caller has been told.                *)
CallOK(id) ==
    /\ QueuedCall(id) => /\ call[id] \in {"waiting", "timedOut"}
                         /\ reply[id] = "none" /\ id \notin pending \cup written
    /\ id \in pending => call[id] \in {"waiting", "timedOut"} /\ reply[id] = "none"
    /\ reply[id] # "none" => call[id] = "waiting"
    /\ id \in pending \cup written =>
          call[id] \notin {"idle", "sending"} \cup Refusals /\ reply[id] # "tooMany"
    /\ call[id] = "waiting" /\ router # "done" =>
          QueuedCall(id) \/ id \in pending \/ reply[id] # "none"
    /\ call[id] \in Answers \/ reply[id] \in Answers => id \in written

(* No request is queued twice. *)
CommandsDistinct ==
    \A i, j \in DOMAIN commands :
        commands[i].kind = "call" =>
            commands[i].n \in Requests /\ (commands[i] = commands[j] => i = j)

CallsOK == CommandsDistinct /\ \A id \in Requests : CallOK(id)

(* The inductive invariant behind the two properties that follow.            *)
IInv == TypeOK /\ ControlOK /\ CallsOK

(* A thread that waits for a reply is never orphaned while the router lives: *)
(* its reply sender is in exactly one place, the command channel, the        *)
(* pending table or the reply channel it has just been used on.  Otherwise   *)
(* the caller would see a live transport as closed, or get two replies.      *)
NoOrphanedCall ==
    \A id \in Requests :
        /\ call[id] = "waiting" /\ router # "done" =>
             QueuedCall(id) \/ id \in pending \/ reply[id] # "none"
        /\ id \in pending => ~QueuedCall(id) /\ reply[id] = "none"
        /\ QueuedCall(id) => reply[id] = "none"

(* CommandQueueFull and TooManyPendingRequests are refusals: the request was *)
(* not sent to the app-server and never will be, so a retry cannot run the   *)
(* operation twice.                                                          *)
RefusedIsNeverSent ==
    \A id \in Requests :
        call[id] \in Refusals \/ reply[id] = "tooMany" =>
            id \notin written /\ id \notin pending /\ ~QueuedCall(id)

(* The ingress budget counts exactly the frames that are still alive         *)
(* somewhere between the reader and the consumers of replies and events:     *)
(* no lease leaks and none is returned twice, whichever way a frame ends.    *)
HeldLeases ==
    LeasesIn(incoming) + LeasesIn(events)
    + Cardinality({id \in Requests : reply[id] \in Answers})
    + (IF reader = "send" /\ Leased(item) THEN 1 ELSE 0)
    + (IF router = "publish" THEN 1 ELSE 0)
    + (IF consumer # NoMsg THEN 1 ELSE 0)

NoLeaseLeak == used = HeldLeases

(* Must-deliver frames reach the consumer in the order sent and without a    *)
(* gap: when one is received, every earlier one has been received too, or is *)
(* a request that was rejected to the app-server.  A semantic notification   *)
(* that cannot be delivered ends the connection instead of leaving a hole.   *)
NoGapInEvents ==
    \A n \in hist.delivered : \A m \in 1..(n - 1) : m \in hist.delivered \cup hist.rejected

(* An app-server request is answered as overloaded only if the application   *)
(* will not also see it: the same approval is never both rejected here and   *)
(* put before the user.                                                      *)
NeverRejectedAndDelivered ==
    /\ hist.rejected \cap hist.delivered = {}
    /\ \A i \in DOMAIN events : events[i].kind \in {"request", "semantic"} =>
           events[i].n \notin hist.rejected

DropCounts == [i \in DOMAIN events |-> IF events[i].kind = "dropped" THEN events[i].n ELSE 0]
LossyIn(s) == Cardinality({i \in DOMAIN s : s[i].kind = "lossy"})

(* While the connection is up, every best-effort notification the child sent *)
(* is delivered, on its way, or part of a count the consumer got or will be  *)
(* offered: NotificationsDropped never under- or over-reports.               *)
DropAccounting ==
    RouterRunning /\ reader # "stopped" /\ EventsOpen =>
        hist.lossy = hist.lossySeen + hist.dropSeen + dropped + readerDropped
                     + SumFunction(DropCounts) + LossyIn(events) + LossyIn(incoming)
                     + LossyIn(<<cur, item>>)

(* What the consumer sees of the child's notifications and requests is       *)
(* faithful: no hole, no request both rejected and shown, no false count.    *)
EventsAreFaithful == NoGapInEvents /\ NeverRejectedAndDelivered /\ DropAccounting

(* Disconnected is the last event, and when it is offered nobody can be      *)
(* answered any more: the pending table is empty.                            *)
DisconnectedIsLast ==
    /\ \A i \in DOMAIN events : events[i].kind = "disconnected" => i = Len(events)
    /\ (\E i \in DOMAIN events : events[i].kind = "disconnected") =>
           router = "done" /\ pending = {} /\ server = "reaped"

(* When shutdown reports success the child is reaped and both threads have   *)
(* ended.                                                                    *)
ShutdownOkMeansReaped ==
    owner \in {"returned", "dropped"} /\ result = "ok" =>
        server = "reaped" /\ reader = "stopped" /\ router = "done"

(* The end of a connection is orderly, seen by its owner and its consumer.   *)
EndIsOrderly == DisconnectedIsLast /\ ShutdownOkMeansReaped

(* Once the router has ended, no caller is left waiting: replies not yet     *)
(* sent are replaced by the closing of their channels, without any deadline. *)
RouterDeathReleasesCallers ==
    \A id \in Requests : router = "done" /\ InFlight(id) ~> ~InFlight(id)

(* A request never outlives its deadline, whatever the child does.           *)
EveryCallReturns ==
    DeadlinesPass => \A id \in Requests : InFlight(id) ~> ~InFlight(id)

(* The end of the connection is always noticed, by the Disconnected event or *)
(* by the closed channel when that event did not fit.                        *)
DeathIsNoticed == router = "done" ~> noticed \/ ~Usable

(* A shutdown command that was queued ends the child and the router, if the  *)
(* child does not hang.                                                      *)
QueuedShutdownReaps ==
    owner = "awaiting" ~> server = "hung" \/ (server = "reaped" /\ router = "done")

(* Nobody waits for ever: a caller for its reply, whoever waits on a router  *)
(* that has ended, the consumer of the events, the owner who shuts down.     *)
NobodyWaitsForEver ==
    EveryCallReturns /\ RouterDeathReleasesCallers /\ DeathIsNoticed /\ QueuedShutdownReaps

(* docs/architecture.md:57: "perform one graceful shutdown, followed by one  *)
(* bounded process-tree termination fallback": shutting down ends the child. *)
ShutdownEndsChild == owner = "sending" ~> ServerGone
-----------------------------------------------------------------------------
(* The connection implements the contract of RequestContract.                *)

PhaseOf(c) == CASE c \in {"sending", "waiting"} -> "open"
                [] c \in Answers -> "answered"
                [] c \in Refusals -> "refused"
                [] c \in Failures -> "failed"
                [] OTHER -> "idle"

Phase == [id \in Requests |-> PhaseOf(call[id])]

Contract == INSTANCE RequestContract WITH phase <- Phase, sent <- written

(* Every behaviour of the connection is one of the contract: no interleaving *)
(* of callers, router, reader, crash and shutdown lets a refused request run *)
(* or an answer come from a request that was not sent.                       *)
ImplementsContract == Contract!Spec
=============================================================================
