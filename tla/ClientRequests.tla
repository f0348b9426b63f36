---------------------------- MODULE ClientRequests ----------------------------
(***************************************************************************)
(* The requests an app-server makes of the client (command, file-change    *)
(* and permission approvals, Computer Use tools, structured input and MCP  *)
(* elicitations) from their arrival to their answer:                       *)
(*                                                                         *)
(*   event -> pending_approvals (backend.rs) -> event queue -> the queues  *)
(*   of cards of the reducer (codex-core) -> the user -> command queue ->  *)
(*   pending_approvals -> answer                                           *)
(*                                                                         *)
(* A request is what its card shows; the backend and the reducer know it   *)
(* by its id alone.  The app-server numbers its requests, and the one that *)
(* takes its place after a reconnection numbers its own from the start.    *)
(*                                                                         *)
(* Data abstraction: what a request asks and what the user decides are not *)
(* modelled, status lines and the other actions of the queues only as room *)
(* they take, and reconnecting (ConnectionRecovery) as a single step.      *)
(***************************************************************************)
EXTENDS Naturals, Sequences, FiniteSets

CONSTANTS
    MaxPending,       \* MAX_PENDING_APPROVALS and the two limits equal to it
    CommandCapacity,  \* BACKEND_COMMAND_CAPACITY
    EventCapacity,    \* BACKEND_EVENT_CAPACITY
    MaxAsks,          \* bound: requests of one app-server
    MaxRequests,      \* bound: requests of all app-servers together
    MaxServers,       \* bound: app-servers, one after the other
    MaxFailures,      \* bound: answers that cannot be handed to the router
    MaxEscapes,       \* bound: Computer Use turns stopped by the Escape key
    MaxArchives       \* bound: chats archived with an approval waiting

ASSUME CapacityAssumption ==
    {MaxPending, CommandCapacity, EventCapacity, MaxAsks, MaxRequests, MaxServers}
        \subseteq Nat \ {0}

ASSUME BoundsAssumption == {MaxFailures, MaxEscapes, MaxArchives} \subseteq Nat

VARIABLES
    server,      \* which app-server is the current or the last one
    up,          \* whether run_backend holds a connection to it
    asked,       \* what it has asked, in order
    read,        \* how many of these the backend has looked at
    answers,     \* the answers sent to it, and on what they are based
    pending,     \* pending_approvals: a request for each id
    cancelling,  \* the entries an Escape is still to cancel
    events,      \* the event channel
    lossPending, \* connection_lost_pending, which overtakes it
    online,      \* the reducer takes the connection to be up
    cards,       \* AppState::approvals, user_input_requests, mcp_elicitations
    commands,    \* the command channel
    forgotten,   \* ids whose card, answer or decision was given up
    count        \* what the environment has done so far

serverVars == <<server, up, asked, read>>
uiVars     == <<online, cards>>
vars == <<serverVars, answers, pending, cancelling, events, lossPending, uiVars,
          commands, forgotten, count>>

Kinds == {"approval", "tool", "input", "mcp"}
Ids   == 1..MaxAsks
Requests == [server : 1..MaxServers, id : Ids, kind : Kinds]

(* Approvals and tools share a queue of cards and are answered alike. *)
Queues == {"approvals", "inputs", "elicitations"}
QueueOf(r) == CASE r.kind \in {"approval", "tool"} -> "approvals"
                [] r.kind = "input"                -> "inputs"
                [] r.kind = "mcp"                  -> "elicitations"
Fits(card, r) == QueueOf(card) = QueueOf(r)

(* An answer the client gives on its own authority has no card. *)
Client == [server |-> 0, id |-> 0, kind |-> "client"]
Answer(r, basis) == [to |-> r, basis |-> basis]
IsAnswered(r) == \E i \in DOMAIN answers : answers[i].to = r
IsPending(r)  == r.id \in DOMAIN pending /\ pending[r.id] = r

Elements(s) == {s[i] : i \in DOMAIN s}
Empty == [id \in {} |-> {}]
With(r) == [id \in DOMAIN pending \cup {r.id} |-> IF id = r.id THEN r ELSE pending[id]]
Without(id) == [other \in DOMAIN pending \ {id} |-> pending[other]]

EventRoom == Len(events) < EventCapacity
BackendFree == cancelling = {}

Ask(r)       == [kind |-> "ask", request |-> r, id |-> r.id]
Resolve(id)  == [kind |-> "resolve", id |-> id]
Lost         == [kind |-> "lost"]
Connected    == [kind |-> "connected"]

Counted(what, bound) ==
    /\ count[what] < bound
    /\ count' = [count EXCEPT ![what] = @ + 1]

Init ==
    /\ server = 1 /\ up = TRUE /\ asked = <<>> /\ read = 0 /\ answers = <<>>
    /\ pending = Empty /\ cancelling = {}
    /\ events = <<>> /\ lossPending = FALSE
    /\ online = TRUE /\ cards = [q \in Queues |-> <<>>]
    /\ commands = <<>> /\ forgotten = {}
    /\ count = [asks |-> 0, failures |-> 0, escapes |-> 0, archives |-> 0]

-----------------------------------------------------------------------------
(* The app-server. *)

ServerAsks ==
    /\ up /\ Len(asked) < MaxAsks
    /\ Counted("asks", MaxRequests)
    /\ \E kind \in Kinds :
         asked' = Append(asked, [server |-> server, id |-> Len(asked) + 1, kind |-> kind])
    /\ UNCHANGED <<server, up, read, answers, pending, cancelling, events, lossPending,
                   uiVars, commands, forgotten>>

-----------------------------------------------------------------------------
(* The backend. *)

(* A frame is handed to the router, or it is refused after 100 ms. *)
Sent(r, basis) == answers' = Append(answers, Answer(r, basis)) /\ UNCHANGED count
NotSent        == Counted("failures", MaxFailures) /\ UNCHANGED answers

(* UiEventSender::emit, for an action about the request of this id. *)
EmitAbout(id, action) ==
    IF EventRoom
    THEN events' = Append(events, action) /\ UNCHANGED forgotten
    ELSE forgotten' = forgotten \cup {id} /\ UNCHANGED events

Unread == read < Len(asked)
Receive == up /\ BackendFree /\ Unread /\ read' = read + 1
Received == asked[read + 1]

RegistrableOffByOne(r) ==
    /\ Cardinality(DOMAIN pending) <= MaxPending
    /\ r.id \notin DOMAIN pending

Registrable(r) ==
    /\ Cardinality(DOMAIN pending) < MaxPending
    /\ r.id \notin DOMAIN pending

(* The client answers by itself: the table is full, the id is taken, the     *)
(* request is malformed, or it is settled already (nothing to grant, an app  *)
(* or a site allowed or blocked).  Nothing looks at whether this succeeds.   *)
AnswerAtOnce ==
    /\ Receive
    /\ \/ Sent(Received, Client) /\ UNCHANGED forgotten
       \/ NotSent /\ forgotten' = forgotten \cup {Received.id}
    /\ UNCHANGED <<server, up, asked, pending, cancelling, events, lossPending,
                   uiVars, commands>>

Register ==
    /\ Receive /\ Registrable(Received) /\ EventRoom
    /\ pending' = With(Received) /\ events' = Append(events, Ask(Received))
    /\ UNCHANGED <<server, up, asked, answers, cancelling, lossPending, uiVars,
                   commands, forgotten, count>>

(* connection.take() and pending_approvals.clear(). *)
Gone == up' = FALSE /\ asked' = <<>> /\ read' = 0 /\ answers' = <<>> /\ UNCHANGED server
DropServer     == Gone /\ pending' = Empty

(* The request cannot be delivered to the UI: the connection is given up. *)
Overload ==
    /\ up /\ BackendFree /\ Unread /\ Registrable(Received) /\ ~EventRoom
    /\ lossPending' = TRUE
    /\ DropServer
    /\ UNCHANGED <<cancelling, events, uiVars, commands, forgotten, count>>

(* The app-server ends, which shows after its last request: announced in the *)
(* queue if there is room, or by the flag.                                   *)
ServerEnds ==
    /\ up /\ BackendFree /\ ~Unread
    /\ \/ EventRoom /\ events' = Append(events, Lost) /\ UNCHANGED lossPending
       \/ lossPending' = TRUE /\ UNCHANGED events
    /\ DropServer
    /\ UNCHANGED <<cancelling, uiVars, commands, forgotten, count>>

(* A Bedrock sign-in shuts the app-server down to start another; the UI is   *)
(* told nothing of the requests that end with it.                            *)
StartBedrockLogin ==
    /\ up /\ BackendFree
    /\ DropServer
    /\ UNCHANGED <<cancelling, events, lossPending, uiVars, commands, forgotten, count>>

Reconnect ==
    /\ ~up /\ BackendFree /\ server < MaxServers
    /\ server' = server + 1 /\ up' = TRUE
    /\ events' = IF EventRoom THEN Append(events, Connected) ELSE events
    /\ UNCHANGED <<asked, read, answers, pending, cancelling, lossPending, uiVars,
                   commands, forgotten, count>>

(* A decision arrives: respond_to_approval, respond_to_user_input and the    *)
(* responses to elicitations.  seen is the card the user decided on, card    *)
(* the one the reducer found for its id.                                     *)
Arrives(decision) ==
    /\ BackendFree /\ commands # <<>> /\ decision = Head(commands)
    /\ commands' = Tail(commands)

AnswerableById(card) == card.id \in DOMAIN pending
Answerable(card)     == card.id \in DOMAIN pending /\ Fits(card, pending[card.id])

notRespond == <<serverVars, cancelling, lossPending, uiVars>>

RespondOffline ==
    /\ ~up /\ Arrives(Head(commands))
    /\ events' = IF EventRoom THEN Append(events, Lost) ELSE events
    /\ UNCHANGED <<notRespond, answers, pending, forgotten, count>>

(* The entry is gone, or it is of another kind and is put back. *)
RespondIgnored ==
    /\ up /\ Arrives(Head(commands)) /\ ~Answerable(Head(commands).card)
    /\ UNCHANGED <<notRespond, answers, pending, events, forgotten, count>>

Respond ==
    /\ up /\ Arrives(Head(commands)) /\ Answerable(Head(commands).card)
    /\ LET decision == Head(commands)
           id == decision.card.id
       IN  Sent(pending[id], decision.seen) /\ pending' = Without(id)
    /\ UNCHANGED <<notRespond, events, forgotten>>

(* The answer was not accepted.  The entry and its card are restored, except *)
(* that a Computer Use tool has been run or refused by then and is not.      *)
GivenUp(card) ==
    /\ pending' = Without(card.id)
    /\ forgotten' = forgotten \cup {card.id}
    /\ UNCHANGED events

RestoredNothing(card) ==
    IF pending[card.id].kind = "tool" THEN GivenUp(card)
    ELSE pending' = Without(card.id) /\ UNCHANGED <<events, forgotten>>

RestoredWithoutCard(card) ==
    IF pending[card.id].kind = "tool" THEN GivenUp(card)
    ELSE UNCHANGED <<pending, events, forgotten>>

Restored(card) ==
    IF pending[card.id].kind = "tool" THEN GivenUp(card)
    ELSE /\ UNCHANGED pending
         /\ IF card.kind = "tool" THEN UNCHANGED <<events, forgotten>>
            ELSE EmitAbout(card.id, Ask(card))

RespondFails ==
    /\ up /\ Arrives(Head(commands)) /\ Answerable(Head(commands).card)
    /\ NotSent
    /\ Restored(Head(commands).card)
    /\ UNCHANGED notRespond

(* handle_computer_use_interruption: the physical Escape key cancels the     *)
(* Computer Use tools that wait, and takes their cards down.                 *)
ToolsWaiting == {id \in DOMAIN pending : pending[id].kind = "tool"}

Escape ==
    /\ up /\ BackendFree /\ ToolsWaiting # {}
    /\ Counted("escapes", MaxEscapes)
    /\ cancelling' = ToolsWaiting
    /\ UNCHANGED <<serverVars, answers, pending, events, lossPending, uiVars, commands,
                   forgotten>>

CancelToolKeepingEntry ==
    \E id \in cancelling :
        /\ cancelling' = cancelling \ {id}
        /\ Sent(pending[id], Client)
        /\ EmitAbout(id, Resolve(id))
        /\ UNCHANGED <<serverVars, pending, lossPending, uiVars, commands>>

CancelTool ==
    \E id \in cancelling :
        /\ cancelling' = cancelling \ {id}
        /\ pending' = Without(id)
        /\ \/ /\ Sent(pending[id], Client)
              /\ EmitAbout(id, Resolve(id))
           \/ /\ NotSent
              /\ forgotten' = forgotten \cup {id}
              /\ events' = IF EventRoom THEN Append(events, Resolve(id)) ELSE events
        /\ UNCHANGED <<serverVars, lossPending, uiVars, commands>>

Backend ==
    \/ AnswerAtOnce \/ Register \/ Overload \/ ServerEnds
    \/ StartBedrockLogin \/ Reconnect
    \/ RespondOffline \/ RespondIgnored \/ Respond \/ RespondFails
    \/ Escape \/ CancelTool

-----------------------------------------------------------------------------
(* The UI thread, one action of its batch at a time, and its reducer. *)

notUi == <<serverVars, answers, pending, cancelling, count>>

(* What a loss does to the cards: elicitations are taken down, once. *)
Lose ==
    /\ online' = FALSE
    /\ cards' = IF online THEN [cards EXCEPT !["elicitations"] = <<>>] ELSE cards

ReduceLossFlag ==
    /\ lossPending /\ lossPending' = FALSE
    /\ Lose
    /\ UNCHANGED <<notUi, events, commands, forgotten>>

NextEvent(kind) ==
    /\ ~lossPending /\ events # <<>> /\ Head(events).kind = kind
    /\ events' = Tail(events)
    /\ UNCHANGED lossPending

ReduceConnectionLost ==
    /\ NextEvent("lost") /\ Lose
    /\ UNCHANGED <<notUi, commands, forgotten>>

ReduceConnected ==
    /\ NextEvent("connected") /\ online' = TRUE
    /\ UNCHANGED <<notUi, cards, commands, forgotten>>

(* A card for an approval is always added; for an input or an elicitation    *)
(* only if none has its id.  A full queue loses its oldest card.             *)
IsDuplicate(queue, r) ==
    /\ queue # "approvals"
    /\ \E i \in DOMAIN cards[queue] : cards[queue][i].id = r.id

Pushed(s, r) == Append(IF Len(s) = MaxPending THEN Tail(s) ELSE s, r)

ReduceAsk ==
    /\ NextEvent("ask")
    /\ LET r == Head(events).request
           queue == QueueOf(r)
       IN  cards' = IF IsDuplicate(queue, r) THEN cards
                    ELSE [cards EXCEPT ![queue] = Pushed(@, r)]
    /\ UNCHANGED <<notUi, online, commands, forgotten>>

(* The reducer resolves the first card of that id, and sends its effect;     *)
(* what does not fit in the command queue is lost.                           *)
Position(s, id) == CHOOSE i \in DOMAIN s :
                       s[i].id = id /\ \A j \in 1..(i - 1) : s[j].id # id
Remove(s, i) == [j \in 1..(Len(s) - 1) |-> IF j < i THEN s[j] ELSE s[j + 1]]

Decide(queue, id, seen) ==
    LET i == Position(cards[queue], id)
    IN  /\ cards' = [cards EXCEPT ![queue] = Remove(@, i)]
        /\ IF Len(commands) < CommandCapacity
           THEN /\ commands' = Append(commands, [card |-> cards[queue][i], seen |-> seen])
                /\ UNCHANGED forgotten
           ELSE forgotten' = forgotten \cup {id} /\ UNCHANGED commands

ReduceResolve ==
    /\ NextEvent("resolve")
    /\ LET id == Head(events).id
           shown == {i \in DOMAIN cards["approvals"] : cards["approvals"][i].id = id}
       IN  IF shown = {} THEN UNCHANGED <<cards, commands, forgotten>>
           ELSE Decide("approvals", id, cards["approvals"][Position(cards["approvals"], id)])
    /\ UNCHANGED <<notUi, online>>

(* The user decides on a card that is shown, or the countdown of a           *)
(* structured input decides for them.                                        *)
DecideOnCard ==
    /\ \E queue \in Queues : \E i \in DOMAIN cards[queue] :
         Decide(queue, cards[queue][i].id, cards[queue][i])
    /\ UNCHANGED <<notUi, online, events, lossPending>>

(* A chat is archived: its approval (one, here) is no longer shown. *)
ArchiveTask ==
    /\ Counted("archives", MaxArchives)
    /\ \E i \in DOMAIN cards["approvals"] :
         /\ cards' = [cards EXCEPT !["approvals"] = Remove(@, i)]
         /\ forgotten' = forgotten \cup {cards["approvals"][i].id}
    /\ UNCHANGED <<serverVars, answers, pending, cancelling, online, events,
                   lossPending, commands>>

UI == ReduceLossFlag \/ ReduceConnectionLost \/ ReduceConnected \/ ReduceAsk \/ ReduceResolve

(* The last app-server is gone, or it has asked all it will. *)
AllIsSaid ==
    /\ server = MaxServers /\ ~up
    /\ UNCHANGED vars

Next == ServerAsks \/ Backend \/ UI \/ DecideOnCard \/ ArchiveTask \/ AllIsSaid

Spec == Init /\ [][Next]_vars

(* The backend and the UI thread keep running, the app-server's requests are *)
(* read before its end shows, and no card is left undecided.                 *)
FairSpec ==
    /\ Spec
    /\ WF_vars(AnswerAtOnce \/ Register \/ Overload)
    /\ WF_vars(RespondOffline \/ RespondIgnored \/ Respond \/ RespondFails)
    /\ WF_vars(CancelTool) /\ WF_vars(UI) /\ WF_vars(DecideOnCard)

-----------------------------------------------------------------------------
(* Properties. *)

EventsShape(e) ==
    CASE e.kind = "ask"     -> e.request \in Requests /\ e.id = e.request.id
      [] e.kind = "resolve" -> e.id \in Ids
      [] OTHER              -> e \in {Lost, Connected}

(* The values of the variables; the tables and the queues of cards stay      *)
(* within MAX_PENDING_APPROVALS, the channels within their capacities.       *)
TypeOK ==
    /\ server \in 1..MaxServers /\ up \in BOOLEAN /\ Elements(asked) \subseteq Requests
    /\ \A i \in DOMAIN answers : answers[i].to \in Requests
                                 /\ answers[i].basis \in Requests \cup {Client}
    /\ read \in 0..Len(asked)
    /\ DOMAIN pending \subseteq Ids /\ \A id \in DOMAIN pending : pending[id] \in Requests
    /\ Cardinality(DOMAIN pending) <= MaxPending
    /\ cancelling \subseteq Ids
    /\ Len(events) <= EventCapacity /\ \A i \in DOMAIN events : EventsShape(events[i])
    /\ lossPending \in BOOLEAN /\ online \in BOOLEAN
    /\ \A q \in Queues : Len(cards[q]) <= MaxPending /\ Elements(cards[q]) \subseteq Requests
    /\ Len(commands) <= CommandCapacity
    /\ \A i \in DOMAIN commands : commands[i].card \in Requests /\ commands[i].seen \in Requests
    /\ forgotten \subseteq Ids

(* What waits in pending_approvals is an open request of the app-server      *)
(* that is connected: entries of a lost connection are cleared (run_backend),*)
(* and an entry that has been answered is gone.                              *)
PendingIsOpen ==
    \A id \in DOMAIN pending :
        /\ pending[id].id = id
        /\ pending[id] \in Elements(asked)
        /\ ~IsAnswered(pending[id])

(* The app-server never gets two answers to one request, whatever the order  *)
(* of the user's decision, its retry after a failure and the Escape key.     *)
AnsweredOnce ==
    \A i, j \in DOMAIN answers : answers[i].to = answers[j].to => i = j

(* No request is lost by the backend: one that has been received is waiting  *)
(* or answered, or is one of those whose answer the code gives up            *)
(* (restore_standard_approval_after_response_failure and its siblings).      *)
NoneLost ==
    \A i \in 1..read :
        IsPending(asked[i]) \/ IsAnswered(asked[i]) \/ i \in forgotten

(* The table is exact: it holds every request that still owes an answer, and *)
(* none that does not.                                                       *)
TableIsExact == NoneLost /\ PendingIsOpen

(* An approval's decision never answers a structured input or an            *)
(* elicitation, nor the other way round, even when the ids of two            *)
(* connections coincide: the entry is put back (respond_to_approval).        *)
AnswerFitsRequest ==
    \A i \in DOMAIN answers :
        answers[i].basis # Client => Fits(answers[i].basis, answers[i].to)

(* A request that waits can be answered: there is a card of its id and kind, *)
(* or one on its way, or a decision on its way back.  So a full queue of     *)
(* cards gives up none that is needed (ApprovalRequested drops the oldest at *)
(* the limit).  Asked of the first app-server, and until something is given  *)
(* up: a card that has outlived its request can push out one that has not.   *)
CardWaits(r) ==
    \/ \E i \in DOMAIN cards[QueueOf(r)] : cards[QueueOf(r)][i].id = r.id
    \/ \E i \in DOMAIN events : events[i].kind = "ask" /\ events[i].id = r.id
                                /\ Fits(events[i].request, r)
    \/ \E i \in DOMAIN commands : commands[i].card.id = r.id /\ Fits(commands[i].card, r)

WaitingHasCard ==
    server = 1 /\ forgotten = {} => \A id \in DOMAIN pending : CardWaits(pending[id])

(* Cards and requests match: none lacks a card, and none is answered by a    *)
(* card of another kind.                                                     *)
CardsMatchRequests == WaitingHasCard /\ AnswerFitsRequest

(* Every request of an app-server is answered in the end, also when the      *)
(* first answer could not be sent, unless the app-server ends first or a     *)
(* full queue, an archived chat or a tool's lost answer gives something up.  *)
(* Asked of the first app-server, as WaitingHasCard is.                      *)
IsOpen(id) == server = 1 /\ id \in DOMAIN asked /\ ~IsAnswered(asked[id])

EveryRequestIsAnswered ==
    \A id \in Ids : IsOpen(id) ~> (~IsOpen(id) \/ forgotten # {})

(* docs/parity-matrix.md:80: decisions "resolve only the request visible for *)
(* the selected chat".                                                       *)
OnlyTheVisibleRequest ==
    \A i \in DOMAIN answers :
        answers[i].basis # Client => answers[i].basis = answers[i].to

=============================================================================
