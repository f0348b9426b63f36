------------------------ MODULE AppServerRouterProofs ------------------------
(***************************************************************************)
(* Proofs about AppServerRouter, for every value of its constants, and, at *)
(* the end, about ByteBudget, the budget that its reader takes leases from.*)
(*                                                                         *)
(*   IInv    types, what the program counters say, where each request is:  *)
(*           TypeOK, NoOrphanedCall, RefusedIsNeverSent, the refinement of *)
(*           RequestContract                                               *)
(*   EndInv  how the connection ends: EndIsOrderly                         *)
(*   NoLeaseLeak is inductive over IInv: the leases are counted where they *)
(*           are, and a step moves one or returns it                       *)
(*   FlowInv the numbers of the must-deliver frames rise along their way   *)
(*           and leave no hole behind them: NoGapInEvents,                 *)
(*           NeverRejectedAndDelivered                                     *)
(*   DropInv what the consumer was told of best-effort notifications, and  *)
(*           what is on its way to it, add up: DropAccounting              *)
(***************************************************************************)
EXTENDS AppServerRouter, ByteBudget, FiniteSetTheorems, SequenceTheorems, FunctionTheorems,
        WellFoundedInduction, TLAPS

-----------------------------------------------------------------------------
(* Lemmas about the operators the actions are built from. *)

LEMMA CommandTypes ==
  /\ \A id \in Requests : Msg("call", id) \in CommandSet
  /\ Msg("frame", 0) \in CommandSet /\ Msg("shutdown", 0) \in CommandSet
  BY BoundsAssumption DEF Msg, CommandSet, Requests

LEMMA FreedType ==
  ASSUME TypeOK
  PROVE  \A count \in Nat : Freed(count) \in 0..ByteLimit
  BY CapacityAssumption DEF TypeOK, Freed

LEMMA ReplyType ==
  ASSUME TypeOK
  PROVE  \A ids, outcome : outcome \in ReplyStates =>
            Reply(ids, outcome) \in [Requests -> ReplyStates]
  BY DEF TypeOK, Reply, ReplyStates

LEMMA PendingFinite ==
  ASSUME TypeOK
  PROVE  IsFiniteSet(pending) /\ Cardinality(pending) \in Nat
<1>1. IsFiniteSet(Requests)
  BY FS_Interval, BoundsAssumption DEF Requests
<1> QED
  BY <1>1, FS_Subset, FS_CardinalityType DEF TypeOK

LEMMA PendingShrinks ==
  ASSUME TypeOK
  PROVE  \A S : pending \ S \subseteq Requests /\ Cardinality(pending \ S) <= MaxPending
<1> TAKE S
<1>1. Cardinality(pending \ S) <= Cardinality(pending) /\ Cardinality(pending \ S) \in Nat
  BY PendingFinite, FS_Subset, FS_CardinalityType
<1> QED
  BY <1>1, PendingFinite, CapacityAssumption DEF TypeOK

LEMMA PendingGrows ==
  ASSUME TypeOK, TableRoom, NEW id \in Requests
  PROVE  /\ pending \cup {id} \subseteq Requests
         /\ Cardinality(pending \cup {id}) <= MaxPending
<1>1. Cardinality(pending \cup {id}) <= Cardinality(pending) + 1
  BY PendingFinite, FS_AddElement
<1>2. Cardinality(pending \cup {id}) \in Nat
  BY PendingFinite, FS_AddElement, FS_CardinalityType
<1> QED
  BY <1>1, <1>2, PendingFinite, CapacityAssumption DEF TypeOK, TableRoom

LEMMA FailPendingType ==
  ASSUME TypeOK, FailPending
  PROVE  /\ reply' \in [Requests -> ReplyStates]
         /\ pending' \subseteq Requests /\ Cardinality(pending') <= MaxPending
  BY ReplyType, FS_EmptySet, CapacityAssumption DEF FailPending, ReplyStates, Failures

LEMMA Consumed ==
  ASSUME NEW S, NEW s \in Seq(S), NEW cap \in Nat, Len(s) <= cap, s # <<>>
  PROVE  Head(s) \in S /\ Tail(s) \in Seq(S) /\ Len(Tail(s)) <= cap
  OBVIOUS

LEMMA Appended ==
  ASSUME NEW S, NEW s \in Seq(S), NEW m \in S, NEW cap \in Nat, Len(s) < cap
  PROVE  Append(s, m) \in Seq(S) /\ Len(Append(s, m)) <= cap
  OBVIOUS

LEMMA QueueHeads ==
  ASSUME TypeOK
  PROVE  /\ commands # <<>> => /\ Head(commands) \in CommandSet
                               /\ Tail(commands) \in Seq(CommandSet)
                               /\ Len(Tail(commands)) <= CommandCapacity
         /\ incoming # <<>> => /\ Head(incoming) \in MsgSet
                               /\ Tail(incoming) \in Seq(MsgSet)
                               /\ Len(Tail(incoming)) <= MessageCapacity
         /\ events # <<>> => /\ Head(events) \in EventSet
                             /\ Tail(events) \in Seq(EventSet)
                             /\ Len(Tail(events)) <= EventCapacity
<1>1. /\ commands \in Seq(CommandSet) /\ Len(commands) <= CommandCapacity
      /\ incoming \in Seq(MsgSet) /\ Len(incoming) <= MessageCapacity
      /\ events \in Seq(EventSet) /\ Len(events) <= EventCapacity
      /\ CommandCapacity \in Nat /\ MessageCapacity \in Nat /\ EventCapacity \in Nat
  BY CapacityAssumption DEF TypeOK
<1> QED
  BY <1>1, Consumed

LEMMA QueueTails ==
  ASSUME TypeOK
  PROVE  /\ CommandRoom => \A m \in CommandSet :
                /\ Append(commands, m) \in Seq(CommandSet)
                /\ Len(Append(commands, m)) <= CommandCapacity
         /\ MessageRoom => \A m \in MsgSet :
                /\ Append(incoming, m) \in Seq(MsgSet)
                /\ Len(Append(incoming, m)) <= MessageCapacity
         /\ EventRoom => \A m \in EventSet :
                /\ Append(events, m) \in Seq(EventSet)
                /\ Len(Append(events, m)) <= EventCapacity
<1>1. /\ commands \in Seq(CommandSet)
      /\ incoming \in Seq(MsgSet)
      /\ events \in Seq(EventSet)
      /\ CommandCapacity \in Nat /\ MessageCapacity \in Nat /\ EventCapacity \in Nat
  BY CapacityAssumption DEF TypeOK
<1> QED
  BY <1>1, Appended DEF CommandRoom, MessageRoom, EventRoom

LEMMA PublishCountType ==
  ASSUME TypeOK, NEW count \in Nat, PublishDropCount(count)
  PROVE  /\ events' \in Seq(EventSet) /\ Len(events') <= EventCapacity
         /\ dropped' \in Nat
<1>1. Msg("dropped", count) \in EventSet
  BY DEF Msg, EventSet
<1>2. CASE count > 0 /\ EventsOpen /\ EventRoom
  BY <1>1, <1>2, QueueTails DEF PublishDropCount
<1>3. CASE ~(count > 0 /\ EventsOpen /\ EventRoom)
  BY <1>3 DEF TypeOK, PublishDropCount
<1> QED
  BY <1>2, <1>3

LEMMA HistType ==
  ASSUME TypeOK
  PROVE  /\ [hist EXCEPT !.lossy = @ + 1] \in HistSet
         /\ [hist EXCEPT !.frames = @ + 1] \in HistSet
         /\ [hist EXCEPT !.produced = @ + 1] \in HistSet
         /\ [hist EXCEPT !.lossySeen = @ + 1] \in HistSet
         /\ hist.produced \in Nat
         /\ \A n \in Nat : /\ [hist EXCEPT !.dropSeen = @ + n] \in HistSet
                           /\ [hist EXCEPT !.delivered = @ \cup {n}] \in HistSet
                           /\ [hist EXCEPT !.rejected = @ \cup {n}] \in HistSet
         /\ \A id \in Requests : [hist EXCEPT !.answered = @ \cup {id}] \in HistSet
<1>1. /\ hist \in HistSet
      /\ hist.lossy \in Nat /\ hist.frames \in Nat /\ hist.produced \in Nat
      /\ hist.lossySeen \in Nat /\ hist.dropSeen \in Nat
      /\ hist.delivered \subseteq Nat /\ hist.rejected \subseteq Nat
      /\ hist.answered \subseteq Requests
  BY DEF TypeOK, HistSet
<1> QED
  BY <1>1 DEF HistSet

LEMMA LeasesType ==
  ASSUME NEW S, NEW s \in Seq(S)
  PROVE  LeasesIn(s) \in Nat
<1>1. DOMAIN s = 1..Len(s) /\ Len(s) \in Nat
  OBVIOUS
<1>2. IsFiniteSet({i \in DOMAIN s : Leased(s[i])})
  <2>1. IsFiniteSet(1..Len(s))
    BY <1>1, FS_Interval
  <2>2. {i \in DOMAIN s : Leased(s[i])} \subseteq 1..Len(s)
    BY <1>1
  <2> QED
    BY <2>1, <2>2, FS_Subset
<1> QED
  BY <1>2, FS_CardinalityType DEF LeasesIn

LEMMA QueuedAfterAppend ==
  ASSUME TypeOK, NEW m, commands' = Append(commands, m)
  PROVE  \A id \in Requests : QueuedCall(id)' <=> QueuedCall(id) \/ m = Msg("call", id)
<1>1. commands \in Seq(CommandSet) /\ Len(commands) \in Nat
  BY DEF TypeOK
<1>2. /\ DOMAIN commands = 1..Len(commands)
      /\ DOMAIN commands' = 1..(Len(commands) + 1)
      /\ \A i \in 1..Len(commands) : commands'[i] = commands[i]
      /\ commands'[Len(commands) + 1] = m
  BY <1>1
<1> QED
  BY <1>1, <1>2 DEF QueuedCall

LEMMA TailElements ==
  ASSUME TypeOK, commands # <<>>, commands' = Tail(commands)
  PROVE  /\ Len(commands) \in Nat \ {0} /\ DOMAIN commands = 1..Len(commands)
         /\ DOMAIN commands' = 1..(Len(commands) - 1)
         /\ \A i \in DOMAIN commands' : i + 1 \in DOMAIN commands /\ commands'[i] = commands[i + 1]
         /\ Head(commands) = commands[1]
<1>1. commands \in Seq(CommandSet)
  BY DEF TypeOK
<1> QED
  BY <1>1

LEMMA QueuedAfterTail ==
  ASSUME TypeOK, CommandsDistinct, commands # <<>>, commands' = Tail(commands)
  PROVE  /\ CommandsDistinct'
         /\ \A id \in Requests :
               QueuedCall(id)' <=> QueuedCall(id) /\ Head(commands) # Msg("call", id)
<1>1. CommandsDistinct'
  BY TailElements DEF CommandsDistinct
<1>2. ASSUME NEW id \in Requests, QueuedCall(id)'
      PROVE  QueuedCall(id) /\ Head(commands) # Msg("call", id)
  <2>1. PICK i \in DOMAIN commands' : commands'[i] = Msg("call", id)
    BY <1>2 DEF QueuedCall
  <2>2. i + 1 \in DOMAIN commands /\ commands[i + 1] = Msg("call", id)
    BY <2>1, TailElements
  <2>3. Msg("call", id).kind = "call"
    BY DEF Msg
  <2>4. i \in Nat /\ i # 0 /\ 1 \in DOMAIN commands
    BY <2>1, TailElements
  <2> QED
    BY <2>2, <2>3, <2>4, TailElements DEF CommandsDistinct, QueuedCall
<1>3. ASSUME NEW id \in Requests, QueuedCall(id), Head(commands) # Msg("call", id)
      PROVE  QueuedCall(id)'
  <2>1. PICK i \in DOMAIN commands : commands[i] = Msg("call", id)
    BY <1>3 DEF QueuedCall
  <2>2. i # 1
    BY <1>3, <2>1, TailElements
  <2>3. i - 1 \in DOMAIN commands' /\ commands'[i - 1] = Msg("call", id)
    BY <2>1, <2>2, TailElements
  <2> QED
    BY <2>3 DEF QueuedCall
<1> QED
  BY <1>1, <1>2, <1>3

LEMMA CallHead ==
  ASSUME TypeOK, CallsOK, commands # <<>>, Head(commands).kind = "call"
  PROVE  /\ Head(commands).n \in Requests
         /\ Head(commands) = Msg("call", Head(commands).n)
         /\ QueuedCall(Head(commands).n)
<1>1. 1 \in DOMAIN commands /\ Head(commands) = commands[1]
  BY DEF TypeOK
<1>2. Head(commands) \in CommandSet
  BY QueueHeads
<1>3. Head(commands).n \in Requests
  BY <1>1 DEF CallsOK, CommandsDistinct
<1>4. Head(commands) = Msg("call", Head(commands).n)
  BY <1>2 DEF CommandSet, Msg
<1> QED
  BY <1>1, <1>3, <1>4 DEF QueuedCall

-----------------------------------------------------------------------------
(* Type correctness, thread by thread. *)

LEMMA CallerKeepsTypes ==
  ASSUME TypeOK, ControlOK, CallsOK, NEW id \in Requests, CallerStep(id)
  PROVE  TypeOK'
<1>1. CASE CallStart(id)
  <2>1. call' \in [Requests -> CallStates]
    BY <1>1 DEF TypeOK, CallStart, CallStates, Outcomes, Failures
  <2>2. UNCHANGED <<reply, expired, commands, pending, router, cur, written,
    incoming, events, dropped, readerDropped, reader, item, used, server, owner,
    shutdownReply, result, consumer, noticed, hist>>
    BY <1>1 DEF CallStart, notCaller, callerVars, queueVars, dropVars, readerVars,
      ownerVars, consumerVars
  <2> QED
    BY <2>1, <2>2 DEF TypeOK
<1>2. CASE CallEnqueue(id)
  <2>1. call' \in [Requests -> CallStates]
    BY <1>2 DEF TypeOK, CallEnqueue, CallStates
  <2>2. commands' \in Seq(CommandSet) /\ Len(commands') <= CommandCapacity
    BY <1>2, CommandTypes, QueueTails DEF CallEnqueue
  <2>3. UNCHANGED <<reply, expired, pending, router, cur, written, incoming, events,
    dropped, readerDropped, reader, item, used, server, owner, shutdownReply,
    result, consumer, noticed, hist>>
    BY <1>2 DEF CallEnqueue, notCaller, callerVars, queueVars, dropVars, readerVars,
      ownerVars, consumerVars
  <2> QED
    BY <2>1, <2>2, <2>3 DEF TypeOK
<1>3. CASE CallNotQueued(id)
  <2>1. call' \in [Requests -> CallStates]
    BY <1>3 DEF TypeOK, CallNotQueued, CallStates, Outcomes, Failures, Refusals
  <2>2. UNCHANGED <<reply, expired, commands, pending, router, cur, written,
    incoming, events, dropped, readerDropped, reader, item, used, server, owner,
    shutdownReply, result, consumer, noticed, hist>>
    BY <1>3 DEF CallNotQueued, notCaller, callerVars, queueVars, dropVars,
      readerVars, ownerVars, consumerVars
  <2> QED
    BY <2>1, <2>2 DEF TypeOK
<1>4. CASE CallReceive(id)
  <2>1. call' \in [Requests -> CallStates]
    BY <1>4 DEF TypeOK, CallReceive, CallStates, ReplyStates, Outcomes, Refusals
  <2>2. reply' \in [Requests -> ReplyStates]
    BY <1>4 DEF TypeOK, CallReceive, ReplyStates
  <2>3. used' \in 0..ByteLimit
    BY <1>4, FreedType DEF TypeOK, CallReceive
  <2>4. UNCHANGED <<expired, commands, pending, router, cur, written, incoming,
    events, dropped, readerDropped, reader, item, server, owner, shutdownReply,
    result, consumer, noticed, hist>>
    BY <1>4 DEF CallReceive, notCaller, callerVars, queueVars, dropVars, readerVars,
      ownerVars, consumerVars
  <2> QED
    BY <2>1, <2>2, <2>3, <2>4 DEF TypeOK
<1>5. CASE CallTimeout(id)
  <2>1. call' \in [Requests -> CallStates]
    BY <1>5 DEF TypeOK, CallTimeout, CallStates, Outcomes, Failures
  <2>2. UNCHANGED <<reply, expired, commands, pending, router, cur, written,
    incoming, events, dropped, readerDropped, reader, item, used, server, owner,
    shutdownReply, result, consumer, noticed, hist>>
    BY <1>5 DEF CallTimeout, notCaller, callerVars, queueVars, dropVars, readerVars,
      ownerVars, consumerVars
  <2> QED
    BY <2>1, <2>2 DEF TypeOK
<1>6. CASE CallDisconnected(id)
  <2>1. call' \in [Requests -> CallStates]
    BY <1>6 DEF TypeOK, CallDisconnected, CallStates, Outcomes, Failures
  <2>2. UNCHANGED <<reply, expired, commands, pending, router, cur, written,
    incoming, events, dropped, readerDropped, reader, item, used, server, owner,
    shutdownReply, result, consumer, noticed, hist>>
    BY <1>6 DEF CallDisconnected, notCaller, callerVars, queueVars, dropVars,
      readerVars, ownerVars, consumerVars
  <2> QED
    BY <2>1, <2>2 DEF TypeOK
<1>7. CASE Expire(id)
  <2>1. expired' \subseteq Requests
    BY <1>7 DEF TypeOK, Expire
  <2>2. UNCHANGED <<call, reply, commands, pending, router, cur, written, incoming,
    events, dropped, readerDropped, reader, item, used, server, owner,
    shutdownReply, result, consumer, noticed, hist>>
    BY <1>7 DEF Expire, notCaller, callerVars, queueVars, dropVars, readerVars,
      ownerVars, consumerVars
  <2> QED
    BY <2>1, <2>2 DEF TypeOK
<1> QED
  BY <1>1, <1>2, <1>3, <1>4, <1>5, <1>6, <1>7 DEF CallerStep

LEMMA ConsumerKeepsTypes ==
  ASSUME TypeOK, ControlOK, CallsOK, ConsumerStep
  PROVE  TypeOK'
<1>1. CASE ConsumerReceive
  <2>1. events' \in Seq(EventSet) /\ Len(events') <= EventCapacity
    BY <1>1, QueueHeads DEF ConsumerReceive
  <2>2. consumer' \in EventSet \cup {NoMsg}
    BY <1>1, QueueHeads DEF ConsumerReceive
  <2>3. noticed' \in BOOLEAN
    BY <1>1 DEF TypeOK, ConsumerReceive
  <2>4. hist' \in HistSet
    BY <1>1, QueueHeads, HistType DEF ConsumerReceive, EventSet, TypeOK
  <2>5. UNCHANGED <<call, reply, expired, commands, pending, router, cur, written,
    incoming, dropped, readerDropped, reader, item, used, server, owner,
    shutdownReply, result>>
    BY <1>1 DEF ConsumerReceive, notConsumer, callerVars, queueVars, dropVars,
      readerVars, ownerVars, consumerVars
  <2> QED
    BY <2>1, <2>2, <2>3, <2>4, <2>5 DEF TypeOK
<1>2. CASE ConsumerDone
  <2>1. consumer' \in EventSet \cup {NoMsg}
    BY <1>2 DEF TypeOK, ConsumerDone
  <2>2. used' \in 0..ByteLimit
    BY <1>2, FreedType DEF TypeOK, ConsumerDone
  <2>3. UNCHANGED <<call, reply, expired, commands, pending, router, cur, written,
    incoming, events, dropped, readerDropped, reader, item, server, owner,
    shutdownReply, result, noticed, hist>>
    BY <1>2 DEF ConsumerDone, notConsumer, callerVars, queueVars, dropVars,
      readerVars, ownerVars, consumerVars
  <2> QED
    BY <2>1, <2>2, <2>3 DEF TypeOK
<1>3. CASE ConsumerClosed
  <2>1. noticed' \in BOOLEAN
    BY <1>3 DEF TypeOK, ConsumerClosed
  <2>2. UNCHANGED <<call, reply, expired, commands, pending, router, cur, written,
    incoming, events, dropped, readerDropped, reader, item, used, server, owner,
    shutdownReply, result, consumer, hist>>
    BY <1>3 DEF ConsumerClosed, notConsumer, callerVars, queueVars, dropVars,
      readerVars, ownerVars, consumerVars
  <2> QED
    BY <2>1, <2>2 DEF TypeOK
<1> QED
  BY <1>1, <1>2, <1>3 DEF ConsumerStep

LEMMA ReaderKeepsTypes ==
  ASSUME TypeOK, ControlOK, CallsOK, ReaderStep
  PROVE  TypeOK'
<1>1. CASE ReaderReadLossy
  <2>1. reader' \in {"read", "acquire", "send", "stopped"}
    BY <1>1 DEF TypeOK, ReaderReadLossy
  <2>2. readerDropped' \in Nat
    BY <1>1 DEF TypeOK, ReaderReadLossy
  <2>3. item' \in MsgSet \cup {NoMsg}
    BY <1>1 DEF TypeOK, ReaderReadLossy, MsgSet, Msg, FrameKinds, EventKinds
  <2>4. used' \in 0..ByteLimit
    BY <1>1, CapacityAssumption DEF TypeOK, ReaderReadLossy, BudgetRoom
  <2>5. hist' \in HistSet
    BY <1>1, HistType DEF ReaderReadLossy
  <2>6. UNCHANGED <<call, reply, expired, commands, pending, router, cur, written,
    incoming, events, dropped, server, owner, shutdownReply, result, consumer,
    noticed>>
    BY <1>1 DEF ReaderReadLossy, notReader, callerVars, queueVars, dropVars,
      readerVars, ownerVars, consumerVars
  <2> QED
    BY <2>1, <2>2, <2>3, <2>4, <2>5, <2>6 DEF TypeOK
<1>2. CASE ReaderReadFrame
  <2>1. reader' \in {"read", "acquire", "send", "stopped"}
    BY <1>2 DEF TypeOK, ReaderReadFrame
  <2>2. item' \in MsgSet \cup {NoMsg}
    BY <1>2 DEF TypeOK, ReaderReadFrame, MsgSet, Msg, FrameKinds, EventKinds,
      AnswerKinds, HistSet, Requests
  <2>3. hist' \in HistSet
    BY <1>2, HistType DEF ReaderReadFrame, TypeOK
  <2>4. UNCHANGED <<call, reply, expired, commands, pending, router, cur, written,
    incoming, events, dropped, readerDropped, used, server, owner, shutdownReply,
    result, consumer, noticed>>
    BY <1>2 DEF ReaderReadFrame, notReader, callerVars, queueVars, dropVars,
      readerVars, ownerVars, consumerVars
  <2> QED
    BY <2>1, <2>2, <2>3, <2>4 DEF TypeOK
<1>3. CASE ReaderReadFinal
  <2>1. reader' \in {"read", "acquire", "send", "stopped"}
    BY <1>3 DEF TypeOK, ReaderReadFinal
  <2>2. item' \in MsgSet \cup {NoMsg}
    BY <1>3 DEF TypeOK, ReaderReadFinal, MsgSet, Msg, FinalKinds
  <2>3. UNCHANGED <<call, reply, expired, commands, pending, router, cur, written,
    incoming, events, dropped, readerDropped, used, server, owner, shutdownReply,
    result, consumer, noticed, hist>>
    BY <1>3 DEF ReaderReadFinal, notReader, callerVars, queueVars, dropVars,
      readerVars, ownerVars, consumerVars
  <2> QED
    BY <2>1, <2>2, <2>3 DEF TypeOK
<1>4. CASE ReaderAcquire
  <2>1. reader' \in {"read", "acquire", "send", "stopped"}
    BY <1>4 DEF TypeOK, ReaderAcquire
  <2>2. item' \in MsgSet \cup {NoMsg}
    BY <1>4 DEF TypeOK, ReaderAcquire, MsgSet, Msg, FinalKinds
  <2>3. used' \in 0..ByteLimit
    BY <1>4, CapacityAssumption DEF TypeOK, ReaderAcquire, BudgetRoom
  <2>4. UNCHANGED <<call, reply, expired, commands, pending, router, cur, written,
    incoming, events, dropped, readerDropped, server, owner, shutdownReply, result,
    consumer, noticed, hist>>
    BY <1>4 DEF ReaderAcquire, notReader, callerVars, queueVars, dropVars,
      readerVars, ownerVars, consumerVars
  <2> QED
    BY <2>1, <2>2, <2>3, <2>4 DEF TypeOK
<1>5. CASE ReaderSend
  <2>1. reader' \in {"read", "acquire", "send", "stopped"}
    BY <1>5 DEF TypeOK, ReaderSend
  <2>2. incoming' \in Seq(MsgSet) /\ Len(incoming') <= MessageCapacity
    BY <1>5, QueueTails DEF ReaderSend, ControlOK, TypeOK
  <2>3. item' \in MsgSet \cup {NoMsg}
    BY <1>5 DEF TypeOK, ReaderSend
  <2>4. used' \in 0..ByteLimit
    BY <1>5, FreedType DEF TypeOK, ReaderSend
  <2>5. UNCHANGED <<call, reply, expired, commands, pending, router, cur, written,
    events, dropped, readerDropped, server, owner, shutdownReply, result, consumer,
    noticed, hist>>
    BY <1>5 DEF ReaderSend, notReader, callerVars, queueVars, dropVars, readerVars,
      ownerVars, consumerVars
  <2> QED
    BY <2>1, <2>2, <2>3, <2>4, <2>5 DEF TypeOK
<1> QED
  BY <1>1, <1>2, <1>3, <1>4, <1>5 DEF ReaderStep

LEMMA RouterKeepsTypes ==
  ASSUME TypeOK, ControlOK, CallsOK, RouterStep
  PROVE  TypeOK'
<1>1. CASE RouterTop
  <2>1. router' \in {"top", "select", "publish", "write", "closing", "join", "done"}
    BY <1>1 DEF TypeOK, RouterTop
  <2>2. reply' \in [Requests -> ReplyStates]
    BY <1>1, ReplyType DEF TypeOK, RouterTop, ReplyStates, Failures
  <2>3. pending' \subseteq Requests /\ Cardinality(pending') <= MaxPending
    BY <1>1, PendingShrinks DEF TypeOK, RouterTop
  <2>4. events' \in Seq(EventSet) /\ Len(events') <= EventCapacity
    BY <1>1, PublishCountType DEF TypeOK, RouterTop
  <2>5. dropped' \in Nat
    BY <1>1, PublishCountType DEF TypeOK, RouterTop
  <2>6. readerDropped' \in Nat
    BY <1>1 DEF TypeOK, RouterTop
  <2>7. UNCHANGED <<call, expired, commands, cur, written, incoming, reader, item,
    used, server, owner, shutdownReply, result, consumer, noticed, hist>>
    BY <1>1 DEF RouterTop, notRouter, callerVars, queueVars, dropVars, readerVars,
      ownerVars, consumerVars
  <2> QED
    BY <2>1, <2>2, <2>3, <2>4, <2>5, <2>6, <2>7 DEF TypeOK
<1>2. CASE RouterTick
  <2>1. router' \in {"top", "select", "publish", "write", "closing", "join", "done"}
    BY <1>2 DEF TypeOK, RouterTick
  <2>2. UNCHANGED <<call, reply, expired, commands, pending, cur, written, incoming,
    events, dropped, readerDropped, reader, item, used, server, owner,
    shutdownReply, result, consumer, noticed, hist>>
    BY <1>2 DEF RouterTick, notRouter, callerVars, queueVars, dropVars, readerVars,
      ownerVars, consumerVars
  <2> QED
    BY <2>1, <2>2 DEF TypeOK
<1>3. CASE RouterTakeCall
  <2>1. router' \in {"top", "select", "publish", "write", "closing", "join", "done"}
    BY <1>3 DEF TypeOK, RouterTakeCall, Refuse
  <2>2. commands' \in Seq(CommandSet) /\ Len(commands') <= CommandCapacity
    BY <1>3, QueueHeads DEF RouterTakeCall
  <2>3. reply' \in [Requests -> ReplyStates]
    BY <1>3, ReplyType DEF TypeOK, RouterTakeCall, Refuse, ReplyStates
  <2>4. pending' \subseteq Requests /\ Cardinality(pending') <= MaxPending
    BY <1>3, PendingGrows, CallHead DEF RouterTakeCall, TypeOK, Refuse
  <2>5. cur' \in CurSet
    BY <1>3, QueueHeads, BoundsAssumption DEF RouterTakeCall, Refuse, TypeOK,
      CommandSet, CurSet, Msg
  <2>6. UNCHANGED <<call, expired, written, incoming, events, dropped,
    readerDropped, reader, item, used, server, owner, shutdownReply, result,
    consumer, noticed, hist>>
    BY <1>3 DEF RouterTakeCall, Refuse, notRouter, callerVars, queueVars, dropVars,
      readerVars, ownerVars, consumerVars
  <2> QED
    BY <2>1, <2>2, <2>3, <2>4, <2>5, <2>6 DEF TypeOK
<1>4. CASE RouterTakeFrame
  <2>1. router' \in {"top", "select", "publish", "write", "closing", "join", "done"}
    BY <1>4 DEF TypeOK, RouterTakeFrame
  <2>2. commands' \in Seq(CommandSet) /\ Len(commands') <= CommandCapacity
    BY <1>4, QueueHeads DEF RouterTakeFrame
  <2>3. cur' \in CurSet
    BY <1>4, QueueHeads, BoundsAssumption DEF RouterTakeFrame, CommandSet, CurSet
  <2>4. UNCHANGED <<call, reply, expired, pending, written, incoming, events,
    dropped, readerDropped, reader, item, used, server, owner, shutdownReply,
    result, consumer, noticed, hist>>
    BY <1>4 DEF RouterTakeFrame, notRouter, callerVars, queueVars, dropVars,
      readerVars, ownerVars, consumerVars
  <2> QED
    BY <2>1, <2>2, <2>3, <2>4 DEF TypeOK
<1>5. CASE RouterTakeShutdown
  <2>1. router' \in {"top", "select", "publish", "write", "closing", "join", "done"}
    BY <1>5 DEF TypeOK, RouterTakeShutdown
  <2>2. commands' \in Seq(CommandSet) /\ Len(commands') <= CommandCapacity
    BY <1>5, QueueHeads DEF RouterTakeShutdown
  <2>3. reply' \in [Requests -> ReplyStates]
    BY <1>5, FailPendingType DEF TypeOK, RouterTakeShutdown
  <2>4. pending' \subseteq Requests /\ Cardinality(pending') <= MaxPending
    BY <1>5, FailPendingType DEF TypeOK, RouterTakeShutdown
  <2>5. cur' \in CurSet
    BY <1>5 DEF TypeOK, RouterTakeShutdown, CurSet, Msg
  <2>6. UNCHANGED <<call, expired, written, incoming, events, dropped,
    readerDropped, reader, item, used, server, owner, shutdownReply, result,
    consumer, noticed, hist>>
    BY <1>5 DEF RouterTakeShutdown, notRouter, callerVars, queueVars, dropVars,
      readerVars, ownerVars, consumerVars
  <2> QED
    BY <2>1, <2>2, <2>3, <2>4, <2>5, <2>6 DEF TypeOK
<1>6. CASE RouterWrite
  <2>1. router' \in {"top", "select", "publish", "write", "closing", "join", "done"}
    BY <1>6 DEF TypeOK, RouterWrite, WriteSucceeds
  <2>2. written' \subseteq Requests
    BY <1>6 DEF TypeOK, RouterWrite, WriteSucceeds, ControlOK
  <2>3. cur' \in CurSet
    BY <1>6 DEF TypeOK, RouterWrite, WriteSucceeds, CurSet, NoMsg, Msg
  <2>4. hist' \in HistSet
    BY <1>6 DEF TypeOK, RouterWrite, WriteSucceeds, CurSet, HistSet
  <2>5. UNCHANGED <<call, reply, expired, commands, pending, incoming, events,
    dropped, readerDropped, reader, item, used, server, owner, shutdownReply,
    result, consumer, noticed>>
    BY <1>6 DEF RouterWrite, WriteSucceeds, notRouter, callerVars, queueVars,
      dropVars, readerVars, ownerVars, consumerVars
  <2> QED
    BY <2>1, <2>2, <2>3, <2>4, <2>5 DEF TypeOK
<1>7. CASE RouterWriteHung
  <2>1. router' \in {"top", "select", "publish", "write", "closing", "join", "done"}
    BY <1>7 DEF TypeOK, RouterWriteHung, WriteSucceeds
  <2>2. written' \subseteq Requests
    BY <1>7 DEF TypeOK, RouterWriteHung, WriteSucceeds, ControlOK
  <2>3. cur' \in CurSet
    BY <1>7 DEF TypeOK, RouterWriteHung, WriteSucceeds, CurSet, NoMsg, Msg
  <2>4. hist' \in HistSet
    BY <1>7 DEF TypeOK, RouterWriteHung, WriteSucceeds, CurSet, HistSet
  <2>5. UNCHANGED <<call, reply, expired, commands, pending, incoming, events,
    dropped, readerDropped, reader, item, used, server, owner, shutdownReply,
    result, consumer, noticed>>
    BY <1>7 DEF RouterWriteHung, WriteSucceeds, notRouter, callerVars, queueVars,
      dropVars, readerVars, ownerVars, consumerVars
  <2> QED
    BY <2>1, <2>2, <2>3, <2>4, <2>5 DEF TypeOK
<1>8. CASE RouterWriteFails
  <2>1. router' \in {"top", "select", "publish", "write", "closing", "join", "done"}
    BY <1>8 DEF TypeOK, RouterWriteFails
  <2>2. reply' \in [Requests -> ReplyStates]
    BY <1>8, ReplyType DEF TypeOK, RouterWriteFails, ReplyStates, Outcomes, Failures
  <2>3. pending' \subseteq Requests /\ Cardinality(pending') <= MaxPending
    BY <1>8, FS_EmptySet, CapacityAssumption DEF TypeOK, RouterWriteFails
  <2>4. cur' \in CurSet
    BY <1>8 DEF TypeOK, RouterWriteFails, CurSet, NoMsg, Msg
  <2>5. UNCHANGED <<call, expired, commands, written, incoming, events, dropped,
    readerDropped, reader, item, used, server, owner, shutdownReply, result,
    consumer, noticed, hist>>
    BY <1>8 DEF RouterWriteFails, notRouter, callerVars, queueVars, dropVars,
      readerVars, ownerVars, consumerVars
  <2> QED
    BY <2>1, <2>2, <2>3, <2>4, <2>5 DEF TypeOK
<1>9. CASE RouterTakeAnswer
  <2>1. router' \in {"top", "select", "publish", "write", "closing", "join", "done"}
    BY <1>9 DEF TypeOK, RouterTakeAnswer
  <2>2. incoming' \in Seq(MsgSet) /\ Len(incoming') <= MessageCapacity
    BY <1>9, QueueHeads DEF RouterTakeAnswer
  <2>3. reply' \in [Requests -> ReplyStates]
    BY <1>9, ReplyType DEF TypeOK, RouterTakeAnswer, ReplyStates, Answers
  <2>4. pending' \subseteq Requests /\ Cardinality(pending') <= MaxPending
    BY <1>9, PendingShrinks DEF TypeOK, RouterTakeAnswer
  <2>5. used' \in 0..ByteLimit
    BY <1>9, FreedType DEF TypeOK, RouterTakeAnswer, LeaseAfterAnswer
  <2>6. UNCHANGED <<call, expired, commands, cur, written, events, dropped,
    readerDropped, reader, item, server, owner, shutdownReply, result, consumer,
    noticed, hist>>
    BY <1>9 DEF RouterTakeAnswer, notRouter, callerVars, queueVars, dropVars,
      readerVars, ownerVars, consumerVars
  <2> QED
    BY <2>1, <2>2, <2>3, <2>4, <2>5, <2>6 DEF TypeOK
<1>10. CASE RouterTakeEvent
  <2>1. router' \in {"top", "select", "publish", "write", "closing", "join", "done"}
    BY <1>10 DEF TypeOK, RouterTakeEvent
  <2>2. incoming' \in Seq(MsgSet) /\ Len(incoming') <= MessageCapacity
    BY <1>10, QueueHeads DEF RouterTakeEvent
  <2>3. cur' \in CurSet
    BY <1>10, QueueHeads DEF RouterTakeEvent, MsgSet, CurSet
  <2>4. events' \in Seq(EventSet) /\ Len(events') <= EventCapacity
    BY <1>10, PublishCountType DEF TypeOK, RouterTakeEvent
  <2>5. dropped' \in Nat
    BY <1>10, PublishCountType DEF TypeOK, RouterTakeEvent
  <2>6. UNCHANGED <<call, reply, expired, commands, pending, written, readerDropped,
    reader, item, used, server, owner, shutdownReply, result, consumer, noticed,
    hist>>
    BY <1>10 DEF RouterTakeEvent, notRouter, callerVars, queueVars, dropVars,
      readerVars, ownerVars, consumerVars
  <2> QED
    BY <2>1, <2>2, <2>3, <2>4, <2>5, <2>6 DEF TypeOK
<1>11. CASE Published
  <2>1. router' \in {"top", "select", "publish", "write", "closing", "join", "done"}
    BY <1>11 DEF TypeOK, Published, NextIteration
  <2>2. events' \in Seq(EventSet) /\ Len(events') <= EventCapacity
    BY <1>11, QueueTails DEF Published, TypeOK, EventSet, CurSet, ControlOK
  <2>3. cur' \in CurSet
    BY <1>11 DEF TypeOK, Published, NextIteration, CurSet, NoMsg, Msg
  <2>4. UNCHANGED <<call, reply, expired, commands, pending, written, incoming,
    dropped, readerDropped, reader, item, used, server, owner, shutdownReply,
    result, consumer, noticed, hist>>
    BY <1>11 DEF Published, NextIteration, notRouter, callerVars, queueVars,
      dropVars, readerVars, ownerVars, consumerVars
  <2> QED
    BY <2>1, <2>2, <2>3, <2>4 DEF TypeOK
<1>12. CASE NotPublished
  <2>1. router' \in {"top", "select", "publish", "write", "closing", "join", "done"}
    BY <1>12 DEF TypeOK, NotPublished
  <2>2. reply' \in [Requests -> ReplyStates]
    BY <1>12, FailPendingType DEF TypeOK, NotPublished
  <2>3. pending' \subseteq Requests /\ Cardinality(pending') <= MaxPending
    BY <1>12, FailPendingType DEF TypeOK, NotPublished
  <2>4. used' \in 0..ByteLimit
    BY <1>12, FreedType DEF TypeOK, NotPublished
  <2>5. dropped' \in Nat
    BY <1>12 DEF TypeOK, NotPublished
  <2>6. cur' \in CurSet
    BY <1>12 DEF TypeOK, NotPublished, CurSet, NoMsg, Msg
  <2>7. UNCHANGED <<call, expired, commands, written, incoming, events,
    readerDropped, reader, item, server, owner, shutdownReply, result, consumer,
    noticed, hist>>
    BY <1>12 DEF NotPublished, notRouter, callerVars, queueVars, dropVars,
      readerVars, ownerVars, consumerVars
  <2> QED
    BY <2>1, <2>2, <2>3, <2>4, <2>5, <2>6, <2>7 DEF TypeOK
<1>13. CASE RouterIncomingFails
  <2>1. router' \in {"top", "select", "publish", "write", "closing", "join", "done"}
    BY <1>13 DEF TypeOK, RouterIncomingFails
  <2>2. reply' \in [Requests -> ReplyStates]
    BY <1>13, FailPendingType DEF TypeOK, RouterIncomingFails
  <2>3. pending' \subseteq Requests /\ Cardinality(pending') <= MaxPending
    BY <1>13, FailPendingType DEF TypeOK, RouterIncomingFails
  <2>4. incoming' \in Seq(MsgSet) /\ Len(incoming') <= MessageCapacity
    BY <1>13, QueueHeads DEF RouterIncomingFails, TypeOK
  <2>5. used' \in 0..ByteLimit
    BY <1>13, FreedType DEF TypeOK, RouterIncomingFails
  <2>6. UNCHANGED <<call, expired, commands, cur, written, events, dropped,
    readerDropped, reader, item, server, owner, shutdownReply, result, consumer,
    noticed, hist>>
    BY <1>13 DEF RouterIncomingFails, notRouter, callerVars, queueVars, dropVars,
      readerVars, ownerVars, consumerVars
  <2> QED
    BY <2>1, <2>2, <2>3, <2>4, <2>5, <2>6 DEF TypeOK
<1>14. CASE RouterReapChild
  <2>1. router' \in {"top", "select", "publish", "write", "closing", "join", "done"}
    BY <1>14 DEF TypeOK, RouterReapChild
  <2>2. server' \in {"running", "hung", "exited", "reaped"}
    BY <1>14 DEF TypeOK, RouterReapChild, ChildShutdown
  <2>3. UNCHANGED <<call, reply, expired, commands, pending, cur, written, incoming,
    events, dropped, readerDropped, reader, item, used, owner, shutdownReply,
    result, consumer, noticed, hist>>
    BY <1>14 DEF RouterReapChild, callerVars, queueVars, dropVars, readerVars,
      ownerVars, consumerVars
  <2> QED
    BY <2>1, <2>2, <2>3 DEF TypeOK
<1>15. CASE RouterFinish
  <2>1. router' \in {"top", "select", "publish", "write", "closing", "join", "done"}
    BY <1>15 DEF TypeOK, RouterFinish
  <2>2. cur' \in CurSet
    BY <1>15 DEF TypeOK, RouterFinish, CurSet, NoMsg, Msg
  <2>3. shutdownReply' \in {"none", "ok"}
    BY <1>15 DEF TypeOK, RouterFinish
  <2>4. events' \in Seq(EventSet) /\ Len(events') <= EventCapacity
    BY <1>15, QueueTails DEF RouterFinish, TypeOK, EventSet, Msg
  <2>5. commands' \in Seq(CommandSet) /\ Len(commands') <= CommandCapacity
    BY <1>15, CapacityAssumption DEF TypeOK, RouterFinish, Discarded
  <2>6. incoming' \in Seq(MsgSet) /\ Len(incoming') <= MessageCapacity
    BY <1>15, CapacityAssumption DEF TypeOK, RouterFinish
  <2>7. used' \in 0..ByteLimit
    BY <1>15, LeasesType, FreedType DEF TypeOK, RouterFinish
  <2>8. UNCHANGED <<call, reply, expired, pending, written, dropped, readerDropped,
    reader, item, server, owner, result, consumer, noticed, hist>>
    BY <1>15 DEF RouterFinish, callerVars, queueVars, dropVars, readerVars,
      ownerVars, consumerVars
  <2> QED
    BY <2>1, <2>2, <2>3, <2>4, <2>5, <2>6, <2>7, <2>8 DEF TypeOK
<1> QED
  BY <1>1, <1>2, <1>3, <1>4, <1>5, <1>6, <1>7, <1>8, <1>9, <1>10, <1>11,
    <1>12, <1>13, <1>14, <1>15 DEF RouterStep

LEMMA OwnerKeepsTypes ==
  ASSUME TypeOK, ControlOK, CallsOK, OwnerStep
  PROVE  TypeOK'
<1>1. CASE ShutdownStart
  <2>1. owner' \in {"open", "sending", "awaiting", "joining", "returned",
    "abandoned", "dropped"}
    BY <1>1 DEF TypeOK, ShutdownStart
  <2>2. UNCHANGED <<call, reply, expired, commands, pending, router, cur, written,
    incoming, events, dropped, readerDropped, reader, item, used, server,
    shutdownReply, result, consumer, noticed, hist>>
    BY <1>1 DEF ShutdownStart, notOwner, callerVars, queueVars, dropVars,
      readerVars, ownerVars, consumerVars
  <2> QED
    BY <2>1, <2>2 DEF TypeOK
<1>2. CASE ShutdownEnqueue
  <2>1. owner' \in {"open", "sending", "awaiting", "joining", "returned",
    "abandoned", "dropped"}
    BY <1>2 DEF TypeOK, ShutdownEnqueue
  <2>2. commands' \in Seq(CommandSet) /\ Len(commands') <= CommandCapacity
    BY <1>2, CommandTypes, QueueTails DEF ShutdownEnqueue
  <2>3. UNCHANGED <<call, reply, expired, pending, router, cur, written, incoming,
    events, dropped, readerDropped, reader, item, used, server, shutdownReply,
    result, consumer, noticed, hist>>
    BY <1>2 DEF ShutdownEnqueue, notOwner, callerVars, queueVars, dropVars,
      readerVars, ownerVars, consumerVars
  <2> QED
    BY <2>1, <2>2, <2>3 DEF TypeOK
<1>3. CASE ShutdownNotQueued
  <2>1. owner' \in {"open", "sending", "awaiting", "joining", "returned",
    "abandoned", "dropped"}
    BY <1>3 DEF TypeOK, ShutdownNotQueued
  <2>2. result' \in {"none", "ok", "error"}
    BY <1>3 DEF TypeOK, ShutdownNotQueued
  <2>3. UNCHANGED <<call, reply, expired, commands, pending, router, cur, written,
    incoming, events, dropped, readerDropped, reader, item, used, server,
    shutdownReply, consumer, noticed, hist>>
    BY <1>3 DEF ShutdownNotQueued, notOwner, callerVars, queueVars, dropVars,
      readerVars, ownerVars, consumerVars
  <2> QED
    BY <2>1, <2>2, <2>3 DEF TypeOK
<1>4. CASE ShutdownAnswered
  <2>1. owner' \in {"open", "sending", "awaiting", "joining", "returned",
    "abandoned", "dropped"}
    BY <1>4 DEF TypeOK, ShutdownAnswered
  <2>2. result' \in {"none", "ok", "error"}
    BY <1>4 DEF TypeOK, ShutdownAnswered
  <2>3. UNCHANGED <<call, reply, expired, commands, pending, router, cur, written,
    incoming, events, dropped, readerDropped, reader, item, used, server,
    shutdownReply, consumer, noticed, hist>>
    BY <1>4 DEF ShutdownAnswered, notOwner, callerVars, queueVars, dropVars,
      readerVars, ownerVars, consumerVars
  <2> QED
    BY <2>1, <2>2, <2>3 DEF TypeOK
<1>5. CASE ShutdownGivesUp
  <2>1. owner' \in {"open", "sending", "awaiting", "joining", "returned",
    "abandoned", "dropped"}
    BY <1>5 DEF TypeOK, ShutdownGivesUp
  <2>2. result' \in {"none", "ok", "error"}
    BY <1>5 DEF TypeOK, ShutdownGivesUp
  <2>3. UNCHANGED <<call, reply, expired, commands, pending, router, cur, written,
    incoming, events, dropped, readerDropped, reader, item, used, server,
    shutdownReply, consumer, noticed, hist>>
    BY <1>5 DEF ShutdownGivesUp, notOwner, callerVars, queueVars, dropVars,
      readerVars, ownerVars, consumerVars
  <2> QED
    BY <2>1, <2>2, <2>3 DEF TypeOK
<1>6. CASE ShutdownJoined
  <2>1. owner' \in {"open", "sending", "awaiting", "joining", "returned",
    "abandoned", "dropped"}
    BY <1>6 DEF TypeOK, ShutdownJoined
  <2>2. UNCHANGED <<call, reply, expired, commands, pending, router, cur, written,
    incoming, events, dropped, readerDropped, reader, item, used, server,
    shutdownReply, result, consumer, noticed, hist>>
    BY <1>6 DEF ShutdownJoined, notOwner, callerVars, queueVars, dropVars,
      readerVars, ownerVars, consumerVars
  <2> QED
    BY <2>1, <2>2 DEF TypeOK
<1>7. CASE DropConnection
  <2>1. owner' \in {"open", "sending", "awaiting", "joining", "returned",
    "abandoned", "dropped"}
    BY <1>7 DEF TypeOK, DropConnection
  <2>2. events' \in Seq(EventSet) /\ Len(events') <= EventCapacity
    BY <1>7, CapacityAssumption DEF TypeOK, DropConnection
  <2>3. used' \in 0..ByteLimit
    BY <1>7, LeasesType, FreedType DEF TypeOK, DropConnection
  <2>4. UNCHANGED <<call, reply, expired, commands, pending, router, cur, written,
    incoming, dropped, readerDropped, reader, item, server, shutdownReply, result,
    consumer, noticed, hist>>
    BY <1>7 DEF DropConnection, notOwner, callerVars, queueVars, dropVars,
      readerVars, ownerVars, consumerVars
  <2> QED
    BY <2>1, <2>2, <2>3, <2>4 DEF TypeOK
<1> QED
  BY <1>1, <1>2, <1>3, <1>4, <1>5, <1>6, <1>7 DEF OwnerStep

-----------------------------------------------------------------------------
(* Calls: where a request is agrees with what its caller was told. *)

LEMMA CallsFrame ==
  ASSUME CallsOK, UNCHANGED <<call, reply, commands, pending, written>>,
         router' # "done" => router # "done"
  PROVE  CallsOK'
  BY DEF CallsOK, CommandsDistinct, CallOK, QueuedCall

LEMMA DistinctAfterAppend ==
  ASSUME TypeOK, CommandsDistinct, NEW m, commands' = Append(commands, m),
         m.kind = "call" => m.n \in Requests /\ m = Msg("call", m.n) /\ ~QueuedCall(m.n)
  PROVE  CommandsDistinct'
<1>1. commands \in Seq(CommandSet) /\ Len(commands) \in Nat
  BY DEF TypeOK
<1>2. /\ DOMAIN commands = 1..Len(commands)
      /\ DOMAIN commands' = 1..(Len(commands) + 1)
      /\ \A i \in 1..Len(commands) : commands'[i] = commands[i]
      /\ commands'[Len(commands) + 1] = m
  BY <1>1
<1>3. m.kind = "call" => \A i \in DOMAIN commands : commands[i] # m
  BY DEF QueuedCall
<1> QED
  BY <1>1, <1>2, <1>3 DEF CommandsDistinct

(* A frame or a shutdown is queued behind the calls.                         *)
LEMMA CallsAfterOtherCommand ==
  ASSUME TypeOK, CallsOK, NEW kind \in {"frame", "shutdown"},
         commands' = Append(commands, Msg(kind, 0)),
         UNCHANGED <<call, reply, pending, written, router>>
  PROVE  CallsOK'
<1>1. CommandsDistinct'
  BY DistinctAfterAppend DEF CallsOK, Msg
<1>2. \A id \in Requests : QueuedCall(id)' <=> QueuedCall(id)
  BY QueuedAfterAppend DEF Msg
<1> QED
  BY <1>1, <1>2 DEF CallsOK, CallOK

(* The router takes a command that is not a call off the queue.              *)
LEMMA CallsAfterTake ==
  ASSUME TypeOK, CallsOK, commands # <<>>, commands' = Tail(commands),
         Head(commands).kind # "call"
  PROVE  CommandsDistinct' /\ \A id \in Requests : QueuedCall(id)' <=> QueuedCall(id)
<1>1. CommandsDistinct
  BY DEF CallsOK
<1>2. \A id \in Requests : Head(commands) # Msg("call", id)
  BY DEF Msg
<1> QED
  BY <1>1, <1>2, QueuedAfterTail

(* Failing every pending request tells each of its callers.                  *)
LEMMA CallsAfterFailPending ==
  ASSUME TypeOK, CallsOK, FailPending, UNCHANGED <<call, written>>,
         router # "done", CommandsDistinct',
         \A id \in Requests : QueuedCall(id)' <=> QueuedCall(id)
  PROVE  CallsOK'
  BY DEF TypeOK, CallsOK, CallOK, FailPending, Reply, Answers, Refusals

LEMMA CallerKeepsCalls ==
  ASSUME TypeOK, ControlOK, CallsOK, NEW id \in Requests, CallerStep(id)
  PROVE  CallsOK'
<1> USE DEF callerVars, queueVars, dropVars, readerVars, ownerVars, consumerVars, notCaller
<1>1. CASE CallStart(id)
  BY <1>1 DEF CallStart, TypeOK, CallsOK, CommandsDistinct, CallOK, QueuedCall,
    Refusals, Answers
<1>2. CASE CallEnqueue(id)
  <2>1. ~QueuedCall(id) /\ id \notin pending \cup written /\ reply[id] = "none"
    BY <1>2 DEF CallEnqueue, CallsOK, CallOK
  <2>2. CommandsDistinct'
    BY <1>2, <2>1, DistinctAfterAppend DEF CallEnqueue, CallsOK, Msg
  <2>3. ASSUME NEW x \in Requests PROVE CallOK(x)'
    <3>1. QueuedCall(x)' <=> QueuedCall(x) \/ x = id
      BY <1>2, QueuedAfterAppend DEF CallEnqueue, Msg
    <3> QED
      BY <1>2, <2>1, <3>1 DEF CallEnqueue, TypeOK, CallsOK, CallOK, Answers, Refusals
  <2> QED
    BY <2>2, <2>3 DEF CallsOK
<1>3. CASE CallNotQueued(id)
  BY <1>3 DEF CallNotQueued, TypeOK, CallsOK, CommandsDistinct, CallOK, QueuedCall,
    Refusals, Answers
<1>4. CASE CallReceive(id)
  BY <1>4 DEF CallReceive, TypeOK, CallsOK, CommandsDistinct, CallOK, QueuedCall,
    Refusals, Answers, ReplyStates, Failures
<1>5. CASE CallTimeout(id)
  BY <1>5 DEF CallTimeout, TypeOK, CallsOK, CommandsDistinct, CallOK, QueuedCall,
    Refusals, Answers
<1>6. CASE CallDisconnected(id)
  BY <1>6 DEF CallDisconnected, TypeOK, CallsOK, CommandsDistinct, CallOK, QueuedCall,
    Refusals, Answers
<1>7. CASE Expire(id)
  BY <1>7, CallsFrame DEF Expire
<1> QED
  BY <1>1, <1>2, <1>3, <1>4, <1>5, <1>6, <1>7 DEF CallerStep

LEMMA RouterKeepsCalls ==
  ASSUME TypeOK, ControlOK, CallsOK, RouterStep
  PROVE  CallsOK'
<1> USE DEF callerVars, queueVars, dropVars, readerVars, ownerVars, consumerVars, notRouter
<1>1. CASE RouterTop
  <2>1. CommandsDistinct' /\ \A x \in Requests : QueuedCall(x)' <=> QueuedCall(x)
    BY <1>1 DEF RouterTop, CallsOK, CommandsDistinct, QueuedCall
  <2> QED
    BY <1>1, <2>1 DEF RouterTop, Reply, TypeOK, CallsOK, CallOK, Answers, Refusals
<1>2. CASE RouterTick
  BY <1>2, CallsFrame DEF RouterTick
<1>3. CASE RouterTakeCall
  <2> DEFINE id == Head(commands).n
  <2>1. /\ id \in Requests /\ QueuedCall(id) /\ Head(commands) = Msg("call", id)
        /\ commands # <<>> /\ commands' = Tail(commands)
    BY <1>3, CallHead DEF RouterTakeCall
  <2>2. /\ CommandsDistinct'
        /\ \A x \in Requests : QueuedCall(x)' <=> QueuedCall(x) /\ x # id
    <3>1. CommandsDistinct
      BY DEF CallsOK
    <3>2. \A x \in Requests : Head(commands) # Msg("call", x) <=> x # id
      BY <2>1 DEF Msg
    <3> HIDE DEF id
    <3> QED
      BY <2>1, <3>1, <3>2, QueuedAfterTail
  <2>3. UNCHANGED <<call, written>> /\ router = "select" /\ router' # "done"
    BY <1>3 DEF RouterTakeCall, Refuse
  <2>4. CASE ~TableRoom /\ Refuse(id)
    BY <2>1, <2>2, <2>3, <2>4 DEF Refuse, Reply, TypeOK, CallsOK, CallOK, Answers, Refusals
  <2>5. CASE pending' = pending \cup {id} /\ UNCHANGED reply
    BY <2>1, <2>2, <2>3, <2>5 DEF TypeOK, CallsOK, CallOK, Answers, Refusals
  <2> QED
    BY <1>3, <2>4, <2>5 DEF RouterTakeCall
<1>4. CASE RouterTakeFrame
  <2>1. /\ CommandsDistinct' /\ \A x \in Requests : QueuedCall(x)' <=> QueuedCall(x)
    BY <1>4, CallsAfterTake DEF RouterTakeFrame
  <2> QED
    BY <1>4, <2>1 DEF RouterTakeFrame, CallsOK, CallOK
<1>5. CASE RouterTakeShutdown
  BY <1>5, CallsAfterTake, CallsAfterFailPending DEF RouterTakeShutdown
<1>6. CASE RouterWrite \/ RouterWriteHung
  <2>1. CommandsDistinct' /\ \A x \in Requests : QueuedCall(x)' <=> QueuedCall(x)
    BY <1>6 DEF RouterWrite, RouterWriteHung, WriteSucceeds, CallsOK, CommandsDistinct,
      QueuedCall
  <2> QED
    BY <1>6, <2>1 DEF RouterWrite, RouterWriteHung, WriteSucceeds, ControlOK, TypeOK,
      CallsOK, CallOK
<1>7. CASE RouterWriteFails
  <2>1. CommandsDistinct' /\ \A x \in Requests : QueuedCall(x)' <=> QueuedCall(x)
    BY <1>7 DEF RouterWriteFails, CallsOK, CommandsDistinct, QueuedCall
  <2>2. cur.kind = "call" => cur.n \in pending
    BY DEF ControlOK
  <2> QED
    BY <1>7, <2>1, <2>2 DEF RouterWriteFails, Reply, Msg, TypeOK, CallsOK, CallOK,
      Answers, Refusals
<1>8. CASE RouterTakeAnswer
  <2>1. CommandsDistinct' /\ \A x \in Requests : QueuedCall(x)' <=> QueuedCall(x)
    BY <1>8 DEF RouterTakeAnswer, CallsOK, CommandsDistinct, QueuedCall
  <2>2. Head(incoming).n \in written
    <3>1. incoming \in Seq(MsgSet) /\ incoming # <<>>
      BY <1>8 DEF RouterTakeAnswer, TypeOK
    <3>2. 1 \in DOMAIN incoming /\ Head(incoming) = incoming[1]
      BY <3>1
    <3> QED
      BY <1>8, <3>2 DEF RouterTakeAnswer, ControlOK
  <2> QED
    BY <1>8, <2>1, <2>2 DEF RouterTakeAnswer, Reply, TypeOK, CallsOK, CallOK, Answers,
      Refusals
<1>9. CASE RouterTakeEvent
  BY <1>9, CallsFrame DEF RouterTakeEvent
<1>10. CASE Published
  BY <1>10, CallsFrame DEF Published
<1>11. CASE NotPublished
  <2>1. CommandsDistinct' /\ \A x \in Requests : QueuedCall(x)' <=> QueuedCall(x)
    BY <1>11 DEF NotPublished, CallsOK, CommandsDistinct, QueuedCall
  <2>2. UNCHANGED <<call, written, commands>> /\ router = "publish"
    BY <1>11 DEF NotPublished
  <2>3. CASE FailPending
    BY <2>1, <2>2, <2>3, CallsAfterFailPending
  <2>4. CASE UNCHANGED <<reply, pending>>
    BY <2>2, <2>4, CallsFrame
  <2> QED
    BY <1>11, <2>3, <2>4 DEF NotPublished
<1>12. CASE RouterIncomingFails
  <2>1. CommandsDistinct' /\ \A x \in Requests : QueuedCall(x)' <=> QueuedCall(x)
    BY <1>12 DEF RouterIncomingFails, CallsOK, CommandsDistinct, QueuedCall
  <2> QED
    BY <1>12, <2>1, CallsAfterFailPending DEF RouterIncomingFails
<1>13. CASE RouterReapChild
  BY <1>13, CallsFrame DEF RouterReapChild
<1>14. CASE RouterFinish
  <2>1. commands' = <<>> /\ router' = "done" /\ UNCHANGED <<call, reply, pending, written>>
    BY <1>14 DEF RouterFinish, Discarded
  <2>2. CommandsDistinct' /\ \A x \in Requests : ~QueuedCall(x)'
    BY <2>1 DEF CommandsDistinct, QueuedCall
  <2> QED
    BY <2>1, <2>2 DEF CallsOK, CallOK
<1> QED
  BY <1>1, <1>2, <1>3, <1>4, <1>5, <1>6, <1>7, <1>8, <1>9, <1>10, <1>11, <1>12,
    <1>13, <1>14 DEF RouterStep

LEMMA OthersKeepCalls ==
  ASSUME TypeOK, CallsOK,
         \/ SendFrame \/ ConsumerStep \/ ReaderStep \/ ServerExit \/ ServerHang \/ OwnerStep
  PROVE  CallsOK'
<1> USE DEF callerVars, queueVars, dropVars, readerVars, ownerVars, consumerVars
<1>1. CASE SendFrame
  BY <1>1, CallsAfterOtherCommand DEF SendFrame, notCaller
<1>2. CASE ShutdownEnqueue
  BY <1>2, CallsAfterOtherCommand DEF ShutdownEnqueue, notOwner
<1>3. CASE \/ ConsumerStep \/ ReaderStep \/ ServerExit \/ ServerHang
           \/ OwnerStep /\ ~ShutdownEnqueue
  <2>1. UNCHANGED <<call, reply, commands, pending, written, router>>
    BY <1>3 DEF ConsumerStep, ConsumerReceive, ConsumerDone, ConsumerClosed, notConsumer,
      ReaderStep, ReaderReadLossy, ReaderReadFrame, ReaderReadFinal, ReaderAcquire,
      ReaderSend, notReader, ServerExit, ServerHang, OwnerStep, ShutdownStart,
      ShutdownNotQueued, ShutdownAnswered, ShutdownGivesUp, ShutdownJoined,
      DropConnection, notOwner
  <2> QED
    BY <2>1, CallsFrame
<1> QED
  BY <1>1, <1>2, <1>3

-----------------------------------------------------------------------------
(* Control: the program counters agree with the message in hand. *)

LEMMA ControlFrame ==
  ASSUME ControlOK,
         UNCHANGED <<router, cur, pending, reader, item, written, incoming>>
  PROVE  ControlOK'
  BY DEF ControlOK

(* A call that is being written stays pending, its answer comes from written. *)
LEMMA IncomingAfterAppend ==
  ASSUME TypeOK, ControlOK, reader = "send", incoming' = Append(incoming, item),
         UNCHANGED written
  PROVE  \A i \in DOMAIN incoming' :
            incoming'[i].kind \in AnswerKinds => incoming'[i].n \in written'
<1>1. incoming \in Seq(MsgSet) /\ Len(incoming) \in Nat
  BY DEF TypeOK
<1>2. /\ DOMAIN incoming = 1..Len(incoming)
      /\ DOMAIN incoming' = 1..(Len(incoming) + 1)
      /\ \A i \in 1..Len(incoming) : incoming'[i] = incoming[i]
      /\ incoming'[Len(incoming) + 1] = item
  BY <1>1
<1>3. item.kind \in AnswerKinds => item.n \in written
  BY DEF ControlOK
<1>4. \A i \in DOMAIN incoming : incoming[i].kind \in AnswerKinds => incoming[i].n \in written
  BY DEF ControlOK
<1> QED
  BY <1>1, <1>2, <1>3, <1>4

LEMMA IncomingAfterTail ==
  ASSUME TypeOK, ControlOK, incoming # <<>>, incoming' = Tail(incoming),
         UNCHANGED written
  PROVE  \A i \in DOMAIN incoming' :
            incoming'[i].kind \in AnswerKinds => incoming'[i].n \in written'
<1>1. incoming \in Seq(MsgSet) /\ Len(incoming) \in Nat \ {0}
  BY DEF TypeOK
<1>2. /\ DOMAIN incoming = 1..Len(incoming)
      /\ DOMAIN incoming' = 1..(Len(incoming) - 1)
      /\ \A i \in DOMAIN incoming' : i + 1 \in DOMAIN incoming /\ incoming'[i] = incoming[i + 1]
  BY <1>1
<1> QED
  BY <1>2 DEF ControlOK

LEMMA ReaderKeepsControl ==
  ASSUME TypeOK, ControlOK, ReaderStep
  PROVE  ControlOK'
<1> USE DEF callerVars, queueVars, dropVars, readerVars, ownerVars, consumerVars, notReader
<1>1. CASE ReaderReadLossy
  BY <1>1 DEF ReaderReadLossy, ControlOK, Msg, AnswerKinds, MsgSet, FrameKinds, EventKinds
<1>2. CASE ReaderReadFrame
  <2>1. UNCHANGED <<router, cur, pending, written, incoming>> /\ reader' = "acquire"
    BY <1>2 DEF ReaderReadFrame
  <2>2. item'.kind \in FrameKinds /\ (item'.kind \in AnswerKinds => item'.n \in written)
    BY <1>2 DEF ReaderReadFrame, Msg, FrameKinds, AnswerKinds, EventKinds
  <2> QED
    BY <2>1, <2>2 DEF ControlOK
<1>3. CASE ReaderReadFinal
  <2>1. UNCHANGED <<router, cur, pending, written, incoming>> /\ reader' = "send"
    BY <1>3 DEF ReaderReadFinal
  <2>2. item' \in MsgSet /\ item'.kind \notin AnswerKinds
    BY <1>3 DEF ReaderReadFinal, Msg, MsgSet, FinalKinds, AnswerKinds
  <2> QED
    BY <2>1, <2>2 DEF ControlOK
<1>4. CASE ReaderAcquire
  <2>1. UNCHANGED <<router, cur, pending, written, incoming>> /\ reader' = "send"
    BY <1>4 DEF ReaderAcquire
  <2>2. item' \in MsgSet /\ (item'.kind \in AnswerKinds => item'.n \in written)
    <3>1. Msg("overloaded", 0) \in MsgSet /\ Msg("overloaded", 0).kind \notin AnswerKinds
      BY DEF Msg, MsgSet, FinalKinds, AnswerKinds
    <3>2. item \in MsgSet
      <4>1. item.kind \in FrameKinds /\ NoMsg.kind \notin FrameKinds
        BY <1>4 DEF ReaderAcquire, ControlOK, NoMsg, Msg, FrameKinds, AnswerKinds, EventKinds
      <4> QED
        BY <4>1 DEF TypeOK
    <3> QED
      BY <1>4, <3>1, <3>2 DEF ReaderAcquire, ControlOK
  <2> QED
    BY <2>1, <2>2 DEF ControlOK
<1>5. CASE ReaderSend
  <2>1. UNCHANGED <<router, cur, pending, written>> /\ reader' \in {"read", "stopped"}
    BY <1>5 DEF ReaderSend
  <2>2. item' = NoMsg /\ NoMsg.kind \notin AnswerKinds
    BY <1>5 DEF ReaderSend, NoMsg, Msg, AnswerKinds
  <2>3. incoming' = Append(incoming, item) \/ UNCHANGED incoming
    BY <1>5 DEF ReaderSend
  <2>4. \A i \in DOMAIN incoming' :
           incoming'[i].kind \in AnswerKinds => incoming'[i].n \in written'
    BY <1>5, <2>1, <2>3, IncomingAfterAppend DEF ReaderSend, ControlOK
  <2> QED
    BY <2>1, <2>2, <2>4 DEF ControlOK
<1> QED
  BY <1>1, <1>2, <1>3, <1>4, <1>5 DEF ReaderStep

LEMMA RouterKeepsControl ==
  ASSUME TypeOK, ControlOK, CallsOK, RouterStep
  PROVE  ControlOK'
<1> USE DEF callerVars, queueVars, dropVars, readerVars, ownerVars, consumerVars, notRouter
<1> USE DEF NoMsg, Msg, EventKinds
<1>1. CASE RouterTop
  BY <1>1 DEF RouterTop, ControlOK
<1>2. CASE RouterTick
  BY <1>2 DEF RouterTick, ControlOK
<1>3. CASE RouterTakeCall
  <2>1. UNCHANGED <<reader, item, written, incoming>>
    BY <1>3 DEF RouterTakeCall
  <2>2. \/ router' = "top" /\ UNCHANGED <<pending, cur>>
        \/ /\ router' = "write" /\ cur' = Msg("call", Head(commands).n)
           /\ pending' = pending \cup {Head(commands).n}
    BY <1>3 DEF RouterTakeCall, Refuse
  <2> QED
    BY <1>3, <2>1, <2>2 DEF RouterTakeCall, ControlOK
<1>4. CASE RouterTakeFrame
  BY <1>4 DEF RouterTakeFrame, ControlOK
<1>5. CASE RouterTakeShutdown
  BY <1>5 DEF RouterTakeShutdown, FailPending, ControlOK
<1>6. CASE RouterWrite \/ RouterWriteHung
  <2>1. /\ UNCHANGED <<reader, item, incoming, pending>> /\ written \subseteq written'
        /\ cur' = NoMsg /\ router' = "top"
    BY <1>6 DEF RouterWrite, RouterWriteHung, WriteSucceeds
  <2> QED
    BY <2>1 DEF ControlOK
<1>7. CASE RouterWriteFails
  BY <1>7 DEF RouterWriteFails, ControlOK
<1>8. CASE RouterTakeAnswer
  <2>1. UNCHANGED <<reader, item, written, cur>> /\ router = "select" /\ router' = "top"
    BY <1>8 DEF RouterTakeAnswer
  <2>2. \A i \in DOMAIN incoming' :
           incoming'[i].kind \in AnswerKinds => incoming'[i].n \in written'
    BY <1>8, IncomingAfterTail DEF RouterTakeAnswer
  <2> QED
    BY <2>1, <2>2 DEF ControlOK
<1>9. CASE RouterTakeEvent
  <2>1. /\ UNCHANGED <<reader, item, written, pending>> /\ router' = "publish"
        /\ cur'.kind \in EventKinds
    BY <1>9 DEF RouterTakeEvent
  <2>2. \A i \in DOMAIN incoming' :
           incoming'[i].kind \in AnswerKinds => incoming'[i].n \in written'
    BY <1>9, IncomingAfterTail DEF RouterTakeEvent
  <2> QED
    BY <2>1, <2>2 DEF ControlOK
<1>10. CASE Published
  BY <1>10 DEF Published, NextIteration, ControlOK
<1>11. CASE NotPublished
  <2>1. UNCHANGED <<reader, item, written, incoming>>
    BY <1>11 DEF NotPublished
  <2>2. \/ cur'.kind = "reject" /\ router' = "write"
        \/ cur' = NoMsg /\ router' = "top"
        \/ cur' = NoMsg /\ router' = "closing" /\ pending' = {}
    BY <1>11 DEF NotPublished, FailPending
  <2> QED
    BY <2>1, <2>2 DEF ControlOK
<1>12. CASE RouterIncomingFails
  <2>1. /\ UNCHANGED <<reader, item, written, cur>> /\ router = "select"
        /\ router' = "closing" /\ pending' = {}
    BY <1>12 DEF RouterIncomingFails, FailPending
  <2>2. \A i \in DOMAIN incoming' :
           incoming'[i].kind \in AnswerKinds => incoming'[i].n \in written'
    BY <1>12, <2>1, IncomingAfterTail DEF RouterIncomingFails, ControlOK
  <2> QED
    BY <2>1, <2>2 DEF ControlOK
<1>13. CASE RouterReapChild
  BY <1>13 DEF RouterReapChild, ControlOK
<1>14. CASE RouterFinish
  <2>1. /\ UNCHANGED <<reader, item, written, pending>> /\ router' = "done" /\ router = "join"
        /\ cur' = NoMsg /\ incoming' = <<>>
    BY <1>14 DEF RouterFinish
  <2> QED
    BY <2>1 DEF ControlOK
<1> QED
  BY <1>1, <1>2, <1>3, <1>4, <1>5, <1>6, <1>7, <1>8, <1>9, <1>10, <1>11, <1>12,
    <1>13, <1>14 DEF RouterStep

LEMMA OthersKeepControl ==
  ASSUME ControlOK,
         \/ \E id \in Requests : CallerStep(id)
         \/ SendFrame \/ ConsumerStep \/ ServerExit \/ ServerHang \/ OwnerStep
  PROVE  ControlOK'
<1>1. UNCHANGED <<router, cur, pending, reader, item, written, incoming>>
  <2> USE DEF callerVars, queueVars, dropVars, readerVars, ownerVars, consumerVars
  <2>1. CASE \E id \in Requests : CallerStep(id)
    BY <2>1 DEF CallerStep, CallStart, CallEnqueue, CallNotQueued, CallReceive, CallTimeout,
      CallDisconnected, Expire, notCaller
  <2>2. CASE SendFrame \/ ConsumerStep \/ ServerExit \/ ServerHang
    BY <2>2 DEF SendFrame, notCaller, ConsumerStep, ConsumerReceive, ConsumerDone,
      ConsumerClosed, notConsumer, ServerExit, ServerHang
  <2>3. CASE OwnerStep
    BY <2>3 DEF OwnerStep, ShutdownStart, ShutdownEnqueue, ShutdownNotQueued,
      ShutdownAnswered, ShutdownGivesUp, ShutdownJoined, DropConnection, notOwner
  <2> QED
    BY <2>1, <2>2, <2>3
<1> QED
  BY <1>1, ControlFrame

-----------------------------------------------------------------------------
(* The theorems. *)

LEMMA OthersKeepTypes ==
  ASSUME TypeOK, SendFrame \/ ServerExit \/ ServerHang
  PROVE  TypeOK'
<1> USE DEF callerVars, queueVars, dropVars, readerVars, ownerVars, consumerVars
<1>1. CASE SendFrame
  <2>1. commands' \in Seq(CommandSet) /\ Len(commands') <= CommandCapacity
    BY <1>1, CommandTypes, QueueTails DEF SendFrame
  <2>2. hist' \in HistSet
    BY <1>1, HistType DEF SendFrame
  <2>3. UNCHANGED <<call, reply, expired, pending, router, cur, written, incoming, events,
    dropped, readerDropped, reader, item, used, server, owner, shutdownReply,
    result, consumer, noticed>>
    BY <1>1 DEF SendFrame, notCaller
  <2> QED
    BY <2>1, <2>2, <2>3 DEF TypeOK
<1>2. CASE ServerExit \/ ServerHang
  <2>1. server' \in {"running", "hung", "exited", "reaped"}
    BY <1>2 DEF ServerExit, ServerHang
  <2>2. UNCHANGED <<call, reply, expired, commands, pending, router, cur, written, incoming,
    events, dropped, readerDropped, reader, item, used, owner, shutdownReply,
    result, consumer, noticed, hist>>
    BY <1>2 DEF ServerExit, ServerHang
  <2> QED
    BY <2>1, <2>2 DEF TypeOK
<1> QED
  BY <1>1, <1>2

LEMMA InitIInv == Init => IInv
<1> SUFFICES ASSUME Init PROVE IInv
  OBVIOUS
<1>1. TypeOK
  <2>1. Cardinality(pending) <= MaxPending /\ pending = {}
    BY FS_EmptySet, CapacityAssumption DEF Init
  <2>2. /\ commands \in Seq(CommandSet) /\ Len(commands) <= CommandCapacity
        /\ incoming \in Seq(MsgSet) /\ Len(incoming) <= MessageCapacity
        /\ events \in Seq(EventSet) /\ Len(events) <= EventCapacity
    BY CapacityAssumption DEF Init
  <2>3. hist \in HistSet
    BY DEF Init, HistSet
  <2>4. /\ cur \in CurSet /\ item \in MsgSet \cup {NoMsg} /\ consumer \in EventSet \cup {NoMsg}
        /\ used \in 0..ByteLimit
    BY CapacityAssumption DEF Init, CurSet, NoMsg, Msg
  <2>5. call \in [Requests -> CallStates] /\ reply \in [Requests -> ReplyStates]
    BY DEF Init, CallStates, ReplyStates
  <2> QED
    BY <2>1, <2>2, <2>3, <2>4, <2>5 DEF Init, TypeOK
<1>2. ControlOK
  BY DEF Init, ControlOK, NoMsg, Msg, EventKinds, AnswerKinds
<1>3. CallsOK
  BY DEF Init, CallsOK, CommandsDistinct, CallOK, QueuedCall, Answers, Refusals
<1> QED
  BY <1>1, <1>2, <1>3 DEF IInv

LEMMA NextIInv == IInv /\ [Next]_vars => IInv'
<1> SUFFICES ASSUME IInv, [Next]_vars PROVE IInv'
  OBVIOUS
<1>1. TypeOK /\ ControlOK /\ CallsOK
  BY DEF IInv
<1>2. CASE \E id \in Requests : CallerStep(id)
  BY <1>1, <1>2, CallerKeepsTypes, OthersKeepControl, CallerKeepsCalls DEF IInv
<1>3. CASE ConsumerStep
  BY <1>1, <1>3, ConsumerKeepsTypes, OthersKeepControl, OthersKeepCalls DEF IInv
<1>4. CASE ReaderStep
  BY <1>1, <1>4, ReaderKeepsTypes, ReaderKeepsControl, OthersKeepCalls DEF IInv
<1>5. CASE RouterStep
  BY <1>1, <1>5, RouterKeepsTypes, RouterKeepsControl, RouterKeepsCalls DEF IInv
<1>6. CASE OwnerStep
  BY <1>1, <1>6, OwnerKeepsTypes, OthersKeepControl, OthersKeepCalls DEF IInv
<1>7. CASE SendFrame \/ ServerExit \/ ServerHang
  BY <1>1, <1>7, OthersKeepTypes, OthersKeepControl, OthersKeepCalls DEF IInv
<1>8. CASE UNCHANGED vars
  <2>1. UNCHANGED <<call, reply, expired, commands, pending, router, cur, written, incoming,
    events, dropped, readerDropped, reader, item, used, server, owner, shutdownReply,
    result, consumer, noticed, hist>>
    BY <1>8 DEF vars, callerVars, queueVars, dropVars, readerVars, ownerVars, consumerVars
  <2>2. TypeOK'
    BY <1>1, <2>1 DEF TypeOK
  <2> QED
    BY <1>1, <2>1, <2>2, ControlFrame, CallsFrame DEF IInv
<1> QED
  BY <1>2, <1>3, <1>4, <1>5, <1>6, <1>7, <1>8 DEF Next

(* The inductive invariant: types, program counters and calls agree in every *)
(* reachable state, for any number of requests, frames and capacities.       *)
THEOREM InductiveInvariant == Spec => []IInv
<1> QED
  BY InitIInv, NextIInv, PTL DEF Spec

(* Every queue of the connection and the pending table stay within the       *)
(* capacities they were created with, and no step leaves its type.           *)
THEOREM TypeCorrect == Spec => []TypeOK
<1>1. IInv => TypeOK
  BY DEF IInv
<1> QED
  BY <1>1, InductiveInvariant, PTL

(* The reply sender of a waiting request is in exactly one place while the   *)
(* router lives: command channel, pending table or reply channel.            *)
THEOREM NoCallOrphaned == Spec => []NoOrphanedCall
<1>1. IInv => NoOrphanedCall
  BY DEF IInv, CallsOK, CallOK, NoOrphanedCall
<1> QED
  BY <1>1, InductiveInvariant, PTL

(* A request refused for lack of room was not written, and never will be.    *)
THEOREM RefusedNeverSent == Spec => []RefusedIsNeverSent
<1>1. IInv => RefusedIsNeverSent
  BY DEF IInv, CallsOK, CallOK, RefusedIsNeverSent, Refusals
<1> QED
  BY <1>1, InductiveInvariant, PTL

-----------------------------------------------------------------------------
(* Refinement: each step of the connection is one step of the contract or    *)
(* leaves its variables alone.                                               *)

LEMMA PhaseTable ==
  /\ PhaseOf("idle") = "idle"
  /\ \A c \in {"sending", "waiting"} : PhaseOf(c) = "open"
  /\ \A c \in Answers : PhaseOf(c) = "answered"
  /\ \A c \in Refusals : PhaseOf(c) = "refused"
  /\ \A c \in Failures : PhaseOf(c) = "failed"
  BY DEF PhaseOf, Answers, Refusals, Failures

LEMMA InitContract == Init => Contract!Init
  BY PhaseTable DEF Init, Contract!Init, Phase

LEMMA PhaseChange ==
  ASSUME TypeOK, NEW id \in Requests, NEW to, call' = [call EXCEPT ![id] = to]
  PROVE  Phase' = [Phase EXCEPT ![id] = PhaseOf(to)]
  BY DEF TypeOK, Phase

LEMMA NextContract == IInv /\ [Next]_vars => [Contract!Next]_(Contract!vars)
<1> SUFFICES ASSUME IInv, [Next]_vars PROVE [Contract!Next]_(Contract!vars)
  OBVIOUS
<1> USE DEF callerVars, queueVars, dropVars, readerVars, ownerVars, consumerVars
<1>0. TypeOK /\ ControlOK /\ CallsOK
  BY DEF IInv
<1>1. CASE UNCHANGED <<call, written>>
  BY <1>1 DEF Contract!vars, Phase
<1>2. ASSUME NEW id \in Requests, CallerStep(id) PROVE [Contract!Next]_(Contract!vars)
  <2>1. UNCHANGED written
    BY <1>2 DEF CallerStep, CallStart, CallEnqueue, CallNotQueued, CallReceive, CallTimeout,
      CallDisconnected, Expire, notCaller
  <2>2. CASE CallStart(id)
    <3>1. PICK to \in {"sending", "closed"} : call' = [call EXCEPT ![id] = to]
      BY <2>2 DEF CallStart
    <3>2. Phase' = [Phase EXCEPT ![id] = IF to = "sending" THEN "open" ELSE "failed"]
      <4>1. PhaseOf("sending") = "open" /\ PhaseOf("closed") = "failed"
        BY PhaseTable DEF Failures
      <4> QED
        BY <1>0, <3>1, <4>1, PhaseChange
    <3>3. Phase[id] = "idle"
      BY <2>2, PhaseTable DEF CallStart, Phase
    <3> QED
      BY <2>1, <3>2, <3>3 DEF Contract!Next, Contract!Issue
  <2>3. CASE CallEnqueue(id)
    <3>1. Phase' = [Phase EXCEPT ![id] = "open"] /\ Phase[id] = "open"
      <4>1. call[id] = "sending" /\ call' = [call EXCEPT ![id] = "waiting"]
        BY <2>3 DEF CallEnqueue
      <4> QED
        BY <1>0, <4>1, PhaseChange, PhaseTable DEF Phase
    <3>2. UNCHANGED Phase
      BY <3>1 DEF Phase
    <3> QED
      BY <2>1, <3>2 DEF Contract!vars
  <2>4. CASE CallNotQueued(id) \/ CallReceive(id) \/ CallTimeout(id) \/ CallDisconnected(id)
    <3>1. Phase[id] = "open"
      <4>1. call[id] \in {"sending", "waiting"}
        BY <2>4 DEF CallNotQueued, CallReceive, CallTimeout, CallDisconnected
      <4> QED
        BY <4>1, PhaseTable DEF Phase
    <3>2. PICK to \in Outcomes :
             /\ call' = [call EXCEPT ![id] = to]
             /\ to \in Answers => id \in written
             /\ to \in Refusals => id \notin written
      BY <1>0, <2>4 DEF CallNotQueued, CallReceive, CallTimeout, CallDisconnected, TypeOK,
        CallsOK, CallOK, Outcomes, ReplyStates, Answers, Refusals, Failures
    <3>3. Phase' = [Phase EXCEPT ![id] = IF to \in Answers THEN "answered"
                                         ELSE IF to \in Refusals THEN "refused" ELSE "failed"]
      <4>1. PhaseOf(to) = IF to \in Answers THEN "answered"
                          ELSE IF to \in Refusals THEN "refused" ELSE "failed"
        BY <3>2, PhaseTable DEF Outcomes
      <4> QED
        BY <1>0, <3>2, <4>1, PhaseChange
    <3> QED
      BY <2>1, <3>1, <3>2, <3>3 DEF Contract!Next, Contract!Finish
  <2>5. CASE Expire(id)
    BY <1>1, <2>1, <2>5 DEF Expire
  <2> QED
    BY <1>2, <2>2, <2>3, <2>4, <2>5 DEF CallerStep
<1>3. CASE RouterWrite \/ RouterWriteHung
  <2>1. UNCHANGED call
    BY <1>3 DEF RouterWrite, RouterWriteHung, WriteSucceeds, notRouter
  <2>2. CASE cur.kind = "call"
    <3>1. cur.n \in pending /\ cur.n \in Requests
      BY <1>0, <2>2 DEF ControlOK, TypeOK
    <3>2. call[cur.n] \in {"waiting", "timedOut"}
      BY <1>0, <3>1 DEF CallsOK, CallOK
    <3>3. Phase[cur.n] \in {"open", "failed"}
      BY <3>1, <3>2, PhaseTable DEF Phase, Failures
    <3>4. written' = written \cup {cur.n}
      BY <1>3, <2>2 DEF RouterWrite, RouterWriteHung, WriteSucceeds
    <3>5. UNCHANGED Phase
      BY <2>1 DEF Phase
    <3> QED
      BY <3>1, <3>3, <3>4, <3>5 DEF Contract!Next, Contract!Send
  <2>3. CASE cur.kind # "call"
    BY <1>1, <1>3, <2>1, <2>3 DEF RouterWrite, RouterWriteHung, WriteSucceeds
  <2> QED
    BY <2>2, <2>3
<1>4. CASE RouterStep /\ ~(RouterWrite \/ RouterWriteHung)
  BY <1>1, <1>4 DEF RouterStep, RouterTop, RouterTick, RouterTakeCall, RouterTakeFrame,
    RouterTakeShutdown, RouterWriteFails, RouterTakeAnswer,
    RouterTakeEvent, Published, NotPublished, RouterIncomingFails, RouterReapChild,
    RouterFinish, notRouter
<1>5. CASE SendFrame \/ ConsumerStep \/ ReaderStep \/ ServerExit \/ ServerHang \/ OwnerStep
  <2>1. UNCHANGED <<call, written>>
    BY <1>5 DEF SendFrame, notCaller, ConsumerStep, ConsumerReceive, ConsumerDone,
      ConsumerClosed, notConsumer, ReaderStep, ReaderReadLossy, ReaderReadFrame,
      ReaderReadFinal, ReaderAcquire, ReaderSend, notReader, ServerExit, ServerHang,
      OwnerStep, ShutdownStart, ShutdownEnqueue, ShutdownNotQueued, ShutdownAnswered,
      ShutdownGivesUp, ShutdownJoined, DropConnection, notOwner
  <2> QED
    BY <1>1, <2>1
<1>6. CASE UNCHANGED vars
  BY <1>1, <1>6 DEF vars
<1> QED
  BY <1>2, <1>3, <1>4, <1>5, <1>6 DEF Next

(* The connection implements RequestContract: answered means sent, refused   *)
(* means never sent, and every outcome is final.                             *)
THEOREM Refinement == Spec => ImplementsContract
<1> QED
  BY InitContract, NextContract, InductiveInvariant, PTL DEF Spec, ImplementsContract, Contract!Spec
-----------------------------------------------------------------------------
(* The end of a connection. *)

(* The router ends in this order: the child is reaped, the reader joined,    *)
(* and only then is shutdown answered and Disconnected offered; nothing is   *)
(* offered after that.                                                       *)
EndInv ==
    /\ router \in {"join", "done"} => server = "reaped"
    /\ router = "done" => reader = "stopped"
    /\ shutdownReply = "ok" \/ result = "ok" => router = "done"
    /\ \A i \in DOMAIN events :
          events[i].kind = "disconnected" => i = Len(events) /\ router = "done"

LEMMA EventsAfterTail ==
  ASSUME EndInv, events \in Seq(EventSet), events # <<>>, events' = Tail(events)
  PROVE  \A i \in DOMAIN events' :
            events'[i].kind = "disconnected" => i = Len(events') /\ router = "done"
<1>1. /\ Len(events) \in Nat \ {0} /\ Len(events') = Len(events) - 1
      /\ DOMAIN events = 1..Len(events) /\ DOMAIN events' = 1..(Len(events) - 1)
      /\ \A i \in 1..(Len(events) - 1) : events'[i] = events[i + 1]
  OBVIOUS
<1>2. \A i \in DOMAIN events' : i + 1 \in DOMAIN events
  BY <1>1
<1> QED
  BY <1>1, <1>2 DEF EndInv

LEMMA EventsAfterAppend ==
  ASSUME EndInv, events \in Seq(EventSet), router # "done", NEW m,
         events' = Append(events, m)
  PROVE  \A i \in DOMAIN events' :
            events'[i].kind = "disconnected" => i = Len(events') /\ m.kind = "disconnected"
<1>1. /\ Len(events) \in Nat /\ Len(events') = Len(events) + 1
      /\ DOMAIN events = 1..Len(events) /\ DOMAIN events' = 1..(Len(events) + 1)
      /\ \A i \in 1..Len(events) : events'[i] = events[i]
      /\ events'[Len(events) + 1] = m
  OBVIOUS
<1> QED
  BY <1>1 DEF EndInv

LEMMA InitEnd == Init => EndInv
  BY DEF Init, EndInv

LEMMA OthersKeepEnd ==
  ASSUME IInv, EndInv, \/ \E id \in Requests : CallerStep(id)
                       \/ SendFrame \/ ConsumerStep \/ ReaderStep
  PROVE  EndInv'
<1> USE DEF callerVars, queueVars, dropVars, readerVars, ownerVars, consumerVars
<1>0. events \in Seq(EventSet)
  BY DEF IInv, TypeOK
<1>1. CASE (\E id \in Requests : CallerStep(id)) \/ SendFrame
  <2>1. UNCHANGED <<router, server, reader, shutdownReply, result, events>>
    BY <1>1 DEF CallerStep, CallStart, CallEnqueue, CallNotQueued, CallReceive, CallTimeout,
       CallDisconnected, Expire, SendFrame, notCaller
  <2> QED
    BY <2>1 DEF EndInv
<1>2. CASE ConsumerStep
  <2>1. UNCHANGED <<router, server, reader, shutdownReply, result>>
    BY <1>2 DEF ConsumerStep, ConsumerReceive, ConsumerDone, ConsumerClosed, notConsumer
  <2>2. events' = events \/ (events # <<>> /\ events' = Tail(events))
    BY <1>2 DEF ConsumerStep, ConsumerReceive, ConsumerDone, ConsumerClosed
  <2>3. CASE events' = events
    BY <2>1, <2>3 DEF EndInv
  <2>4. CASE events # <<>> /\ events' = Tail(events)
    BY <1>0, <2>1, <2>4, EventsAfterTail DEF EndInv
  <2> QED
    BY <2>2, <2>3, <2>4
<1>3. CASE ReaderStep
  <2>1. UNCHANGED <<router, server, shutdownReply, result, events>> /\ reader # "stopped"
    BY <1>3 DEF ReaderStep, ReaderReadLossy, ReaderReadFrame, ReaderReadFinal,
       ReaderAcquire, ReaderSend, notReader
  <2> QED
    BY <2>1 DEF EndInv
<1> QED
  BY <1>1, <1>2, <1>3

LEMMA RouterKeepsEnd ==
  ASSUME IInv, EndInv, RouterStep
  PROVE  EndInv'
<1> USE DEF callerVars, queueVars, dropVars, readerVars, ownerVars, consumerVars, notRouter
<1>0. events \in Seq(EventSet) /\ cur \in CurSet
  BY DEF IInv, TypeOK
<1>1. CASE RouterReapChild
  BY <1>1 DEF RouterReapChild, ChildShutdown, EndInv
<1>2. CASE RouterFinish
  <2>1. /\ router = "join" /\ reader = "stopped" /\ router' = "done"
        /\ UNCHANGED <<server, reader, result>>
        /\ shutdownReply' = "ok" \/ shutdownReply' = shutdownReply
        /\ events' = events \/ events' = Append(events, Msg("disconnected", 0))
    BY <1>2 DEF RouterFinish, ReaderJoined
  <2>2. CASE events' = events
    BY <2>1, <2>2 DEF EndInv
  <2>3. CASE events' = Append(events, Msg("disconnected", 0))
    BY <1>0, <2>1, <2>3, EventsAfterAppend DEF EndInv
  <2> QED
    BY <2>1, <2>2, <2>3
<1>3. CASE ~RouterReapChild /\ ~RouterFinish
  <2>1. /\ UNCHANGED <<server, reader, shutdownReply, result>>
        /\ router \notin {"join", "done"} /\ router' \notin {"join", "done"}
    BY <1>3 DEF RouterStep, RouterTop, RouterTick, RouterTakeCall, Refuse, RouterTakeFrame,
       RouterTakeShutdown, RouterWrite, RouterWriteHung, WriteSucceeds, RouterWriteFails,
       RouterTakeAnswer, RouterTakeEvent, Published, NextIteration, NotPublished,
       RouterIncomingFails
  <2>2. \/ events' = events
        \/ \E m : m.kind # "disconnected" /\ events' = Append(events, m)
    <3>1. CASE RouterTop
      BY <3>1 DEF RouterTop, PublishDropCount, Msg
    <3>2. CASE RouterTakeEvent
      BY <3>2 DEF RouterTakeEvent, PublishDropCount, Msg
    <3>3. CASE Published
      <4>1. cur.kind # "disconnected"
        BY <1>0 DEF CurSet, EventKinds
      <4> QED
        BY <3>3, <4>1 DEF Published
    <3>4. CASE ~RouterTop /\ ~RouterTakeEvent /\ ~Published
      BY <1>3, <3>4 DEF RouterStep, RouterTick, RouterTakeCall, RouterTakeFrame,
         RouterTakeShutdown, RouterWrite, RouterWriteHung, WriteSucceeds, RouterWriteFails,
         RouterTakeAnswer, NotPublished, RouterIncomingFails
    <3> QED
      BY <3>1, <3>2, <3>3, <3>4
  <2>3. CASE events' = events
    BY <2>1, <2>3 DEF EndInv
  <2>4. CASE \E m : m.kind # "disconnected" /\ events' = Append(events, m)
    <3>1. PICK m : m.kind # "disconnected" /\ events' = Append(events, m)
      BY <2>4
    <3>2. \A i \in DOMAIN events' : events'[i].kind # "disconnected"
      BY <1>0, <2>1, <3>1, EventsAfterAppend
    <3> QED
      BY <2>1, <3>2 DEF EndInv
  <2> QED
    BY <2>2, <2>3, <2>4
<1> QED
  BY <1>1, <1>2, <1>3

LEMMA OwnerKeepsEnd ==
  ASSUME IInv, EndInv, OwnerStep \/ ServerExit \/ ServerHang
  PROVE  EndInv'
<1> USE DEF callerVars, queueVars, dropVars, readerVars, ownerVars, consumerVars
<1>1. CASE ServerExit \/ ServerHang
  BY <1>1 DEF ServerExit, ServerHang, EndInv
<1>2. CASE OwnerStep
  <2>1. /\ UNCHANGED <<router, server, reader, shutdownReply>>
        /\ events' = events \/ events' = <<>>
        /\ result' = "ok" => result = "ok" \/ shutdownReply = "ok"
    BY <1>2 DEF OwnerStep, ShutdownStart, ShutdownEnqueue, ShutdownNotQueued,
       ShutdownAnswered, ShutdownGivesUp, ShutdownJoined, DropConnection, notOwner
  <2> QED
    BY <2>1 DEF EndInv
<1> QED
  BY <1>1, <1>2

LEMMA NextEnd == IInv /\ EndInv /\ [Next]_vars => EndInv'
<1> SUFFICES ASSUME IInv, EndInv, [Next]_vars PROVE EndInv'
  OBVIOUS
<1>1. CASE UNCHANGED vars
  BY <1>1 DEF vars, EndInv, callerVars, queueVars, dropVars, readerVars, ownerVars, consumerVars
<1> QED
  BY <1>1, OthersKeepEnd, RouterKeepsEnd, OwnerKeepsEnd DEF Next

(* Disconnected is the last event a consumer gets and comes when nobody can  *)
(* be answered any more, and a shutdown that reports success has reaped the  *)
(* child and joined both threads.                                            *)
THEOREM EndsOrderly == Spec => []EndIsOrderly
<1>1. IInv /\ EndInv => EndIsOrderly
  BY DEF IInv, ControlOK, EndInv, EndIsOrderly, DisconnectedIsLast, ShutdownOkMeansReaped
<1> QED
  BY InductiveInvariant, InitEnd, NextEnd, <1>1, PTL DEF Spec

-----------------------------------------------------------------------------
(* The messages of a channel that are in a set, counted as the channel moves. *)
Counted(s, T) == Cardinality({i \in DOMAIN s : s[i] \in T})

LEMMA CountedIsFinite ==
  ASSUME NEW S, NEW s \in Seq(S), NEW T
  PROVE  IsFiniteSet({i \in DOMAIN s : s[i] \in T}) /\ Counted(s, T) \in Nat
<1>1. IsFiniteSet(1..Len(s)) /\ DOMAIN s = 1..Len(s)
  BY LenProperties, FS_Interval
<1>2. IsFiniteSet({i \in DOMAIN s : s[i] \in T})
  BY <1>1, FS_Subset
<1> QED
  BY <1>2, FS_CardinalityType DEF Counted

LEMMA CountedAfterAppend ==
  ASSUME NEW S, NEW s \in Seq(S), NEW m \in S, NEW T
  PROVE  Counted(Append(s, m), T) = IF m \in T THEN Counted(s, T) + 1 ELSE Counted(s, T)
<1> DEFINE held == {i \in DOMAIN s : s[i] \in T}
           more == {i \in DOMAIN Append(s, m) : Append(s, m)[i] \in T}
<1>1. IsFiniteSet(held) /\ Counted(s, T) \in Nat /\ Len(s) \in Nat
  BY CountedIsFinite, LenProperties
<1>2. /\ DOMAIN s = 1..Len(s) /\ DOMAIN Append(s, m) = 1..(Len(s) + 1)
      /\ \A i \in 1..Len(s) : Append(s, m)[i] = s[i]
      /\ Append(s, m)[Len(s) + 1] = m
  BY AppendProperties, LenProperties
<1>3. more = IF m \in T THEN held \cup {Len(s) + 1} ELSE held
  BY <1>1, <1>2
<1>4. Len(s) + 1 \notin held
  BY <1>1, <1>2
<1>5. Counted(s, T) = Cardinality(held) /\ Counted(Append(s, m), T) = Cardinality(more)
  BY DEF Counted
<1> HIDE DEF held, more
<1>6. Cardinality(held \cup {Len(s) + 1}) = Cardinality(held) + 1
  BY <1>1, <1>4, FS_AddElement
<1> QED
  BY <1>3, <1>5, <1>6

LEMMA CountedAfterTail ==
  ASSUME NEW S, NEW s \in Seq(S), s # <<>>, NEW T
  PROVE  Counted(s, T) = IF Head(s) \in T THEN Counted(Tail(s), T) + 1 ELSE Counted(Tail(s), T)
<1> DEFINE held == {i \in DOMAIN s : s[i] \in T}
           rest == {i \in DOMAIN Tail(s) : Tail(s)[i] \in T}
           late == held \ {1}
           f == [i \in rest |-> i + 1]
<1>1. IsFiniteSet(held) /\ Counted(s, T) \in Nat
  BY CountedIsFinite
<1>2. /\ Tail(s) \in Seq(S) /\ Len(Tail(s)) = Len(s) - 1 /\ Len(s) \in Nat \ {0}
      /\ DOMAIN s = 1..Len(s) /\ DOMAIN Tail(s) = 1..(Len(s) - 1)
      /\ \A i \in 1..(Len(s) - 1) : Tail(s)[i] = s[i + 1]
      /\ Head(s) = s[1]
  BY HeadTailProperties, EmptySeq, LenProperties
<1>3. IsFiniteSet(rest)
  BY <1>2, CountedIsFinite
<1>4. f \in Bijection(rest, late)
  <2>1. f \in [rest -> late]
    BY <1>2
  <2>2. \A i, j \in rest : f[i] = f[j] => i = j
    BY <1>2
  <2>3. \A k \in late : \E i \in rest : f[i] = k
    <3> TAKE k \in late
    <3>1. k \in 2..Len(s) /\ s[k] \in T
      BY <1>2
    <3>2. k - 1 \in rest /\ f[k - 1] = k
      BY <1>2, <3>1
    <3> QED
      BY <3>2
  <2> QED
    BY <2>1, <2>2, <2>3, Fun_IsBij
<1>5. Counted(s, T) = Cardinality(held) /\ Counted(Tail(s), T) = Cardinality(rest)
  BY DEF Counted
<1>6. 1 \in held <=> Head(s) \in T
  BY <1>2
<1> HIDE DEF held, rest, f
<1>7. Cardinality(late) = Cardinality(rest) /\ Cardinality(rest) \in Nat
  BY <1>3, <1>4, FS_Bijection, Fun_ExistsBij, FS_CardinalityType DEF ExistsBijection
<1>8. Cardinality(late) = IF 1 \in held THEN Cardinality(held) - 1 ELSE Cardinality(held)
  BY <1>1, FS_RemoveElement
<1> QED
  BY <1>1, <1>5, <1>6, <1>7, <1>8

LEMMA CountedNone == \A T : Counted(<<>>, T) = 0
<1> SUFFICES ASSUME NEW T PROVE Counted(<<>>, T) = 0
  OBVIOUS
<1>1. {i \in DOMAIN <<>> : <<>>[i] \in T} = {}
  OBVIOUS
<1> QED
  BY <1>1, FS_EmptySet DEF Counted

-----------------------------------------------------------------------------
(* The ingress budget. *)

LEMMA LeasesAreCounted ==
  ASSUME NEW S, NEW s \in Seq(S)
  PROVE  LeasesIn(s) = Counted(s, {m \in S : Leased(m)}) /\ LeasesIn(s) \in Nat
<1>1. \A i \in DOMAIN s : s[i] \in S
  BY ElementOfSeq, LenProperties
<1>2. {i \in DOMAIN s : Leased(s[i])} = {i \in DOMAIN s : s[i] \in {m \in S : Leased(m)}}
  BY <1>1
<1> QED
  BY <1>2, CountedIsFinite DEF LeasesIn, Counted

LEMMA LeasesAfterAppend ==
  ASSUME NEW S, NEW s \in Seq(S), NEW m \in S
  PROVE  LeasesIn(Append(s, m)) = IF Leased(m) THEN LeasesIn(s) + 1 ELSE LeasesIn(s)
<1> DEFINE T == {x \in S : Leased(x)}
<1>1. Append(s, m) \in Seq(S)
  OBVIOUS
<1>2. m \in T <=> Leased(m)
  OBVIOUS
<1>3. LeasesIn(s) = Counted(s, T)
  BY LeasesAreCounted
<1>4. LeasesIn(Append(s, m)) = Counted(Append(s, m), T)
  BY <1>1, LeasesAreCounted
<1> HIDE DEF T
<1>5. Counted(Append(s, m), T) = IF m \in T THEN Counted(s, T) + 1 ELSE Counted(s, T)
  BY CountedAfterAppend
<1> QED
  BY <1>2, <1>3, <1>4, <1>5

LEMMA LeasesAfterTail ==
  ASSUME NEW S, NEW s \in Seq(S), s # <<>>
  PROVE  /\ LeasesIn(s) = IF Leased(Head(s)) THEN LeasesIn(Tail(s)) + 1 ELSE LeasesIn(Tail(s))
         /\ LeasesIn(Tail(s)) \in Nat
<1>1. Tail(s) \in Seq(S) /\ Head(s) \in S
  OBVIOUS
<1> DEFINE T == {x \in S : Leased(x)}
           t == Tail(s)
<1>2. Head(s) \in T <=> Leased(Head(s))
  BY <1>1
<1>3. LeasesIn(s) = Counted(s, T)
  BY LeasesAreCounted
<1>4. t \in Seq(S)
  BY <1>1
<1>5. LeasesIn(t) = Counted(t, T) /\ LeasesIn(t) \in Nat
  <2> HIDE DEF t
  <2> QED
    BY <1>4, LeasesAreCounted
<1> HIDE DEF T
<1>6. Counted(s, T) = IF Head(s) \in T THEN Counted(t, T) + 1 ELSE Counted(t, T)
  BY CountedAfterTail
<1> HIDE DEF t
<1>7. LeasesIn(s) = IF Leased(Head(s)) THEN LeasesIn(t) + 1 ELSE LeasesIn(t)
  BY <1>2, <1>3, <1>5, <1>6
<1> QED
  BY <1>5, <1>7 DEF t

LEMMA NoLeases == LeasesIn(<<>>) = 0
<1>1. {i \in DOMAIN <<>> : Leased(<<>>[i])} = {}
  OBVIOUS
<1> QED
  BY <1>1, FS_EmptySet DEF LeasesIn

(* The places where a lease may be, one by one. *)
AnsweredReplies == {id \in Requests : reply[id] \in Answers}
OfReplies  == Cardinality(AnsweredReplies)
OfReader   == IF reader = "send" /\ Leased(item) THEN 1 ELSE 0
OfRouter   == IF router = "publish" THEN 1 ELSE 0
OfConsumer == IF consumer # NoMsg THEN 1 ELSE 0

LEMMA RepliesAreFinite == IsFiniteSet(AnsweredReplies)
<1>1. IsFiniteSet(Requests)
  BY FS_Interval, BoundsAssumption DEF Requests
<1> QED
  BY <1>1, FS_Subset DEF AnsweredReplies

LEMMA LeaseTerms ==
  TypeOK =>
    /\ LeasesIn(incoming) \in Nat /\ LeasesIn(events) \in Nat /\ OfReplies \in Nat
    /\ OfReader \in 0..1 /\ OfRouter \in 0..1 /\ OfConsumer \in 0..1 /\ used \in Nat
    /\ NoLeaseLeak <=> used = LeasesIn(incoming) + LeasesIn(events) + OfReplies
                                + OfReader + OfRouter + OfConsumer
<1>1. ASSUME TypeOK PROVE LeasesIn(incoming) \in Nat /\ LeasesIn(events) \in Nat /\ used \in Nat
  <2>1. incoming \in Seq(MsgSet) /\ events \in Seq(EventSet) /\ used \in Nat
    BY <1>1, CapacityAssumption DEF TypeOK
  <2>2. LeasesIn(incoming) \in Nat
    BY <2>1, LeasesAreCounted
  <2>3. LeasesIn(events) \in Nat
    BY <2>1, LeasesAreCounted
  <2> QED
    BY <2>1, <2>2, <2>3
<1>2. OfReplies \in Nat
  BY RepliesAreFinite, FS_CardinalityType DEF OfReplies
<1> QED
  BY <1>1, <1>2 DEF OfReader, OfRouter, OfConsumer, OfReplies, AnsweredReplies, NoLeaseLeak, HeldLeases

(* How the number of leases at one place and the account move together.      *)
Places == LeasesIn(incoming) + LeasesIn(events) + OfReplies + OfReader + OfRouter + OfConsumer

LEMMA LeaseMoves ==
  ASSUME TypeOK, TypeOK', NoLeaseLeak, used' - used = Places' - Places
  PROVE  NoLeaseLeak'
<1>1. /\ LeasesIn(incoming) \in Nat /\ LeasesIn(events) \in Nat /\ OfReplies \in Nat
      /\ OfReader \in Nat /\ OfRouter \in Nat /\ OfConsumer \in Nat /\ used \in Nat
      /\ used = Places
  BY LeaseTerms DEF Places
<1>2. (TypeOK => /\ LeasesIn(incoming) \in Nat /\ LeasesIn(events) \in Nat /\ OfReplies \in Nat
                 /\ OfReader \in 0..1 /\ OfRouter \in 0..1 /\ OfConsumer \in 0..1 /\ used \in Nat
                 /\ NoLeaseLeak <=> used = LeasesIn(incoming) + LeasesIn(events) + OfReplies
                                             + OfReader + OfRouter + OfConsumer)'
  BY LeaseTerms, PTL
<1>3. Places \in Nat /\ Places' \in Nat /\ used' \in Nat
  BY <1>1, <1>2 DEF Places
<1>4. used' = Places'
  BY <1>1, <1>3
<1> QED
  BY <1>2, <1>4 DEF Places

(* The same facts where the places add up, for the arithmetic of a step.      *)
LEMMA LeaseNumbers ==
  ASSUME TypeOK, NoLeaseLeak
  PROVE  /\ LeasesIn(incoming) \in Nat /\ LeasesIn(events) \in Nat /\ OfReplies \in Nat
         /\ OfReader \in Nat /\ OfRouter \in Nat /\ OfConsumer \in Nat /\ used \in Nat
         /\ used = LeasesIn(incoming) + LeasesIn(events) + OfReplies
                     + OfReader + OfRouter + OfConsumer
  BY LeaseTerms

(* A reply that is no answer and replaces none leaves the leases alone.      *)
LEMMA SameAnswers ==
  ASSUME \A id \in Requests : \/ reply'[id] = reply[id]
                              \/ reply[id] \notin Answers /\ reply'[id] \notin Answers
  PROVE  OfReplies' = OfReplies
<1>1. AnsweredReplies' = AnsweredReplies
  BY DEF AnsweredReplies
<1> QED
  BY <1>1 DEF OfReplies

LEMMA RepliesWithoutAnswer ==
  ASSUME IInv, NEW ids, NEW outcome, outcome \notin Answers,
         \A id \in Requests : id \in ids => reply[id] = "none"
  PROVE  \A id \in Requests : \/ Reply(ids, outcome)[id] = reply[id]
                              \/ reply[id] \notin Answers /\ Reply(ids, outcome)[id] \notin Answers
  BY DEF Reply, Answers

LEMMA FailingFreesNothing == IInv /\ FailPending => OfReplies' = OfReplies
<1> SUFFICES ASSUME IInv, FailPending PROVE OfReplies' = OfReplies
  OBVIOUS
<1>1. \A id \in Requests : id \in pending => reply[id] = "none"
  BY DEF IInv, CallsOK, CallOK
<1>2. "closed" \notin Answers
  BY DEF Answers
<1> QED
  BY <1>1, <1>2, RepliesWithoutAnswer, SameAnswers DEF FailPending

LEMMA CountsHoldNoLease ==
  ASSUME IInv, NEW count \in Nat, PublishDropCount(count)
  PROVE  LeasesIn(events') = LeasesIn(events)
<1>1. Msg("dropped", count) \in EventSet /\ ~Leased(Msg("dropped", count))
  BY DEF Msg, EventSet, Leased, FrameKinds, AnswerKinds, EventKinds
<1>2. events \in Seq(EventSet)
  BY DEF IInv, TypeOK
<1> QED
  BY <1>1, <1>2, LeasesAfterAppend DEF PublishDropCount

LEMMA CallerKeepsLeases ==
  ASSUME IInv, IInv', NoLeaseLeak, (\E id \in Requests : CallerStep(id)) \/ SendFrame
  PROVE  NoLeaseLeak'
<1> USE DEF callerVars, queueVars, dropVars, readerVars, ownerVars, consumerVars, notCaller
<1>0. TypeOK /\ TypeOK'
  BY DEF IInv
<1>t. /\ LeasesIn(incoming) \in Nat /\ LeasesIn(events) \in Nat /\ OfReplies \in Nat
      /\ OfReader \in Nat /\ OfRouter \in Nat /\ OfConsumer \in Nat /\ used \in Nat
      /\ used = LeasesIn(incoming) + LeasesIn(events) + OfReplies
                  + OfReader + OfRouter + OfConsumer
  BY <1>0, LeaseNumbers
<1>1. CASE \E id \in Requests : CallReceive(id)
  <2>1. PICK id \in Requests : CallReceive(id)
    BY <1>1
  <2>2. UNCHANGED <<incoming, events, reader, item, router, consumer>>
    BY <2>1 DEF CallReceive
  <2>3. reply \in [Requests -> ReplyStates]
    BY <1>0 DEF TypeOK
  <2>4. CASE reply[id] \in Answers
    <3>1. AnsweredReplies' = AnsweredReplies \ {id} /\ id \in AnsweredReplies
      BY <2>1, <2>3, <2>4 DEF CallReceive, AnsweredReplies, Answers
    <3>2. OfReplies' = OfReplies - 1
      BY <3>1, RepliesAreFinite, FS_RemoveElement DEF OfReplies
    <3>3. LeasesIn(incoming)' = LeasesIn(incoming) /\ LeasesIn(events)' = LeasesIn(events)
          /\ OfReader' = OfReader /\ OfRouter' = OfRouter /\ OfConsumer' = OfConsumer
      BY <2>2 DEF OfReader, OfRouter, OfConsumer
    <3>4. OfReplies \in Nat \ {0}
      BY <3>1, <1>t, RepliesAreFinite, FS_EmptySet DEF OfReplies
    <3>5. used' = used - 1 /\ used \in Nat
      <4>1. used >= 1 /\ used \in Nat
        BY <3>4, <1>t
      <4> QED
        BY <2>1, <2>4, <4>1 DEF CallReceive, Freed
    <3>6. used' - used = Places' - Places
      BY <3>2, <3>3, <3>4, <3>5, <1>t DEF Places
    <3> QED
      BY <1>0, <3>6, LeaseMoves
  <2>5. CASE reply[id] \notin Answers
    <3>1. \A r \in Requests : \/ reply'[r] = reply[r]
                              \/ reply[r] \notin Answers /\ reply'[r] \notin Answers
      BY <2>1, <2>3, <2>5 DEF CallReceive, Answers
    <3>2. OfReplies' = OfReplies
      BY <3>1, SameAnswers
    <3>3. used' = used
      BY <2>1, <2>5 DEF CallReceive
    <3>4. Places' = Places
      BY <2>2, <3>2 DEF Places, OfReader, OfRouter, OfConsumer
    <3>5. used' - used = Places' - Places
      BY <3>3, <3>4, <1>t DEF Places
    <3> QED
      BY <1>0, <3>5, LeaseMoves
  <2> QED
    BY <2>4, <2>5
<1>2. CASE (~\E id \in Requests : CallReceive(id)) \/ SendFrame
  <2>1. UNCHANGED <<incoming, events, reply, reader, item, router, consumer, used>>
    BY <1>2 DEF CallerStep, CallStart, CallEnqueue, CallNotQueued, CallTimeout,
       CallDisconnected, Expire, SendFrame
  <2> QED
    BY <2>1 DEF NoLeaseLeak, HeldLeases
<1> QED
  BY <1>1, <1>2

LEMMA ConsumerKeepsLeases ==
  ASSUME IInv, IInv', NoLeaseLeak, ConsumerStep
  PROVE  NoLeaseLeak'
<1> USE DEF callerVars, queueVars, dropVars, readerVars, ownerVars, consumerVars, notConsumer
<1>0. TypeOK /\ TypeOK' /\ events \in Seq(EventSet)
  BY DEF IInv, TypeOK
<1>t. /\ LeasesIn(incoming) \in Nat /\ LeasesIn(events) \in Nat /\ OfReplies \in Nat
      /\ OfReader \in Nat /\ OfRouter \in Nat /\ OfConsumer \in Nat /\ used \in Nat
      /\ used = LeasesIn(incoming) + LeasesIn(events) + OfReplies
                  + OfReader + OfRouter + OfConsumer
  BY <1>0, LeaseNumbers
<1>1. CASE ConsumerReceive
  <2>1. /\ UNCHANGED <<incoming, reply, reader, item, router, used>>
        /\ consumer = NoMsg /\ events # <<>> /\ events' = Tail(events)
        /\ consumer' = IF Leased(Head(events)) THEN Head(events) ELSE NoMsg
    BY <1>1 DEF ConsumerReceive
  <2>2. ~Leased(NoMsg)
    BY DEF NoMsg, Msg, Leased, FrameKinds, AnswerKinds, EventKinds
  <2>3. OfConsumer = 0 /\ OfConsumer' = IF Leased(Head(events)) THEN 1 ELSE 0
    BY <2>1, <2>2 DEF OfConsumer
  <2>4. /\ LeasesIn(events) = IF Leased(Head(events)) THEN LeasesIn(events') + 1
                                                       ELSE LeasesIn(events')
        /\ LeasesIn(events') \in Nat
    BY <1>0, <2>1, LeasesAfterTail
  <2>5. LeasesIn(incoming)' = LeasesIn(incoming) /\ OfReplies' = OfReplies
        /\ OfReader' = OfReader /\ OfRouter' = OfRouter
    BY <2>1 DEF OfReader, OfRouter, OfReplies, AnsweredReplies
  <2>6. used' - used = Places' - Places
    <3>1. used' = used /\ LeasesIn(events)' = LeasesIn(events')
      BY <2>1
    <3>2. LeasesIn(events) + OfConsumer = LeasesIn(events)' + OfConsumer'
      <4>1. CASE Leased(Head(events))
        BY <1>t, <2>3, <2>4, <3>1, <4>1
      <4>2. CASE ~Leased(Head(events))
        BY <1>t, <2>3, <2>4, <3>1, <4>2
      <4> QED
        BY <4>1, <4>2
    <3>3. LeasesIn(events)' \in Nat /\ OfConsumer' \in Nat
      BY <2>3, <2>4, <3>1
    <3> QED
      BY <1>t, <2>5, <3>1, <3>2, <3>3 DEF Places
  <2> QED
    BY <1>0, <2>6, LeaseMoves
<1>2. CASE ConsumerDone
  <2>1. /\ UNCHANGED <<incoming, events, reply, reader, item, router>>
        /\ consumer # NoMsg /\ consumer' = NoMsg /\ used' = Freed(1)
    BY <1>2 DEF ConsumerDone
  <2>2. OfConsumer = 1 /\ OfConsumer' = 0
    BY <2>1 DEF OfConsumer
  <2>3. used >= 1 /\ used \in Nat
    BY <2>2, <1>t
  <2>4. used' = used - 1
    BY <2>1, <2>3 DEF Freed
  <2>5. LeasesIn(incoming)' = LeasesIn(incoming) /\ LeasesIn(events)' = LeasesIn(events)
        /\ OfReplies' = OfReplies /\ OfReader' = OfReader /\ OfRouter' = OfRouter
    BY <2>1 DEF OfReader, OfRouter, OfReplies, AnsweredReplies
  <2>6. used' - used = Places' - Places
    BY <2>2, <2>3, <2>4, <2>5, <1>t DEF Places
  <2> QED
    BY <1>0, <2>6, LeaseMoves
<1>3. CASE ConsumerClosed
  <2>1. UNCHANGED <<incoming, events, reply, reader, item, router, consumer, used>>
    BY <1>3 DEF ConsumerClosed
  <2> QED
    BY <2>1 DEF NoLeaseLeak, HeldLeases
<1> QED
  BY <1>1, <1>2, <1>3 DEF ConsumerStep

LEMMA ReaderKeepsLeases ==
  ASSUME IInv, IInv', NoLeaseLeak, ReaderStep
  PROVE  NoLeaseLeak'
<1> USE DEF callerVars, queueVars, dropVars, readerVars, ownerVars, consumerVars, notReader
<1>0. TypeOK /\ TypeOK' /\ incoming \in Seq(MsgSet)
  BY DEF IInv, TypeOK
<1>t. /\ LeasesIn(incoming) \in Nat /\ LeasesIn(events) \in Nat /\ OfReplies \in Nat
      /\ OfReader \in Nat /\ OfRouter \in Nat /\ OfConsumer \in Nat /\ used \in Nat
      /\ used = LeasesIn(incoming) + LeasesIn(events) + OfReplies
                  + OfReader + OfRouter + OfConsumer
  BY <1>0, LeaseNumbers
<1>1. LeasesIn(events)' = LeasesIn(events) /\ OfReplies' = OfReplies /\ OfRouter' = OfRouter
      /\ OfConsumer' = OfConsumer
  <2>1. UNCHANGED <<events, reply, router, consumer>>
    BY DEF ReaderStep, ReaderReadLossy, ReaderReadFrame, ReaderReadFinal, ReaderAcquire, ReaderSend
  <2> QED
    BY <2>1 DEF OfRouter, OfConsumer, OfReplies, AnsweredReplies
<1>2. ASSUME used' - used = (LeasesIn(incoming') - LeasesIn(incoming)) + (OfReader' - OfReader),
             LeasesIn(incoming') \in Nat, OfReader' \in Nat, used' \in Nat
      PROVE  NoLeaseLeak'
  <2>1. /\ Places = LeasesIn(incoming) + LeasesIn(events) + OfReplies + OfReader + OfRouter + OfConsumer
        /\ Places' = LeasesIn(incoming') + LeasesIn(events) + OfReplies + OfReader' + OfRouter + OfConsumer
    BY <1>1 DEF Places
  <2>2. /\ LeasesIn(incoming) \in Nat /\ LeasesIn(events) \in Nat /\ OfReplies \in Nat
        /\ OfReader \in Nat /\ OfRouter \in Nat /\ OfConsumer \in Nat /\ used \in Nat
    BY <1>t
  <2>3. used' - used = Places' - Places
    BY <1>2, <2>1, <2>2
  <2> QED
    BY <1>0, <2>3, LeaseMoves
<1> USE DEF Leased, FrameKinds, AnswerKinds, EventKinds, FinalKinds, Msg
<1>3. used \in Nat /\ LeasesIn(incoming) \in Nat
  BY <1>t
<1>4. CASE ReaderReadLossy \/ ReaderAcquire
  <2>1. incoming' = incoming /\ reader # "send" /\ OfReader = 0
    BY <1>4 DEF ReaderReadLossy, ReaderAcquire, OfReader
  <2>2. (used' = used + 1 /\ OfReader' = 1) \/ (used' = used /\ OfReader' = 0)
    <3>1. CASE ReaderReadLossy
      BY <3>1, <2>1 DEF ReaderReadLossy, OfReader
    <3>2. CASE ReaderAcquire
      <4>1. item.kind \in FrameKinds
        BY <3>2 DEF ReaderAcquire, IInv, ControlOK
      <4> QED
        BY <3>2, <4>1 DEF ReaderAcquire, OfReader
    <3> QED
      BY <1>4, <3>1, <3>2
  <2> QED
    BY <1>2, <1>3, <2>1, <2>2
<1>5. CASE ReaderReadFrame \/ ReaderReadFinal
  <2>1. incoming' = incoming /\ used' = used /\ OfReader = 0 /\ OfReader' = 0
    BY <1>5 DEF ReaderReadFrame, ReaderReadFinal, OfReader
  <2> QED
    BY <1>2, <1>3, <2>1
<1>6. CASE ReaderSend
  <2>1. reader = "send" /\ reader' # "send" /\ OfReader' = 0
        /\ OfReader = (IF Leased(item) THEN 1 ELSE 0)
    BY <1>6 DEF ReaderSend, OfReader
  <2>2. item \in MsgSet
    BY <2>1 DEF IInv, ControlOK
  <2>3. CASE incoming' = Append(incoming, item) /\ used' = used
    <3>1. LeasesIn(incoming') = IF Leased(item) THEN LeasesIn(incoming) + 1 ELSE LeasesIn(incoming)
      BY <1>0, <2>2, <2>3, LeasesAfterAppend
    <3> QED
      BY <1>2, <1>3, <2>1, <2>3, <3>1
  <2>4. CASE incoming' = incoming /\ used' = IF Leased(item) THEN Freed(1) ELSE used
    <3>1. Leased(item) => used >= 1
      BY <2>1, <1>t
    <3>2. Leased(item) => used' = used - 1
      BY <1>3, <2>4, <3>1 DEF Freed
    <3> QED
      BY <1>2, <1>3, <2>1, <2>4, <3>1, <3>2
  <2> QED
    BY <1>6, <2>3, <2>4 DEF ReaderSend
<1> QED
  BY <1>4, <1>5, <1>6 DEF ReaderStep

(* A router step that moves no lease. *)
LEMMA RouterMovesNone ==
  ASSUME IInv, IInv', NoLeaseLeak, UNCHANGED <<incoming, reader, item, consumer, used>>,
         LeasesIn(events') = LeasesIn(events), OfReplies' = OfReplies,
         router # "publish", router' # "publish"
  PROVE  NoLeaseLeak'
<1>1. /\ LeasesIn(incoming)' = LeasesIn(incoming) /\ OfReader' = OfReader
      /\ OfConsumer' = OfConsumer /\ OfRouter = 0 /\ OfRouter' = 0
  BY DEF OfReader, OfConsumer, OfRouter
<1>2. TypeOK /\ TypeOK'
  BY DEF IInv
<1>3. used' - used = Places' - Places
  BY <1>1, <1>2, LeaseTerms DEF Places
<1> QED
  BY <1>2, <1>3, LeaseMoves

LEMMA RouterKeepsLeases ==
  ASSUME IInv, IInv', NoLeaseLeak, RouterStep
  PROVE  NoLeaseLeak'
<1> USE DEF callerVars, queueVars, dropVars, readerVars, ownerVars, consumerVars, notRouter
<1>0. /\ TypeOK /\ TypeOK' /\ incoming \in Seq(MsgSet) /\ events \in Seq(EventSet)
      /\ dropped \in Nat /\ readerDropped \in Nat /\ cur \in CurSet
  BY DEF IInv, TypeOK
<1>n. used \in Nat /\ LeasesIn(incoming) \in Nat /\ LeasesIn(events) \in Nat /\ OfReplies \in Nat
  BY <1>0, LeaseTerms
<1>t. /\ LeasesIn(incoming) \in Nat /\ LeasesIn(events) \in Nat /\ OfReplies \in Nat
      /\ OfReader \in Nat /\ OfRouter \in Nat /\ OfConsumer \in Nat /\ used \in Nat
      /\ used = LeasesIn(incoming) + LeasesIn(events) + OfReplies
                  + OfReader + OfRouter + OfConsumer
  BY <1>0, LeaseNumbers
<1>1. CASE RouterTop
  <2>1. \A id \in Requests : id \in pending \cap expired => reply[id] = "none"
    BY DEF IInv, CallsOK, CallOK
  <2>2. "timedOut" \notin Answers
    BY DEF Answers
  <2>3. OfReplies' = OfReplies
    BY <1>1, <2>1, <2>2, RepliesWithoutAnswer, SameAnswers DEF RouterTop
  <2>4. LeasesIn(events') = LeasesIn(events)
    BY <1>0, <1>1, CountsHoldNoLease DEF RouterTop
  <2> QED
    BY <1>1, <2>3, <2>4, RouterMovesNone DEF RouterTop
<1>2. CASE RouterTick \/ RouterTakeFrame \/ RouterWrite \/ RouterWriteHung \/ RouterReapChild
  <2>1. UNCHANGED <<incoming, reader, item, consumer, used, events, reply>>
        /\ router # "publish" /\ router' # "publish"
    BY <1>2 DEF RouterTick, RouterTakeFrame, RouterWrite, RouterWriteHung, WriteSucceeds,
       RouterReapChild
  <2> QED
    BY <2>1, RouterMovesNone DEF OfReplies, AnsweredReplies
<1>3. CASE RouterTakeCall
  <2>1. UNCHANGED <<incoming, reader, item, consumer, used, events>>
        /\ router # "publish" /\ router' # "publish"
    BY <1>3 DEF RouterTakeCall, Refuse
  <2>2. reply[Head(commands).n] = "none"
    BY <1>0, <1>3, CallHead DEF RouterTakeCall, IInv, CallsOK, CallOK
  <2>3. \A r \in Requests : r \in {Head(commands).n} => reply[r] = "none"
    BY <2>2
  <2>4. reply' = reply \/ reply' = Reply({Head(commands).n}, "tooMany")
    BY <1>3 DEF RouterTakeCall, Refuse
  <2>5. "tooMany" \notin Answers
    BY DEF Answers
  <2>6. OfReplies' = OfReplies
    BY <2>3, <2>4, <2>5, RepliesWithoutAnswer, SameAnswers
  <2> QED
    BY <2>1, <2>6, RouterMovesNone
<1>4. CASE RouterTakeShutdown
  <2>1. UNCHANGED <<incoming, reader, item, consumer, used, events>>
        /\ router # "publish" /\ router' # "publish" /\ FailPending
    BY <1>4 DEF RouterTakeShutdown
  <2> QED
    BY <2>1, FailingFreesNothing, RouterMovesNone
<1>5. CASE RouterWriteFails
  <2>1. UNCHANGED <<incoming, reader, item, consumer, used, events>>
        /\ router # "publish" /\ router' # "publish"
    BY <1>5 DEF RouterWriteFails
  <2>2. \A id \in Requests : id \in pending => reply[id] = "none"
    BY DEF IInv, CallsOK, CallOK
  <2>3. "closed" \notin Answers /\ "transport" \notin Answers /\ "none" \notin Answers
    BY DEF Answers
  <2>4. \A id \in Requests : cur = Msg("call", id) => id \in pending
    BY DEF IInv, ControlOK, Msg
  <2>5. \A id \in Requests : \/ reply'[id] = reply[id]
                             \/ reply[id] \notin Answers /\ reply'[id] \notin Answers
    <3> TAKE id \in Requests
    <3>1. \/ reply'[id] = "transport" /\ cur = Msg("call", id)
          \/ reply'[id] = Reply(pending, "closed")[id]
      BY <1>5 DEF RouterWriteFails
    <3> QED
      BY <2>2, <2>3, <2>4, <3>1, RepliesWithoutAnswer
  <2> QED
    BY <2>1, <2>5, SameAnswers, RouterMovesNone
<1>6. CASE RouterTakeAnswer
  <2> DEFINE id == Head(incoming).n
  <2>1. /\ incoming # <<>> /\ incoming' = Tail(incoming) /\ Head(incoming).kind \in AnswerKinds
        /\ UNCHANGED <<events, reader, item, consumer>> /\ router = "select" /\ router' = "top"
    BY <1>6 DEF RouterTakeAnswer
  <2>2. LeasesIn(incoming) = LeasesIn(incoming') + 1 /\ LeasesIn(incoming') \in Nat
    BY <1>0, <2>1, LeasesAfterTail DEF Leased, FrameKinds
  <2>3. /\ LeasesIn(events)' = LeasesIn(events) /\ OfReader' = OfReader
        /\ OfConsumer' = OfConsumer /\ OfRouter = 0 /\ OfRouter' = 0
    BY <2>1 DEF OfReader, OfConsumer, OfRouter
  <2>4. CASE id \in pending /\ call[id] = "waiting"
    <3>1. used' = used
      BY <1>6, <2>4 DEF RouterTakeAnswer, LeaseAfterAnswer
    <3>2. id \in Requests /\ reply[id] = "none"
      BY <1>0, <2>4 DEF TypeOK, IInv, CallsOK, CallOK
    <3>3. \E outcome \in Answers : reply' = Reply({id} \cap pending, outcome)
      BY <1>6 DEF RouterTakeAnswer, Answers
    <3>4. AnsweredReplies' = AnsweredReplies \cup {id} /\ id \notin AnsweredReplies
      BY <2>4, <3>2, <3>3 DEF AnsweredReplies, Reply, Answers
    <3>5. OfReplies' = OfReplies + 1
      BY <3>4, RepliesAreFinite, FS_AddElement DEF OfReplies
    <3>6. used' - used = Places' - Places
      BY <2>2, <2>3, <3>1, <3>5, <1>t DEF Places
    <3> QED
      BY <1>0, <3>6, LeaseMoves
  <2>5. CASE ~(id \in pending /\ call[id] = "waiting")
    <3>1. used' = Freed(1)
      BY <1>6, <2>5 DEF RouterTakeAnswer, LeaseAfterAnswer
    <3>2. used >= 1
      BY <2>2, <1>t
    <3>3. used' = used - 1
      BY <1>n, <3>1, <3>2 DEF Freed
    <3>4. \A r \in Requests : reply'[r] = reply[r]
      BY <1>6, <2>5 DEF RouterTakeAnswer, Reply
    <3>5. OfReplies' = OfReplies
      BY <3>4, SameAnswers
    <3>6. used' - used = Places' - Places
      BY <2>2, <2>3, <3>3, <3>5, <1>t DEF Places
    <3> QED
      BY <1>0, <3>6, LeaseMoves
  <2> QED
    BY <2>4, <2>5
<1>7. CASE RouterTakeEvent
  <2>1. /\ incoming # <<>> /\ incoming' = Tail(incoming) /\ Head(incoming).kind \in EventKinds
        /\ UNCHANGED <<reply, reader, item, consumer, used>>
        /\ router = "select" /\ router' = "publish"
    BY <1>7 DEF RouterTakeEvent
  <2>2. LeasesIn(incoming) = LeasesIn(incoming') + 1 /\ LeasesIn(incoming') \in Nat
    BY <1>0, <2>1, LeasesAfterTail DEF Leased, FrameKinds
  <2>3. LeasesIn(events') = LeasesIn(events)
    BY <1>0, <1>7, CountsHoldNoLease DEF RouterTakeEvent
  <2>4. /\ OfReplies' = OfReplies /\ OfReader' = OfReader
        /\ OfConsumer' = OfConsumer /\ OfRouter = 0 /\ OfRouter' = 1
    BY <2>1 DEF OfReader, OfConsumer, OfRouter, OfReplies, AnsweredReplies
  <2>5. used' - used = Places' - Places
    BY <2>1, <2>2, <2>3, <2>4, <1>t DEF Places
  <2> QED
    BY <1>0, <2>5, LeaseMoves
<1>8. CASE Published
  <2>1. /\ events' = Append(events, cur) /\ router = "publish" /\ router' = "top"
        /\ UNCHANGED <<incoming, reply, reader, item, consumer, used>>
    BY <1>8 DEF Published, NextIteration
  <2>2. cur.kind \in EventKinds
    BY <2>1 DEF IInv, ControlOK
  <2>3. cur \in EventSet
    BY <1>0, <2>2 DEF CurSet, EventSet
  <2>4. LeasesIn(events') = LeasesIn(events) + 1
    BY <1>0, <2>1, <2>2, <2>3, LeasesAfterAppend DEF Leased, FrameKinds
  <2>5. /\ LeasesIn(incoming)' = LeasesIn(incoming) /\ OfReplies' = OfReplies
        /\ OfReader' = OfReader /\ OfConsumer' = OfConsumer /\ OfRouter = 1 /\ OfRouter' = 0
    BY <2>1 DEF OfReader, OfConsumer, OfRouter, OfReplies, AnsweredReplies
  <2>6. used' - used = Places' - Places
    BY <2>1, <2>4, <2>5, <1>t DEF Places
  <2> QED
    BY <1>0, <2>6, LeaseMoves
<1>9. CASE NotPublished
  <2>1. /\ router = "publish" /\ router' # "publish" /\ used' = Freed(1)
        /\ UNCHANGED <<incoming, events, reader, item, consumer>>
        /\ UNCHANGED reply \/ FailPending
    BY <1>9 DEF NotPublished
  <2>2. OfReplies' = OfReplies
    BY <2>1, FailingFreesNothing DEF OfReplies, AnsweredReplies
  <2>3. /\ LeasesIn(incoming)' = LeasesIn(incoming) /\ LeasesIn(events)' = LeasesIn(events)
        /\ OfReader' = OfReader /\ OfConsumer' = OfConsumer /\ OfRouter = 1 /\ OfRouter' = 0
    BY <2>1 DEF OfReader, OfConsumer, OfRouter
  <2>4. used >= 1
    BY <2>3, <1>t
  <2>5. used' = used - 1
    BY <1>n, <2>1, <2>4 DEF Freed
  <2>6. used' - used = Places' - Places
    BY <2>2, <2>3, <2>5, <1>t DEF Places
  <2> QED
    BY <1>0, <2>6, LeaseMoves
<1>10. CASE RouterIncomingFails
  <2>1. /\ router = "select" /\ router' = "closing" /\ FailPending
        /\ UNCHANGED <<events, reader, item, consumer>>
    BY <1>10 DEF RouterIncomingFails
  <2>2. /\ LeasesIn(events)' = LeasesIn(events) /\ OfReplies' = OfReplies
        /\ OfReader' = OfReader /\ OfConsumer' = OfConsumer /\ OfRouter = 0 /\ OfRouter' = 0
    BY <2>1, FailingFreesNothing DEF OfReader, OfConsumer, OfRouter
  <2>3. CASE UNCHANGED <<incoming, used>>
    <3>1. used' - used = Places' - Places
      BY <2>2, <2>3, <1>t DEF Places
    <3> QED
      BY <1>0, <3>1, LeaseMoves
  <2>4. CASE /\ incoming # <<>> /\ incoming' = Tail(incoming)
             /\ used' = IF Leased(Head(incoming)) THEN Freed(1) ELSE used
    <3>1. /\ LeasesIn(incoming) = IF Leased(Head(incoming)) THEN LeasesIn(incoming') + 1
                                                            ELSE LeasesIn(incoming')
          /\ LeasesIn(incoming') \in Nat
      BY <1>0, <2>4, LeasesAfterTail
    <3>2. Leased(Head(incoming)) => used >= 1
      BY <3>1, <1>t
    <3>3. used' = IF Leased(Head(incoming)) THEN used - 1 ELSE used
      BY <1>n, <2>4, <3>2 DEF Freed
    <3>4. used' - used = Places' - Places
      BY <2>2, <3>1, <3>3, <1>t DEF Places
    <3> QED
      BY <1>0, <3>4, LeaseMoves
  <2> QED
    BY <1>10, <2>3, <2>4 DEF RouterIncomingFails
<1>11. CASE RouterFinish
  <2>1. /\ router = "join" /\ router' = "done" /\ incoming' = <<>>
        /\ UNCHANGED <<reply, reader, item, consumer>> /\ used' = Freed(LeasesIn(incoming))
        /\ events' = events \/ events' = Append(events, Msg("disconnected", 0))
    BY <1>11 DEF RouterFinish
  <2>2. Msg("disconnected", 0) \in EventSet /\ ~Leased(Msg("disconnected", 0))
    BY DEF Msg, EventSet, Leased, FrameKinds, AnswerKinds, EventKinds
  <2>3. LeasesIn(events') = LeasesIn(events)
    BY <1>0, <2>1, <2>2, LeasesAfterAppend
  <2>4. /\ OfReplies' = OfReplies /\ OfReader' = OfReader
        /\ OfConsumer' = OfConsumer /\ OfRouter = 0 /\ OfRouter' = 0
    BY <2>1 DEF OfReader, OfConsumer, OfRouter, OfReplies, AnsweredReplies
  <2>5. used >= LeasesIn(incoming) /\ OfReader \in Nat /\ OfConsumer \in Nat
    BY <1>t
  <2>6. used' = used - LeasesIn(incoming) /\ LeasesIn(incoming') = 0
    BY <1>n, <2>1, <2>5, NoLeases DEF Freed
  <2>7. used' - used = Places' - Places
    BY <2>3, <2>4, <2>6, <1>t DEF Places
  <2> QED
    BY <1>0, <2>7, LeaseMoves
<1> QED
  BY <1>1, <1>2, <1>3, <1>4, <1>5, <1>6, <1>7, <1>8, <1>9, <1>10, <1>11 DEF RouterStep

LEMMA OwnerKeepsLeases ==
  ASSUME IInv, IInv', NoLeaseLeak, OwnerStep \/ ServerExit \/ ServerHang
  PROVE  NoLeaseLeak'
<1> USE DEF callerVars, queueVars, dropVars, readerVars, ownerVars, consumerVars, notOwner
<1>0. TypeOK /\ TypeOK'
  BY DEF IInv
<1>t. /\ LeasesIn(incoming) \in Nat /\ LeasesIn(events) \in Nat /\ OfReplies \in Nat
      /\ OfReader \in Nat /\ OfRouter \in Nat /\ OfConsumer \in Nat /\ used \in Nat
      /\ used = LeasesIn(incoming) + LeasesIn(events) + OfReplies
                  + OfReader + OfRouter + OfConsumer
  BY <1>0, LeaseNumbers
<1>1. CASE DropConnection
  <2>1. /\ events' = <<>> /\ used' = Freed(LeasesIn(events))
        /\ UNCHANGED <<incoming, reply, reader, item, router, consumer>>
    BY <1>1 DEF DropConnection
  <2>2. /\ LeasesIn(incoming)' = LeasesIn(incoming) /\ OfReplies' = OfReplies
        /\ OfReader' = OfReader /\ OfConsumer' = OfConsumer /\ OfRouter' = OfRouter
    BY <2>1 DEF OfReader, OfConsumer, OfRouter, OfReplies, AnsweredReplies
  <2>3. used >= LeasesIn(events) /\ used \in Nat /\ LeasesIn(events) \in Nat
    BY <1>t
  <2>4. used' = used - LeasesIn(events) /\ LeasesIn(events') = 0
    BY <2>1, <2>3, NoLeases DEF Freed
  <2>5. used' - used = Places' - Places
    BY <2>2, <2>4, <1>t DEF Places
  <2> QED
    BY <1>0, <2>5, LeaseMoves
<1>2. CASE ~DropConnection
  <2>1. UNCHANGED <<incoming, events, reply, reader, item, router, consumer, used>>
    BY <1>2 DEF OwnerStep, ShutdownStart, ShutdownEnqueue, ShutdownNotQueued,
       ShutdownAnswered, ShutdownGivesUp, ShutdownJoined, ServerExit, ServerHang
  <2> QED
    BY <2>1 DEF NoLeaseLeak, HeldLeases
<1> QED
  BY <1>1, <1>2

LEMMA InitLeases == Init => NoLeaseLeak
<1> SUFFICES ASSUME Init PROVE NoLeaseLeak
  OBVIOUS
<1>1. AnsweredReplies = {}
  BY DEF Init, AnsweredReplies, Answers
<1>2. OfReplies = 0
  BY <1>1, FS_EmptySet DEF OfReplies
<1>3. LeasesIn(incoming) = 0 /\ LeasesIn(events) = 0 /\ used = 0
  BY NoLeases DEF Init
<1>4. OfReader = 0 /\ OfRouter = 0 /\ OfConsumer = 0
  BY DEF Init, OfReader, OfRouter, OfConsumer
<1>5. TypeOK
  BY InitIInv DEF IInv
<1> QED
  BY <1>2, <1>3, <1>4, <1>5, LeaseTerms

LEMMA NextLeases == IInv /\ IInv' /\ NoLeaseLeak /\ [Next]_vars => NoLeaseLeak'
<1> SUFFICES ASSUME IInv, IInv', NoLeaseLeak, [Next]_vars PROVE NoLeaseLeak'
  OBVIOUS
<1>1. CASE UNCHANGED vars
  BY <1>1 DEF vars, NoLeaseLeak, HeldLeases, callerVars, queueVars, dropVars, readerVars,
     ownerVars, consumerVars
<1> QED
  BY <1>1, CallerKeepsLeases, ConsumerKeepsLeases, ReaderKeepsLeases, RouterKeepsLeases,
     OwnerKeepsLeases DEF Next

(* The ingress budget counts exactly the frames alive between the reader and *)
(* the consumers of replies and events, however each of them ends.           *)
THEOREM LeasesReturn == Spec => []NoLeaseLeak
  BY InductiveInvariant, InitLeases, NextLeases, PTL DEF Spec

-----------------------------------------------------------------------------
(* The must-deliver frames on their way, as sets of their numbers: settled    *)
(* (delivered d or rejected r), in the event queue e, in the router's hand    *)
(* h, in the reader's queue q, and in the reader's hand i; p were produced.   *)

Due(m) == m.kind \in {"request", "semantic"}
Number(m) == IF Due(m) THEN {m.n} ELSE {}
Numbers(s) == {n \in Nat : \E i \in DOMAIN s : Due(s[i]) /\ s[i].n = n}
Rising(s) == \A i, j \in DOMAIN s : i < j /\ Due(s[i]) /\ Due(s[j]) => s[i].n < s[j].n
Below(A, B) == \A a \in A, b \in B : a < b

(* The frames are in order, each at one place.                               *)
Ordered(d, r, e, h, q, i, p) ==
    /\ Below(e, h) /\ Below(e, q) /\ Below(e, i)
    /\ Below(h, q) /\ Below(h, i) /\ Below(q, i)
    /\ \A n \in d \cup r \cup e \cup h \cup q \cup i : n \in Nat /\ n >= 1 /\ n <= p
    /\ \A n \in d : n \notin r
    /\ \A n \in d \cup r : n \notin e /\ n \notin h /\ n \notin q /\ n \notin i

(* Nothing is missing before what was delivered, before what is in the event *)
(* queue, before what the router has and will take, and at the reader.       *)
Seen(d, r) == \A n \in d, m \in Nat : m >= 1 /\ m < n => m \in d \cup r
Queued(d, r, e) == \A n \in e, m \in Nat : m >= 1 /\ m < n => m \in d \cup r \cup e
Passing(d, r, e, h, q) ==
    /\ \A n \in h, m \in Nat : m >= 1 /\ m < n => m \in d \cup r \cup e
    /\ \A n \in q, m \in Nat : m >= 1 /\ m < n => m \in d \cup r \cup e \cup h \cup q
Reading(d, r, e, h, q, i, p) ==
    \A m \in Nat : m >= 1 /\ m <= p => m \in d \cup r \cup e \cup h \cup q \cup i

LEMMA NumbersAfterAppend ==
  ASSUME NEW S, \A x \in S : x.n \in Nat, NEW s \in Seq(S), NEW m \in S
  PROVE  /\ Numbers(Append(s, m)) = Numbers(s) \cup Number(m)
         /\ Rising(s) /\ Below(Numbers(s), Number(m)) => Rising(Append(s, m))
<1>1. /\ Len(s) \in Nat /\ DOMAIN s = 1..Len(s) /\ DOMAIN Append(s, m) = 1..(Len(s) + 1)
      /\ \A i \in 1..Len(s) : Append(s, m)[i] = s[i] /\ s[i] \in S
      /\ Append(s, m)[Len(s) + 1] = m
  BY AppendProperties, LenProperties, ElementOfSeq
<1> DEFINE t == Append(s, m)
<1>2. t = Append(s, m)
  OBVIOUS
<1> HIDE DEF t
<1>3. Numbers(t) = Numbers(s) \cup Number(m)
  <2>1. ASSUME NEW n \in Numbers(t) PROVE n \in Numbers(s) \cup Number(m)
    BY <1>1, <1>2, <2>1 DEF Numbers, Number
  <2>2. ASSUME NEW n \in Numbers(s) PROVE n \in Numbers(t)
    BY <1>1, <1>2, <2>2 DEF Numbers
  <2>3. ASSUME NEW n \in Number(m) PROVE n \in Numbers(t)
    BY <1>1, <1>2, <2>3 DEF Numbers, Number
  <2> QED
    BY <2>1, <2>2, <2>3
<1>4. ASSUME Rising(s), Below(Numbers(s), Number(m)) PROVE Rising(t)
  <2> SUFFICES ASSUME NEW i \in DOMAIN t, NEW j \in DOMAIN t, i < j, Due(t[i]), Due(t[j])
               PROVE  t[i].n < t[j].n
    BY DEF Rising
  <2>1. i \in 1..Len(s) /\ t[i] = s[i] /\ s[i].n \in Nat
    BY <1>1, <1>2
  <2>2. CASE j \in 1..Len(s)
    BY <1>1, <1>2, <1>4, <2>1, <2>2 DEF Rising
  <2>3. CASE j = Len(s) + 1
    <3>1. s[i].n \in Numbers(s) /\ m.n \in Number(m) /\ t[j] = m
      BY <1>1, <1>2, <2>1, <2>3 DEF Numbers, Number
    <3> QED
      BY <1>4, <2>1, <3>1 DEF Below
  <2> QED
    BY <1>1, <1>2, <2>2, <2>3
<1> QED
  BY <1>2, <1>3, <1>4

LEMMA NumbersAfterTail ==
  ASSUME NEW S, \A x \in S : x.n \in Nat, NEW s \in Seq(S), s # <<>>
  PROVE  /\ Numbers(s) = Number(Head(s)) \cup Numbers(Tail(s))
         /\ Rising(s) => Rising(Tail(s)) /\ Below(Number(Head(s)), Numbers(Tail(s)))
<1>1. /\ Len(s) \in Nat \ {0} /\ DOMAIN s = 1..Len(s) /\ DOMAIN Tail(s) = 1..(Len(s) - 1)
      /\ \A i \in 1..(Len(s) - 1) : Tail(s)[i] = s[i + 1]
      /\ Head(s) = s[1] /\ \A i \in 1..Len(s) : s[i] \in S
  BY HeadTailProperties, EmptySeq, LenProperties, ElementOfSeq
<1> DEFINE t == Tail(s)
<1>2. t = Tail(s)
  OBVIOUS
<1> HIDE DEF t
<1>3. Numbers(s) = Number(Head(s)) \cup Numbers(t)
  <2>1. ASSUME NEW n \in Numbers(s) PROVE n \in Number(Head(s)) \cup Numbers(t)
    <3>1. PICK i \in 1..Len(s) : Due(s[i]) /\ s[i].n = n
      BY <1>1, <2>1 DEF Numbers
    <3>2. CASE i = 1
      BY <1>1, <3>1, <3>2 DEF Number
    <3>3. CASE i # 1
      <4>1. i - 1 \in DOMAIN t /\ t[i - 1] = s[i]
        BY <1>1, <1>2, <3>1, <3>3
      <4> QED
        BY <2>1, <3>1, <4>1 DEF Numbers
    <3> QED
      BY <3>2, <3>3
  <2>2. ASSUME NEW n \in Numbers(t) PROVE n \in Numbers(s)
    <3>1. PICK i \in 1..(Len(s) - 1) : Due(t[i]) /\ t[i].n = n
      BY <1>1, <1>2, <2>2 DEF Numbers
    <3>2. i + 1 \in DOMAIN s /\ t[i] = s[i + 1]
      BY <1>1, <1>2, <3>1
    <3> QED
      BY <2>2, <3>1, <3>2 DEF Numbers
  <2>3. ASSUME NEW n \in Number(Head(s)) PROVE n \in Numbers(s)
    <3>1. 1 \in DOMAIN s
      BY <1>1
    <3> QED
      BY <1>1, <2>3, <3>1 DEF Numbers, Number
  <2> QED
    BY <2>1, <2>2, <2>3
<1>4. ASSUME Rising(s) PROVE Rising(t)
  <2> SUFFICES ASSUME NEW i \in DOMAIN t, NEW j \in DOMAIN t, i < j, Due(t[i]), Due(t[j])
               PROVE  t[i].n < t[j].n
    BY DEF Rising
  <2>1. /\ i + 1 \in DOMAIN s /\ j + 1 \in DOMAIN s /\ i + 1 < j + 1
        /\ t[i] = s[i + 1] /\ t[j] = s[j + 1]
    BY <1>1, <1>2
  <2> QED
    BY <1>4, <2>1 DEF Rising
<1>5. ASSUME Rising(s) PROVE Below(Number(Head(s)), Numbers(t))
  <2> SUFFICES ASSUME NEW a \in Number(Head(s)), NEW b \in Numbers(t) PROVE a < b
    BY DEF Below
  <2>1. PICK i \in 1..(Len(s) - 1) : Due(t[i]) /\ t[i].n = b
    BY <1>1, <1>2 DEF Numbers
  <2>2. i + 1 \in DOMAIN s /\ t[i] = s[i + 1] /\ 1 \in DOMAIN s /\ 1 < i + 1
    BY <1>1, <1>2, <2>1
  <2>3. Due(s[1]) /\ s[1].n = a
    BY <1>1 DEF Number
  <2> QED
    BY <1>5, <2>1, <2>2, <2>3 DEF Rising
<1> QED
  BY <1>2, <1>3, <1>4, <1>5

-----------------------------------------------------------------------------
(* The moves of a frame from place to place. *)

(* The reader reads the next frame.                                          *)
LEMMA FrameRead ==
  ASSUME NEW d, NEW r, NEW e, NEW h, NEW q, NEW p \in Nat, Ordered(d, r, e, h, q, {}, p)
  PROVE  /\ Ordered(d, r, e, h, q, {p + 1}, p + 1)
         /\ Reading(d, r, e, h, q, {}, p) => Reading(d, r, e, h, q, {p + 1}, p + 1)
<1>1. \A n \in d \cup r \cup e \cup h \cup q : n \in Nat /\ n >= 1 /\ n <= p + 1 /\ n < p + 1
  BY DEF Ordered
<1>2. Ordered(d, r, e, h, q, {p + 1}, p + 1)
  BY <1>1 DEF Ordered, Below
<1>3. \A m \in Nat : m <= p + 1 => m <= p \/ m = p + 1
  OBVIOUS
<1> QED
  BY <1>2, <1>3 DEF Reading

(* It sends the frame to the router, or drops it.                            *)
LEMMA FrameSent ==
  ASSUME NEW d, NEW r, NEW e, NEW h, NEW q, NEW i, NEW p \in Nat, Ordered(d, r, e, h, q, i, p),
         \A m, n \in i : m = n
  PROVE  /\ Ordered(d, r, e, h, q \cup i, {}, p) /\ Ordered(d, r, e, h, q, {}, p)
         /\ Passing(d, r, e, h, q) /\ Reading(d, r, e, h, q, i, p)
               => Passing(d, r, e, h, q \cup i) /\ Reading(d, r, e, h, q \cup i, {}, p)
<1>1. Ordered(d, r, e, h, q \cup i, {}, p) /\ Ordered(d, r, e, h, q, {}, p)
  BY DEF Ordered, Below
<1>2. ASSUME Passing(d, r, e, h, q), Reading(d, r, e, h, q, i, p)
      PROVE  Passing(d, r, e, h, q \cup i) /\ Reading(d, r, e, h, q \cup i, {}, p)
  <2>1. \A n \in i, m \in Nat : m >= 1 /\ m < n => m <= p
    BY DEF Ordered
  <2>2. Reading(d, r, e, h, q \cup i, {}, p)
    BY <1>2 DEF Reading
  <2> QED
    BY <1>2, <2>1, <2>2 DEF Passing, Reading
<1> QED
  BY <1>1, <1>2

(* The router takes the first frame of its queue.                            *)
LEMMA FrameTaken ==
  ASSUME NEW d, NEW r, NEW e, NEW x, NEW q, NEW i, NEW p \in Nat,
         Ordered(d, r, e, {}, x \cup q, i, p), Below(x, q), \A m, n \in x : m = n
  PROVE  /\ Ordered(d, r, e, x, q, i, p)
         /\ Passing(d, r, e, {}, x \cup q) => Passing(d, r, e, x, q)
         /\ Reading(d, r, e, {}, x \cup q, i, p) => Reading(d, r, e, x, q, i, p)
<1>1. Ordered(d, r, e, x, q, i, p)
  BY DEF Ordered, Below
<1>2. ASSUME Passing(d, r, e, {}, x \cup q) PROVE Passing(d, r, e, x, q)
  <2>1. \A n \in x, m \in Nat : m < n => m \notin x /\ m \notin q
    BY DEF Below, Ordered
  <2> QED
    BY <1>2, <2>1 DEF Passing
<1>3. Reading(d, r, e, {}, x \cup q, i, p) => Reading(d, r, e, x, q, i, p)
  BY DEF Reading
<1> QED
  BY <1>1, <1>2, <1>3

(* It publishes the frame.                                                   *)
LEMMA FramePublished ==
  ASSUME NEW d, NEW r, NEW e, NEW h, NEW q, NEW i, NEW p \in Nat,
         Ordered(d, r, e, h, q, i, p), \A m, n \in h : m = n
  PROVE  /\ Ordered(d, r, e \cup h, {}, q, i, p)
         /\ Queued(d, r, e) /\ Passing(d, r, e, h, q)
               => Queued(d, r, e \cup h) /\ Passing(d, r, e \cup h, {}, q)
         /\ Reading(d, r, e, h, q, i, p) => Reading(d, r, e \cup h, {}, q, i, p)
<1>1. Ordered(d, r, e \cup h, {}, q, i, p)
  BY DEF Ordered, Below
<1> QED
  BY <1>1 DEF Queued, Passing, Reading

(* It has rejected the request to the child.                                 *)
LEMMA FrameRejected ==
  ASSUME NEW d, NEW r, NEW e, NEW h, NEW q, NEW i, NEW p \in Nat,
         Ordered(d, r, e, h, q, i, p), \A m, n \in h : m = n
  PROVE  /\ Ordered(d, r \cup h, e, {}, q, i, p)
         /\ Seen(d, r) => Seen(d, r \cup h)
         /\ Queued(d, r, e) => Queued(d, r \cup h, e)
         /\ Passing(d, r, e, h, q) => Passing(d, r \cup h, e, {}, q)
         /\ Reading(d, r, e, h, q, i, p) => Reading(d, r \cup h, e, {}, q, i, p)
<1>1. \A n \in h : n \notin d /\ n \notin e /\ n \notin q /\ n \notin i
  BY DEF Ordered, Below
<1>2. Ordered(d, r \cup h, e, {}, q, i, p)
  BY <1>1 DEF Ordered, Below
<1> QED
  BY <1>2 DEF Seen, Queued, Passing, Reading

(* The consumer takes the first event.                                       *)
LEMMA FrameDelivered ==
  ASSUME NEW d, NEW r, NEW x, NEW e, NEW h, NEW q, NEW i, NEW p \in Nat,
         Ordered(d, r, x \cup e, h, q, i, p), Below(x, e), \A m, n \in x : m = n
  PROVE  /\ Ordered(d \cup x, r, e, h, q, i, p)
         /\ Seen(d, r) /\ Queued(d, r, x \cup e)
               => Seen(d \cup x, r) /\ Queued(d \cup x, r, e)
         /\ Passing(d, r, x \cup e, h, q) => Passing(d \cup x, r, e, h, q)
         /\ Reading(d, r, x \cup e, h, q, i, p) => Reading(d \cup x, r, e, h, q, i, p)
<1>1. \A n \in x : n \notin r /\ n \notin e /\ n \notin h /\ n \notin q /\ n \notin i
  BY DEF Ordered, Below
<1>2. Ordered(d \cup x, r, e, h, q, i, p)
  BY <1>1 DEF Ordered, Below
<1>3. \A n \in x, m \in Nat : m < n => m \notin x /\ m \notin e
  BY DEF Below, Ordered
<1>4. ASSUME Seen(d, r), Queued(d, r, x \cup e) PROVE Seen(d \cup x, r) /\ Queued(d \cup x, r, e)
  BY <1>3, <1>4 DEF Seen, Queued
<1>5. Passing(d, r, x \cup e, h, q) => Passing(d \cup x, r, e, h, q)
  BY DEF Passing
<1>6. Reading(d, r, x \cup e, h, q, i, p) => Reading(d \cup x, r, e, h, q, i, p)
  BY DEF Reading
<1> QED
  BY <1>2, <1>4, <1>5, <1>6

(* What is given up when the connection goes down.                           *)
LEMMA FramesLost ==
  ASSUME NEW d, NEW r, NEW e, NEW h, NEW q, NEW i, NEW p, Ordered(d, r, e, h, q, i, p)
  PROVE  /\ Ordered(d, r, e, {}, q, i, p) /\ Ordered(d, r, e, {}, {}, i, p)
         /\ Ordered(d, r, {}, h, q, i, p) /\ Ordered(d, r, e, h, q, {}, p)
  BY DEF Ordered, Below

-----------------------------------------------------------------------------
(* The frames of the connection. *)

InEvents == Numbers(events)
InQueue  == Numbers(incoming)
InHand   == IF cur.kind = "reject" THEN {cur.n} ELSE Number(cur)
AtReader == Number(item)
FrameInHand == reader # "stopped" /\ item.kind \notin FinalKinds

(* In order everywhere; without a gap as far as the frame may yet come, that *)
(* is as long as the event channel is open and the router running.           *)
FlowInv ==
    /\ Rising(events) /\ Rising(incoming) /\ (reader = "read" => item = NoMsg)
    /\ Ordered(hist.delivered, hist.rejected, InEvents, InHand, InQueue, AtReader, hist.produced)
    /\ Seen(hist.delivered, hist.rejected)
    /\ EventsOpen => Queued(hist.delivered, hist.rejected, InEvents)
    /\ EventsOpen /\ RouterRunning =>
          /\ Passing(hist.delivered, hist.rejected, InEvents, InHand, InQueue)
          /\ FrameInHand => Reading(hist.delivered, hist.rejected, InEvents, InHand, InQueue,
                                    AtReader, hist.produced)

LEMMA FlowTypes ==
  ASSUME IInv
  PROVE  /\ events \in Seq(EventSet) /\ incoming \in Seq(MsgSet)
         /\ \A m \in EventSet : m.n \in Nat
         /\ \A m \in MsgSet : m.n \in Nat
         /\ hist.produced \in Nat /\ item \in MsgSet \cup {NoMsg} /\ cur \in CurSet
         /\ \A m, n \in InHand : m = n
         /\ \A m, n \in AtReader : m = n
         /\ \A x : \A m, n \in Number(x) : m = n
<1>1. hist \in HistSet /\ hist.produced \in Nat
  BY DEF IInv, TypeOK, HistSet
<1> QED
  BY <1>1 DEF IInv, TypeOK, EventSet, MsgSet, InHand, AtReader, Number

(* A step that moves no such frame. *)
LEMMA NoFrameMoves ==
  ASSUME FlowInv, Rising(events'), Rising(incoming'), reader' = "read" => item' = NoMsg,
         InEvents' = InEvents, InHand' = InHand, InQueue' = InQueue, AtReader' = AtReader,
         hist'.delivered = hist.delivered, hist'.rejected = hist.rejected,
         hist'.produced = hist.produced,
         EventsOpen' => EventsOpen, RouterRunning' => RouterRunning,
         FrameInHand' => FrameInHand
  PROVE  FlowInv'
  BY DEF FlowInv

LEMMA OthersKeepFlow ==
  ASSUME IInv, FlowInv, \/ \E id \in Requests : CallerStep(id)
                        \/ SendFrame \/ ConsumerDone \/ ConsumerClosed
                        \/ ServerExit \/ ServerHang \/ (OwnerStep /\ ~DropConnection)
  PROVE  FlowInv'
<1> USE DEF callerVars, queueVars, dropVars, readerVars, ownerVars, consumerVars
<1>1. UNCHANGED <<events, incoming, cur, item, reader, router>>
  BY DEF CallerStep, CallStart, CallEnqueue, CallNotQueued, CallReceive, CallTimeout,
     CallDisconnected, Expire, SendFrame, notCaller, ConsumerDone, ConsumerClosed, notConsumer,
     ServerExit, ServerHang, OwnerStep, ShutdownStart, ShutdownEnqueue, ShutdownNotQueued,
     ShutdownAnswered, ShutdownGivesUp, ShutdownJoined, notOwner
<1>2. UNCHANGED <<hist.delivered, hist.rejected, hist.produced>>
  <2>1. hist \in HistSet
    BY DEF IInv, TypeOK
  <2>2. hist' = hist \/ hist' = [hist EXCEPT !.frames = @ + 1]
    BY DEF CallerStep, CallStart, CallEnqueue, CallNotQueued, CallReceive, CallTimeout,
       CallDisconnected, Expire, SendFrame, ConsumerDone, ConsumerClosed, ServerExit, ServerHang,
       OwnerStep, ShutdownStart, ShutdownEnqueue, ShutdownNotQueued, ShutdownAnswered,
       ShutdownGivesUp, ShutdownJoined, notOwner
  <2> QED
    BY <2>1, <2>2 DEF HistSet
<1>3. EventsOpen' => EventsOpen
  BY DEF CallerStep, CallStart, CallEnqueue, CallNotQueued, CallReceive, CallTimeout,
     CallDisconnected, Expire, SendFrame, notCaller, ConsumerDone, ConsumerClosed, notConsumer,
     ServerExit, ServerHang, OwnerStep, ShutdownStart, ShutdownEnqueue, ShutdownNotQueued,
     ShutdownAnswered, ShutdownGivesUp, ShutdownJoined, EventsOpen
<1>4. /\ Rising(events') /\ Rising(incoming') /\ (reader' = "read" => item' = NoMsg)
      /\ InEvents' = InEvents /\ InHand' = InHand /\ InQueue' = InQueue /\ AtReader' = AtReader
      /\ RouterRunning' = RouterRunning /\ FrameInHand' = FrameInHand
  BY <1>1 DEF FlowInv, InEvents, InHand, InQueue, AtReader, RouterRunning, FrameInHand
<1> QED
  BY <1>2, <1>3, <1>4, NoFrameMoves

LEMMA DropKeepsFlow ==
  ASSUME IInv, FlowInv, DropConnection
  PROVE  FlowInv'
<1>1. /\ events' = <<>> /\ ~EventsOpen' /\ UNCHANGED <<incoming, cur, item, reader, hist>>
  BY DEF DropConnection, notOwner, EventsOpen, readerVars
<1>2. Rising(events') /\ InEvents' = {}
  BY <1>1 DEF Rising, InEvents, Numbers
<1>3. InHand' = InHand /\ InQueue' = InQueue /\ AtReader' = AtReader /\ Rising(incoming')
  BY <1>1 DEF InHand, InQueue, AtReader, FlowInv
<1> QED
  BY <1>1, <1>2, <1>3, FramesLost DEF FlowInv

LEMMA ReceiveKeepsFlow ==
  ASSUME IInv, FlowInv, ConsumerReceive
  PROVE  FlowInv'
<1> DEFINE x == Number(Head(events))
<1>1. /\ events # <<>> /\ events' = Tail(events) /\ EventsOpen
      /\ UNCHANGED <<incoming, cur, item, reader, router, owner>>
  BY DEF ConsumerReceive, notConsumer, EventsOpen, Usable, dropVars, readerVars, ownerVars
<1>2. /\ InEvents = x \cup InEvents' /\ Rising(events') /\ Below(x, InEvents')
  BY <1>1, FlowTypes, NumbersAfterTail DEF FlowInv, InEvents
<1>3. /\ hist'.delivered = hist.delivered \cup x
      /\ hist'.rejected = hist.rejected /\ hist'.produced = hist.produced
  <2>1. hist \in HistSet
    BY DEF IInv, TypeOK
  <2>2. CASE Head(events).kind \in {"request", "semantic"}
    BY <2>1, <2>2 DEF ConsumerReceive, HistSet, Number, Due
  <2>3. CASE Head(events).kind \notin {"request", "semantic"}
    BY <2>1, <2>3 DEF ConsumerReceive, HistSet, Number, Due
  <2> QED
    BY <2>2, <2>3
<1>4. /\ InHand' = InHand /\ InQueue' = InQueue /\ AtReader' = AtReader /\ Rising(incoming')
      /\ (reader' = "read" => item' = NoMsg)
      /\ EventsOpen' = EventsOpen /\ RouterRunning' = RouterRunning /\ FrameInHand' = FrameInHand
  BY <1>1 DEF InHand, InQueue, AtReader, FlowInv, EventsOpen, RouterRunning, FrameInHand
<1>5. /\ hist.produced \in Nat /\ \A m, n \in x : m = n
      /\ Ordered(hist.delivered, hist.rejected, x \cup InEvents', InHand, InQueue, AtReader,
                 hist.produced)
      /\ Queued(hist.delivered, hist.rejected, x \cup InEvents')
  BY <1>1, <1>2, FlowTypes DEF FlowInv
<1> DEFINE d == hist.delivered  r == hist.rejected  p == hist.produced  e == InEvents'
<1> HIDE DEF x, d, r, p, e
<1>6. /\ Ordered(d \cup x, r, e, InHand, InQueue, AtReader, p)
      /\ Seen(d, r) /\ Queued(d, r, x \cup e) => Seen(d \cup x, r) /\ Queued(d \cup x, r, e)
      /\ Passing(d, r, x \cup e, InHand, InQueue) => Passing(d \cup x, r, e, InHand, InQueue)
      /\ Reading(d, r, x \cup e, InHand, InQueue, AtReader, p)
            => Reading(d \cup x, r, e, InHand, InQueue, AtReader, p)
  BY <1>2, <1>5, FrameDelivered DEF d, r, p, e
<1> QED
  BY <1>1, <1>2, <1>3, <1>4, <1>5, <1>6 DEF FlowInv, d, r, p, e

LEMMA ReaderKeepsFlow ==
  ASSUME IInv, FlowInv, ReaderStep
  PROVE  FlowInv'
<1> USE DEF callerVars, queueVars, dropVars, readerVars, ownerVars, consumerVars, notReader
<1>1. /\ UNCHANGED <<events, cur, router, owner>>
      /\ InEvents' = InEvents /\ InHand' = InHand /\ Rising(events')
      /\ EventsOpen' = EventsOpen /\ RouterRunning' = RouterRunning
  <2>1. UNCHANGED <<events, cur, router, owner>>
    BY DEF ReaderStep, ReaderReadLossy, ReaderReadFrame, ReaderReadFinal, ReaderAcquire, ReaderSend
  <2> QED
    BY <2>1 DEF InEvents, InHand, EventsOpen, RouterRunning, FlowInv
<1>2. hist \in HistSet
  BY DEF IInv, TypeOK
<1>3. ASSUME UNCHANGED <<incoming, hist.delivered, hist.rejected, hist.produced>>,
             AtReader' = AtReader, reader' # "read", FrameInHand' => FrameInHand
      PROVE  FlowInv'
  BY <1>1, <1>3, NoFrameMoves DEF FlowInv, InQueue
<1>e. reader = "read" => AtReader = {} /\ FrameInHand
  BY DEF FlowInv, AtReader, Number, Due, NoMsg, Msg, FrameInHand, FinalKinds
<1>4. CASE ReaderReadLossy
  <2>1. UNCHANGED <<incoming, hist.delivered, hist.rejected, hist.produced>>
    BY <1>2, <1>4 DEF ReaderReadLossy, HistSet
  <2>2. /\ reader = "read"
        /\ \/ reader' = "send" /\ item' = Msg("lossy", 0)
           \/ reader' = reader /\ item' = item
    BY <1>4 DEF ReaderReadLossy
  <2>3. AtReader' = AtReader
    BY <1>e, <2>2 DEF AtReader, Number, Due, Msg
  <2>4. InQueue' = InQueue /\ Rising(incoming') /\ (reader' = "read" => item' = NoMsg)
    BY <2>1, <2>2 DEF InQueue, FlowInv
  <2> QED
    BY <1>1, <1>e, <2>1, <2>2, <2>3, <2>4, NoFrameMoves
<1>5. CASE ReaderReadFrame
  <2>0. reader = "read" /\ reader' = "acquire" /\ incoming' = incoming
    BY <1>5 DEF ReaderReadFrame
  <2>1. CASE /\ \E kind \in {"request", "semantic"} : item' = Msg(kind, hist.produced + 1)
             /\ hist' = [hist EXCEPT !.produced = @ + 1]
    <3>1. /\ hist'.delivered = hist.delivered /\ hist'.rejected = hist.rejected
          /\ hist'.produced = hist.produced + 1
      BY <1>2, <2>1 DEF HistSet
    <3>2. AtReader' = {hist.produced + 1} /\ AtReader = {} /\ FrameInHand
      BY <1>e, <2>0, <2>1 DEF AtReader, Number, Due, Msg
    <3>3. InQueue' = InQueue /\ Rising(incoming')
      BY <2>0 DEF InQueue, FlowInv
    <3>4. /\ hist.produced \in Nat
          /\ Ordered(hist.delivered, hist.rejected, InEvents, InHand, InQueue, {}, hist.produced)
      BY <3>2, FlowTypes DEF FlowInv
    <3>5. /\ Ordered(hist.delivered, hist.rejected, InEvents, InHand, InQueue,
                     {hist.produced + 1}, hist.produced + 1)
          /\ Reading(hist.delivered, hist.rejected, InEvents, InHand, InQueue, {}, hist.produced)
               => Reading(hist.delivered, hist.rejected, InEvents, InHand, InQueue,
                          {hist.produced + 1}, hist.produced + 1)
      BY <3>4, FrameRead
    <3> QED
      BY <1>1, <2>0, <3>1, <3>2, <3>3, <3>5 DEF FlowInv
  <2>2. CASE /\ UNCHANGED <<hist.delivered, hist.rejected, hist.produced>>
             /\ item'.kind \in AnswerKinds \cup {"badId"}
    <3>1. AtReader' = {}
      BY <2>2 DEF AtReader, Number, Due, AnswerKinds
    <3> QED
      BY <1>3, <1>e, <2>0, <2>2, <3>1
  <2>3. \/ /\ \E kind \in {"request", "semantic"} : item' = Msg(kind, hist.produced + 1)
           /\ hist' = [hist EXCEPT !.produced = @ + 1]
        \/ /\ UNCHANGED <<hist.delivered, hist.rejected, hist.produced>>
           /\ item'.kind \in AnswerKinds \cup {"badId"}
    BY <1>2, <1>5 DEF ReaderReadFrame, HistSet, Msg
  <2> QED
    BY <2>1, <2>2, <2>3
<1>6. CASE ReaderReadFinal
  <2>1. /\ reader = "read" /\ reader' = "send" /\ UNCHANGED <<incoming, hist>>
        /\ item'.kind \in {"error", "eof"}
    BY <1>6 DEF ReaderReadFinal, Msg
  <2>2. AtReader' = {}
    BY <2>1 DEF AtReader, Number, Due
  <2> QED
    BY <1>3, <1>e, <2>1, <2>2
<1>7. CASE ReaderAcquire
  <2>0. reader = "acquire" /\ reader' = "send" /\ UNCHANGED <<incoming, hist>>
    BY <1>7 DEF ReaderAcquire
  <2>1. CASE item' = item
    <3>1. AtReader' = AtReader /\ (FrameInHand' => FrameInHand)
      BY <2>0, <2>1 DEF AtReader, FrameInHand
    <3> QED
      BY <1>3, <2>0, <3>1
  <2>2. CASE item' = Msg("overloaded", 0)
    <3>1. AtReader' = {} /\ ~FrameInHand'
      BY <2>2 DEF AtReader, Number, Due, Msg, FrameInHand, FinalKinds
    <3>2. InQueue' = InQueue /\ Rising(incoming')
      BY <2>0 DEF InQueue, FlowInv
    <3>3. Ordered(hist.delivered, hist.rejected, InEvents, InHand, InQueue, {}, hist.produced)
      BY FramesLost DEF FlowInv
    <3> QED
      BY <1>1, <2>0, <3>1, <3>2, <3>3 DEF FlowInv
  <2> QED
    BY <1>7, <2>1, <2>2 DEF ReaderAcquire
<1>8. CASE ReaderSend
  <2>0. reader = "send" /\ item' = NoMsg /\ hist' = hist /\ AtReader' = {}
    BY <1>8 DEF ReaderSend, AtReader, Number, Due, NoMsg, Msg
  <2>1. /\ hist.produced \in Nat /\ \A m, n \in AtReader : m = n
        /\ item \in MsgSet /\ incoming \in Seq(MsgSet) /\ \A m \in MsgSet : m.n \in Nat
    BY <2>0, FlowTypes DEF IInv, ControlOK
  <2>2. /\ Ordered(hist.delivered, hist.rejected, InEvents, InHand, InQueue \cup AtReader, {},
                   hist.produced)
        /\ Ordered(hist.delivered, hist.rejected, InEvents, InHand, InQueue, {}, hist.produced)
        /\ Passing(hist.delivered, hist.rejected, InEvents, InHand, InQueue)
           /\ Reading(hist.delivered, hist.rejected, InEvents, InHand, InQueue, AtReader,
                      hist.produced)
              => /\ Passing(hist.delivered, hist.rejected, InEvents, InHand, InQueue \cup AtReader)
                 /\ Reading(hist.delivered, hist.rejected, InEvents, InHand,
                            InQueue \cup AtReader, {}, hist.produced)
    BY <2>1, FrameSent DEF FlowInv
  <2>3. CASE /\ incoming' = Append(incoming, item)
             /\ reader' = IF item.kind \in FinalKinds THEN "stopped" ELSE "read"
    <3>1. Below(InQueue, AtReader)
      BY DEF FlowInv, Ordered
    <3>2. InQueue' = InQueue \cup AtReader /\ Rising(incoming')
      BY <2>1, <2>3, <3>1, NumbersAfterAppend DEF FlowInv, InQueue, AtReader
    <3>3. CASE item.kind \in FinalKinds
      <4>1. AtReader = {}
        BY <3>3 DEF FinalKinds, AtReader, Number, Due
      <4>2. ~FrameInHand' /\ reader' = "stopped"
        BY <2>3, <3>3 DEF FrameInHand
      <4> QED
        BY <1>1, <2>0, <2>2, <3>2, <4>1, <4>2 DEF FlowInv
    <3>4. CASE item.kind \notin FinalKinds
      <4>1. FrameInHand
        BY <2>0, <3>4 DEF FrameInHand
      <4> QED
        BY <1>1, <2>0, <2>2, <3>2, <4>1 DEF FlowInv
    <3> QED
      BY <3>3, <3>4
  <2>4. CASE incoming' = incoming /\ reader' = "stopped"
    <3>1. InQueue' = InQueue /\ Rising(incoming') /\ ~FrameInHand'
      BY <2>4 DEF InQueue, FlowInv, FrameInHand
    <3> QED
      BY <1>1, <2>0, <2>2, <2>4, <3>1 DEF FlowInv
  <2> QED
    BY <1>8, <2>3, <2>4 DEF ReaderSend
<1> QED
  BY <1>4, <1>5, <1>6, <1>7, <1>8 DEF ReaderStep

(* What carries no number adds none to the queue of events.                  *)
LEMMA NumberlessAppended ==
  ASSUME NEW s \in Seq(EventSet), NEW m \in EventSet, Number(m) = {}, Rising(s),
         \A x \in EventSet : x.n \in Nat
  PROVE  Numbers(Append(s, m)) = Numbers(s) /\ Rising(Append(s, m))
<1>1. Below(Numbers(s), Number(m))
  BY DEF Below
<1>2. /\ Numbers(Append(s, m)) = Numbers(s) \cup Number(m)
      /\ Rising(s) /\ Below(Numbers(s), Number(m)) => Rising(Append(s, m))
  BY NumbersAfterAppend
<1> QED
  BY <1>1, <1>2

(* A count of drops is no must-deliver frame. *)
LEMMA CountsKeepNumbers ==
  ASSUME IInv, FlowInv, NEW count \in Nat, PublishDropCount(count)
  PROVE  InEvents' = InEvents /\ Rising(events')
<1>1. /\ Msg("dropped", count) \in EventSet /\ Number(Msg("dropped", count)) = {}
  BY DEF Msg, EventSet, Number, Due
<1>3. Rising(events) /\ events \in Seq(EventSet) /\ \A m \in EventSet : m.n \in Nat
  BY FlowTypes DEF FlowInv
<1> DEFINE m == Msg("dropped", count)
<1>2. m \in EventSet /\ Number(m) = {}
  BY <1>1
<1> HIDE DEF m
<1>4. /\ Numbers(Append(events, m)) = Numbers(events)
      /\ Rising(Append(events, m))
  BY <1>2, <1>3, NumberlessAppended
<1>5. events' = events \/ events' = Append(events, m)
  BY DEF PublishDropCount, m
<1> QED
  BY <1>3, <1>4, <1>5 DEF InEvents

(* The router goes down, and what it had in hand with it. *)
LEMMA ClosingKeepsFlow ==
  ASSUME IInv, FlowInv, UNCHANGED <<events, reader, item, hist>>, ~RouterRunning',
         InHand' = {}, Rising(incoming'), InQueue' = InQueue \/ InQueue' = {},
         EventsOpen' => EventsOpen
  PROVE  FlowInv'
<1>1. InEvents' = InEvents /\ AtReader' = AtReader /\ Rising(events')
  BY DEF InEvents, AtReader, FlowInv
<1>2. Ordered(hist.delivered, hist.rejected, InEvents, {}, InQueue', AtReader, hist.produced)
  BY FramesLost DEF FlowInv
<1> QED
  BY <1>1, <1>2 DEF FlowInv

LEMMA RouterKeepsFlow ==
  ASSUME IInv, FlowInv, RouterStep
  PROVE  FlowInv'
<1> USE DEF callerVars, queueVars, dropVars, readerVars, ownerVars, consumerVars, notRouter
<1>0. /\ UNCHANGED <<owner, reader, item>> /\ AtReader' = AtReader /\ EventsOpen' = EventsOpen
      /\ FrameInHand' = FrameInHand /\ (reader' = "read" => item' = NoMsg)
  <2>1. UNCHANGED <<owner, reader, item>>
    BY DEF RouterStep, RouterTop, RouterTick, RouterTakeCall, RouterTakeFrame,
       RouterTakeShutdown, RouterWrite, RouterWriteHung, WriteSucceeds, RouterWriteFails,
       RouterTakeAnswer, RouterTakeEvent, Published, NotPublished, RouterIncomingFails,
       RouterReapChild, RouterFinish
  <2> QED
    BY <2>1 DEF AtReader, EventsOpen, FrameInHand, FlowInv
<1>k. /\ router = "publish" <=> cur.kind \in EventKinds
      /\ router = "write" <=> cur.kind \in {"call", "frame", "reject"}
      /\ dropped \in Nat /\ readerDropped \in Nat
  BY DEF IInv, ControlOK, TypeOK
<1>h. router \notin {"publish", "write"} => InHand = {}
  BY <1>k DEF InHand, Number, Due, EventKinds
<1>m. \A k \in {"none", "call", "frame", "shutdown"}, n \in Nat :
         cur' = Msg(k, n) => InHand' = {}
  BY DEF InHand, Number, Due, Msg
<1>n. cur' = NoMsg => InHand' = {}
  BY DEF InHand, Number, Due, Msg, NoMsg
<1>1. CASE RouterTop
  <2>1. InEvents' = InEvents /\ Rising(events')
    BY <1>k, <1>1, CountsKeepNumbers DEF RouterTop
  <2>2. UNCHANGED <<incoming, cur, hist>> /\ RouterRunning
    BY <1>1 DEF RouterTop, RouterRunning
  <2>3. InQueue' = InQueue /\ InHand' = InHand /\ Rising(incoming')
    BY <2>2 DEF InQueue, InHand, FlowInv
  <2> QED
    BY <1>0, <2>1, <2>2, <2>3, NoFrameMoves
<1>2. CASE RouterTick \/ RouterTakeCall \/ RouterTakeFrame
  <2>1. UNCHANGED <<events, incoming, hist>> /\ RouterRunning /\ InHand = {}
    BY <1>2, <1>h DEF RouterTick, RouterTakeCall, RouterTakeFrame, RouterRunning
  <2>2. InHand' = {}
    <3>1. CASE cur' = cur
      BY <2>1, <3>1 DEF InHand
    <3>2. CASE RouterTakeCall /\ cur' = Msg("call", Head(commands).n)
      BY <3>2 DEF InHand, Number, Due, Msg
    <3>3. CASE RouterTakeFrame
      BY <3>3 DEF RouterTakeFrame, InHand, Number, Due
    <3> QED
      BY <1>2, <3>1, <3>2, <3>3 DEF RouterTick, RouterTakeCall, Refuse
  <2>3. /\ InEvents' = InEvents /\ InQueue' = InQueue /\ Rising(events') /\ Rising(incoming')
    BY <2>1 DEF InEvents, InQueue, FlowInv
  <2> QED
    BY <1>0, <2>1, <2>2, <2>3, NoFrameMoves
<1>3. CASE RouterTakeShutdown \/ RouterWriteFails
  <2>1. UNCHANGED <<events, incoming, hist>> /\ router' = "closing"
        /\ (cur' = NoMsg \/ cur' = Msg("shutdown", 0))
    BY <1>3 DEF RouterTakeShutdown, RouterWriteFails
  <2>2. InHand' = {} /\ ~RouterRunning' /\ InQueue' = InQueue /\ Rising(incoming')
    BY <1>m, <1>n, <2>1 DEF RouterRunning, InQueue, FlowInv
  <2> QED
    BY <1>0, <2>1, <2>2, ClosingKeepsFlow
<1>4. CASE RouterWrite \/ RouterWriteHung
  <2>1. /\ UNCHANGED <<events, incoming>> /\ cur' = NoMsg /\ RouterRunning
        /\ hist' = IF cur.kind = "reject" THEN [hist EXCEPT !.rejected = @ \cup {cur.n}] ELSE hist
    BY <1>4 DEF RouterWrite, RouterWriteHung, WriteSucceeds, RouterRunning
  <2>2. /\ InEvents' = InEvents /\ InQueue' = InQueue /\ Rising(events') /\ Rising(incoming')
        /\ InHand' = {}
    BY <1>n, <2>1 DEF InEvents, InQueue, FlowInv
  <2>3. /\ hist'.delivered = hist.delivered /\ hist'.produced = hist.produced
        /\ hist'.rejected = hist.rejected \cup InHand
    <3>1. hist \in HistSet
      BY DEF IInv, TypeOK
    <3>2. CASE cur.kind = "reject"
      BY <2>1, <3>1, <3>2 DEF HistSet, InHand
    <3>3. CASE cur.kind # "reject"
      <4>1. InHand = {}
        BY <1>k, <1>4, <3>3 DEF InHand, Number, Due, RouterWrite, RouterWriteHung, WriteSucceeds,
           EventKinds
      <4> QED
        BY <2>1, <3>3, <4>1
    <3> QED
      BY <3>2, <3>3
  <2>4. hist.produced \in Nat /\ \A m, n \in InHand : m = n
    BY FlowTypes
  <2> DEFINE d == hist.delivered  r == hist.rejected  p == hist.produced
  <2> HIDE DEF d, r, p
  <2>5. /\ Ordered(d, r \cup InHand, InEvents, {}, InQueue, AtReader, p)
        /\ Seen(d, r) => Seen(d, r \cup InHand)
        /\ Queued(d, r, InEvents) => Queued(d, r \cup InHand, InEvents)
        /\ Passing(d, r, InEvents, InHand, InQueue)
              => Passing(d, r \cup InHand, InEvents, {}, InQueue)
        /\ Reading(d, r, InEvents, InHand, InQueue, AtReader, p)
              => Reading(d, r \cup InHand, InEvents, {}, InQueue, AtReader, p)
    BY <2>4, FrameRejected DEF FlowInv, d, r, p
  <2> QED
    BY <1>0, <2>1, <2>2, <2>3, <2>5 DEF FlowInv, d, r, p
<1>5. CASE RouterTakeAnswer
  <2>1. /\ UNCHANGED <<events, cur, hist>> /\ incoming # <<>> /\ incoming' = Tail(incoming)
        /\ Head(incoming).kind \in AnswerKinds /\ RouterRunning
    BY <1>5 DEF RouterTakeAnswer, RouterRunning
  <2>2. Number(Head(incoming)) = {}
    BY <2>1 DEF Number, Due, AnswerKinds
  <2>3. InQueue' = InQueue /\ Rising(incoming')
    BY <2>1, <2>2, FlowTypes, NumbersAfterTail DEF FlowInv, InQueue
  <2>4. InEvents' = InEvents /\ InHand' = InHand /\ Rising(events')
    BY <2>1 DEF InEvents, InHand, FlowInv
  <2> QED
    BY <1>0, <2>1, <2>3, <2>4, NoFrameMoves
<1>6. CASE RouterTakeEvent
  <2> DEFINE x == Number(Head(incoming))
  <2>1. /\ UNCHANGED hist /\ incoming # <<>> /\ incoming' = Tail(incoming)
        /\ cur' = Head(incoming) /\ Head(incoming).kind \in EventKinds /\ RouterRunning
        /\ router = "select"
    BY <1>6 DEF RouterTakeEvent, RouterRunning
  <2>2. InHand = {} /\ InHand' = x
    BY <1>h, <2>1 DEF InHand, EventKinds
  <2>3. InEvents' = InEvents /\ Rising(events')
    <3>1. UNCHANGED events \/ PublishDropCount(dropped)
      BY <1>6 DEF RouterTakeEvent
    <3> QED
      BY <1>k, <3>1, CountsKeepNumbers DEF InEvents, FlowInv
  <2>4. InQueue = x \cup InQueue' /\ Rising(incoming') /\ Below(x, InQueue')
    BY <2>1, FlowTypes, NumbersAfterTail DEF FlowInv, InQueue
  <2>5. hist.produced \in Nat /\ \A m, n \in x : m = n
    BY FlowTypes
  <2> DEFINE d == hist.delivered  r == hist.rejected  p == hist.produced  q == InQueue'
  <2> HIDE DEF x, d, r, p, q
  <2>6. Ordered(d, r, InEvents, {}, x \cup q, AtReader, p)
    BY <2>2, <2>4 DEF FlowInv, d, r, p, q
  <2>7. /\ Ordered(d, r, InEvents, x, q, AtReader, p)
        /\ Passing(d, r, InEvents, {}, x \cup q) => Passing(d, r, InEvents, x, q)
        /\ Reading(d, r, InEvents, {}, x \cup q, AtReader, p)
              => Reading(d, r, InEvents, x, q, AtReader, p)
    BY <2>4, <2>5, <2>6, FrameTaken DEF p, q
  <2> QED
    BY <1>0, <2>1, <2>2, <2>3, <2>4, <2>7 DEF FlowInv, d, r, p, q
<1>7. CASE Published
  <2>1. /\ UNCHANGED <<incoming, hist>> /\ events' = Append(events, cur) /\ cur' = NoMsg
        /\ RouterRunning /\ router = "publish" /\ EventsOpen
    BY <1>7 DEF Published, NextIteration, RouterRunning
  <2>2. cur \in EventSet /\ InHand = Number(cur)
    BY <1>k, <2>1, FlowTypes DEF CurSet, EventSet, EventKinds, InHand
  <2>3. Below(InEvents, InHand)
    BY DEF FlowInv, Ordered
  <2>4. InEvents' = InEvents \cup InHand /\ Rising(events')
    BY <2>1, <2>2, <2>3, FlowTypes, NumbersAfterAppend DEF FlowInv, InEvents
  <2>5. InHand' = {} /\ InQueue' = InQueue /\ Rising(incoming')
    BY <1>n, <2>1 DEF InQueue, FlowInv
  <2>6. hist.produced \in Nat /\ \A m, n \in InHand : m = n
    BY FlowTypes
  <2> DEFINE d == hist.delivered  r == hist.rejected  p == hist.produced
  <2> HIDE DEF d, r, p
  <2>7. /\ Ordered(d, r, InEvents \cup InHand, {}, InQueue, AtReader, p)
        /\ Queued(d, r, InEvents) /\ Passing(d, r, InEvents, InHand, InQueue)
              => /\ Queued(d, r, InEvents \cup InHand)
                 /\ Passing(d, r, InEvents \cup InHand, {}, InQueue)
        /\ Reading(d, r, InEvents, InHand, InQueue, AtReader, p)
              => Reading(d, r, InEvents \cup InHand, {}, InQueue, AtReader, p)
    BY <2>6, FramePublished DEF FlowInv, d, r, p
  <2> QED
    BY <1>0, <2>1, <2>4, <2>5, <2>7 DEF FlowInv, d, r, p
<1>8. CASE NotPublished
  <2>1. UNCHANGED <<events, incoming, hist>> /\ router = "publish" /\ RouterRunning
    BY <1>8 DEF NotPublished, RouterRunning
  <2>2. /\ InEvents' = InEvents /\ InQueue' = InQueue /\ Rising(events') /\ Rising(incoming')
    BY <2>1 DEF InEvents, InQueue, FlowInv
  <2>3. CASE cur.kind = "request" /\ cur' = Msg("reject", cur.n)
    <3>1. InHand' = InHand
      BY <2>3 DEF InHand, Number, Due, Msg
    <3> QED
      BY <1>0, <2>1, <2>2, <3>1, NoFrameMoves
  <2>4. CASE cur.kind # "request" /\ ~RequiresResync(cur) /\ cur' = NoMsg
    <3>1. InHand = {}
      BY <1>k, <2>1, <2>4 DEF InHand, Number, Due, RequiresResync, EventKinds
    <3> QED
      BY <1>0, <1>n, <2>1, <2>2, <2>4, <3>1, NoFrameMoves
  <2>5. CASE cur' = NoMsg /\ router' = "closing"
    BY <1>0, <1>n, <2>1, <2>2, <2>5, ClosingKeepsFlow DEF RouterRunning
  <2> QED
    BY <1>8, <2>3, <2>4, <2>5 DEF NotPublished
<1>9. CASE RouterIncomingFails
  <2>1. UNCHANGED <<events, cur, hist>> /\ router = "select" /\ router' = "closing"
    BY <1>9 DEF RouterIncomingFails
  <2>2. InHand' = {} /\ ~RouterRunning'
    BY <1>h, <2>1 DEF InHand, RouterRunning
  <2>3. CASE incoming' = incoming
    BY <1>0, <2>1, <2>2, <2>3, ClosingKeepsFlow DEF InQueue, FlowInv
  <2>4. CASE /\ incoming # <<>> /\ Head(incoming).kind \in FinalKinds \cup {"badId"}
             /\ incoming' = Tail(incoming)
    <3>1. Number(Head(incoming)) = {}
      BY <2>4 DEF Number, Due, FinalKinds
    <3>2. InQueue' = InQueue /\ Rising(incoming')
      BY <2>4, <3>1, FlowTypes, NumbersAfterTail DEF FlowInv, InQueue
    <3> QED
      BY <1>0, <2>1, <2>2, <3>2, ClosingKeepsFlow
  <2> QED
    BY <1>9, <2>3, <2>4 DEF RouterIncomingFails
<1>10. CASE RouterReapChild
  <2>1. UNCHANGED <<events, incoming, cur, hist>> /\ ~RouterRunning' /\ router = "closing"
    BY <1>10 DEF RouterReapChild, RouterRunning
  <2>2. InHand' = {} /\ InQueue' = InQueue /\ Rising(incoming')
    BY <1>h, <2>1 DEF InHand, InQueue, FlowInv
  <2> QED
    BY <1>0, <2>1, <2>2, ClosingKeepsFlow
<1>11. CASE RouterFinish
  <2>1. /\ UNCHANGED hist /\ incoming' = <<>> /\ cur' = NoMsg /\ ~RouterRunning'
        /\ events' = events \/ events' = Append(events, Msg("disconnected", 0))
    BY <1>11 DEF RouterFinish, RouterRunning
  <2>2. InHand' = {} /\ InQueue' = {} /\ Rising(incoming')
    BY <1>n, <2>1 DEF InQueue, Numbers, Rising
  <2>3. InEvents' = InEvents /\ Rising(events')
    <3>1. Msg("disconnected", 0) \in EventSet /\ Number(Msg("disconnected", 0)) = {}
      BY DEF Msg, EventSet, Number, Due
    <3>2. Rising(events)
      BY DEF FlowInv
    <3>3. events \in Seq(EventSet) /\ \A m \in EventSet : m.n \in Nat
      BY FlowTypes
    <3> DEFINE m == Msg("disconnected", 0)
    <3>6. m \in EventSet /\ Number(m) = {}
      BY <3>1
    <3> HIDE DEF m
    <3>4. /\ Numbers(Append(events, m)) = Numbers(events)
          /\ Rising(Append(events, m))
      BY <3>2, <3>3, <3>6, NumberlessAppended
    <3>5. events' = events \/ events' = Append(events, m)
      BY <2>1 DEF m
    <3> QED
      BY <3>2, <3>4, <3>5 DEF InEvents
  <2>4. Ordered(hist.delivered, hist.rejected, InEvents, {}, {}, AtReader, hist.produced)
    BY FramesLost DEF FlowInv
  <2> QED
    BY <1>0, <2>1, <2>2, <2>3, <2>4 DEF FlowInv
<1> QED
  BY <1>1, <1>2, <1>3, <1>4, <1>5, <1>6, <1>7, <1>8, <1>9, <1>10, <1>11 DEF RouterStep

LEMMA InitFlow == Init => FlowInv
<1> SUFFICES ASSUME Init PROVE FlowInv
  OBVIOUS
<1>1. /\ events = <<>> /\ incoming = <<>> /\ item = NoMsg /\ cur = NoMsg
      /\ hist.delivered = {} /\ hist.rejected = {} /\ hist.produced = 0
  BY DEF Init
<1>2. InEvents = {} /\ InQueue = {} /\ InHand = {} /\ AtReader = {}
  BY <1>1 DEF InEvents, InQueue, InHand, AtReader, Numbers, Number, Due, NoMsg, Msg
<1>3. Rising(events) /\ Rising(incoming)
  BY <1>1 DEF Rising
<1> QED
  BY <1>1, <1>2, <1>3 DEF FlowInv, Ordered, Below, Seen, Queued, Passing, Reading

LEMMA NextFlow == IInv /\ FlowInv /\ [Next]_vars => FlowInv'
<1> SUFFICES ASSUME IInv, FlowInv, [Next]_vars PROVE FlowInv'
  OBVIOUS
<1>1. CASE UNCHANGED vars
  BY <1>1 DEF vars, FlowInv, callerVars, queueVars, dropVars, readerVars, ownerVars, consumerVars,
     InEvents, InQueue, InHand, AtReader, FrameInHand, EventsOpen, RouterRunning
<1> QED
  BY <1>1, OthersKeepFlow, DropKeepsFlow, ReceiveKeepsFlow, ReaderKeepsFlow, RouterKeepsFlow
  DEF Next, ConsumerStep

(* What the consumer is given has no hole: when a must-deliver frame is      *)
(* delivered, each one before it has been delivered or was rejected to the   *)
(* app-server, and none is both.                                             *)
THEOREM EventsHaveNoHole == Spec => [](NoGapInEvents /\ NeverRejectedAndDelivered)
<1>1. IInv /\ FlowInv => NoGapInEvents
  <2> SUFFICES ASSUME IInv, FlowInv, NEW n \in hist.delivered, NEW m \in 1..(n - 1)
               PROVE  m \in hist.delivered \cup hist.rejected
    BY DEF NoGapInEvents
  <2>1. n \in Nat /\ n >= 1
    BY DEF FlowInv, Ordered
  <2>2. m \in Nat /\ m >= 1 /\ m < n
    BY <2>1
  <2> QED
    BY <2>2 DEF FlowInv, Seen
<1>2. IInv /\ FlowInv => NeverRejectedAndDelivered
  <2> SUFFICES ASSUME IInv, FlowInv PROVE NeverRejectedAndDelivered
    OBVIOUS
  <2>1. hist.rejected \cap hist.delivered = {}
    BY DEF FlowInv, Ordered
  <2>2. ASSUME NEW i \in DOMAIN events, events[i].kind \in {"request", "semantic"}
        PROVE  events[i].n \notin hist.rejected
    <3>1. events[i].n \in InEvents
      <4>1. events[i] \in EventSet
        BY FlowTypes, ElementOfSeq, LenProperties
      <4> QED
        BY <2>2, <4>1 DEF EventSet, InEvents, Numbers, Due
    <3> QED
      BY <3>1 DEF FlowInv, Ordered
  <2> QED
    BY <2>1, <2>2 DEF NeverRejectedAndDelivered
<1> QED
  BY InductiveInvariant, InitFlow, NextFlow, <1>1, <1>2, PTL DEF Spec

-----------------------------------------------------------------------------
(* Sums over finite sets: SumFunctionOnSet takes the elements in an order of  *)
(* its own choice; what it yields does not depend on that order.             *)

Pick(s) == CHOOSE x \in s : TRUE
Step(f, g, s) == IF s = {} THEN 0 ELSE f[Pick(s)] + g[s \ {Pick(s)}]
Adder(f, D) == CHOOSE g : g = [s \in SUBSET D |-> Step(f, g, s)]
Sum(f, D) == SumFunctionOnSet(f, D)

LEMMA SumIsAdder ==
  ASSUME NEW f, NEW D
  PROVE  Sum(f, D) = Adder(f, D)[D]
  BY DEF Sum, SumFunctionOnSet, FoldFunctionOnSet, MapThenFoldSet, Adder, Step, Pick

(* A set of natural numbers has a least element.                             *)
Precedes == {ab \in Nat \X Nat : ab[1] < ab[2]}

LEMMA LeastNumber ==
  ASSUME NEW T \in SUBSET Nat, T # {}
  PROVE  \E least \in T : \A n \in T : least <= n
<1>1. IsWellFoundedOn(Precedes, Nat)
  BY NatLessThanWellFounded DEF OpToRel, Precedes
<1>2. \E least \in T : \A n \in T : <<n, least>> \notin Precedes
  BY <1>1, WFMin
<1>3. ASSUME NEW n \in Nat, NEW least \in Nat, <<n, least>> \notin Precedes PROVE least <= n
  <2>1. <<n, least>> \in Nat \X Nat /\ <<n, least>>[1] = n /\ <<n, least>>[2] = least
    OBVIOUS
  <2>2. ~(n < least)
    BY <1>3, <2>1 DEF Precedes
  <2> QED
    BY <2>2
<1> QED
  BY <1>2, <1>3

LEMMA Picked == \A s : s # {} => Pick(s) \in s
  BY DEF Pick

LEMMA SmallerSet ==
  ASSUME NEW s, IsFiniteSet(s), NEW x \in s
  PROVE  /\ IsFiniteSet(s \ {x}) /\ Cardinality(s \ {x}) \in Nat
         /\ Cardinality(s) \in Nat /\ Cardinality(s \ {x}) = Cardinality(s) - 1
         /\ Cardinality(s) > 0
<1>1. IsFiniteSet(s \ {x}) /\ Cardinality(s \ {x}) = Cardinality(s) - 1
  BY FS_RemoveElement
<1>2. Cardinality(s) \in Nat /\ Cardinality(s \ {x}) \in Nat
  BY <1>1, FS_CardinalityType
<1> QED
  BY <1>1, <1>2

LEMMA AdderExists ==
  ASSUME NEW D, IsFiniteSet(D), NEW f, \A x \in D : f[x] \in Nat
  PROVE  \E g \in [SUBSET D -> Nat] : \A s \in SUBSET D : g[s] = Step(f, g, s)
<1> DEFINE Upto(n) == \E g \in [SUBSET D -> Nat] :
                         \A s \in SUBSET D : Cardinality(s) <= n => g[s] = Step(f, g, s)
<1>f. \A s \in SUBSET D : IsFiniteSet(s) /\ Cardinality(s) \in Nat
  BY FS_Subset, FS_CardinalityType
<1>1. Upto(0)
  <2> DEFINE g == [s \in SUBSET D |-> 0]
  <2>1. g \in [SUBSET D -> Nat]
    OBVIOUS
  <2>2. ASSUME NEW s \in SUBSET D, Cardinality(s) <= 0 PROVE g[s] = Step(f, g, s)
    <3>1. s = {}
      BY <1>f, <2>2, FS_EmptySet
    <3> QED
      BY <3>1 DEF Step
  <2> HIDE DEF g
  <2> QED
    BY <2>1, <2>2
<1>2. ASSUME NEW n \in Nat, Upto(n) PROVE Upto(n + 1)
  <2>1. PICK g \in [SUBSET D -> Nat] :
           \A s \in SUBSET D : Cardinality(s) <= n => g[s] = Step(f, g, s)
    BY <1>2
  <2> DEFINE h == [s \in SUBSET D |-> IF Cardinality(s) <= n THEN g[s] ELSE Step(f, g, s)]
  <2>2. \A s \in SUBSET D : Step(f, g, s) \in Nat
    <3> SUFFICES ASSUME NEW s \in SUBSET D PROVE Step(f, g, s) \in Nat
      OBVIOUS
    <3>1. CASE s = {}
      BY <3>1 DEF Step
    <3>2. CASE s # {}
      <4>1. Pick(s) \in D /\ s \ {Pick(s)} \in SUBSET D
        BY <3>2, Picked
      <4>2. f[Pick(s)] \in Nat /\ g[s \ {Pick(s)}] \in Nat
        BY <4>1
      <4> QED
        BY <3>2, <4>2 DEF Step
    <3> QED
      BY <3>1, <3>2
  <2>3. h \in [SUBSET D -> Nat]
    BY <2>2
  <2>4. ASSUME NEW s \in SUBSET D, Cardinality(s) <= n + 1 PROVE h[s] = Step(f, h, s)
    <3>1. h[s] = Step(f, g, s)
      BY <2>1
    <3>2. CASE s = {}
      BY <3>1, <3>2 DEF Step
    <3>3. CASE s # {}
      <4> DEFINE r == s \ {Pick(s)}
      <4>1. r \in SUBSET D /\ Cardinality(r) <= n
        <5>1. Cardinality(r) \in Nat /\ Cardinality(s) \in Nat /\ Cardinality(r) = Cardinality(s) - 1
          BY <1>f, <3>3, Picked, SmallerSet
        <5> QED
          BY <2>4, <5>1
      <4>2. h[r] = g[r]
        BY <4>1
      <4> QED
        BY <3>1, <3>3, <4>2 DEF Step
    <3> QED
      BY <3>2, <3>3
  <2> HIDE DEF h
  <2> QED
    BY <2>3, <2>4
<1> HIDE DEF Upto
<1>3. \A n \in Nat : Upto(n)
  <2> SUFFICES ASSUME NEW k \in Nat, ~Upto(k) PROVE FALSE
    OBVIOUS
  <2> DEFINE T == {n \in Nat : ~Upto(n)}
  <2>1. T \in SUBSET Nat /\ T # {}
    OBVIOUS
  <2>2. PICK least \in T : \A n \in T : least <= n
    BY <2>1, LeastNumber
  <2>3. least # 0
    BY <1>1, <2>2
  <2>4. least - 1 \in Nat /\ least - 1 \notin T /\ (least - 1) + 1 = least
    BY <2>2, <2>3
  <2> QED
    BY <1>2, <2>2, <2>4
<1>4. Upto(Cardinality(D))
  BY <1>3, FS_CardinalityType
<1>5. \A s \in SUBSET D : Cardinality(s) <= Cardinality(D)
  BY FS_Subset
<1> QED
  BY <1>4, <1>5 DEF Upto

LEMMA AdderUnique ==
  ASSUME NEW D, IsFiniteSet(D), NEW e, NEW f, \A x \in D : e[x] = f[x],
         NEW g, NEW h,
         \A s \in SUBSET D : g[s] = Step(e, g, s) /\ h[s] = Step(f, h, s)
  PROVE  \A s \in SUBSET D : g[s] = h[s]
<1> SUFFICES ASSUME NEW b \in SUBSET D, g[b] # h[b] PROVE FALSE
  OBVIOUS
<1>f. \A s \in SUBSET D : IsFiniteSet(s) /\ Cardinality(s) \in Nat
  BY FS_Subset, FS_CardinalityType
<1> DEFINE T == {Cardinality(s) : s \in {s \in SUBSET D : g[s] # h[s]}}
<1>1. T \in SUBSET Nat /\ T # {}
  BY <1>f
<1>2. PICK least \in T : \A n \in T : least <= n
  BY <1>1, LeastNumber
<1>3. PICK s \in SUBSET D : g[s] # h[s] /\ least = Cardinality(s)
  BY <1>2
<1>4. s # {}
  BY <1>3 DEF Step
<1> DEFINE r == s \ {Pick(s)}
<1>5. Pick(s) \in D /\ r \in SUBSET D
  BY <1>4, Picked
<1>6. Cardinality(r) \in Nat /\ Cardinality(r) = least - 1 /\ least \in Nat
  BY <1>f, <1>3, <1>4, Picked, SmallerSet
<1>7. g[r] = h[r]
  <2>1. Cardinality(r) \notin T
    BY <1>2, <1>6
  <2> QED
    BY <1>5, <2>1
<1> QED
  BY <1>3, <1>4, <1>5, <1>7 DEF Step

(* g has the sums of the values of f over the parts of D. *)
HasSums(g, f, D) == \A s \in SUBSET D : g[s] = Step(f, g, s) /\ Sum(f, s) = g[s]
NatOn(f, D) == \A x \in D : f[x] \in Nat

LEMMA SumsAreSteps ==
  ASSUME NEW D, IsFiniteSet(D), NEW f, NatOn(f, D)
  PROVE  \E g \in [SUBSET D -> Nat] : HasSums(g, f, D)
<1>f. \A x \in D : f[x] \in Nat
  BY DEF NatOn
<1>1. PICK g \in [SUBSET D -> Nat] : \A s \in SUBSET D : g[s] = Step(f, g, s)
  BY <1>f, AdderExists
<1>2. ASSUME NEW s \in SUBSET D PROVE Sum(f, s) = g[s]
  <2>1. IsFiniteSet(s) /\ \A x \in s : f[x] \in Nat
    BY <1>f, FS_Subset
  <2>2. PICK h \in [SUBSET s -> Nat] : \A t \in SUBSET s : h[t] = Step(f, h, t)
    BY <2>1, AdderExists
  <2>3. h = [t \in SUBSET s |-> Step(f, h, t)]
    BY <2>2
  <2>4. Adder(f, s) = [t \in SUBSET s |-> Step(f, Adder(f, s), t)]
    BY <2>3 DEF Adder
  <2>5. \A t \in SUBSET s : Adder(f, s)[t] = Step(f, Adder(f, s), t)
    BY <2>4
  <2>6. \A t \in SUBSET s : g[t] = Step(f, g, t)
    BY <1>1
  <2>7. Adder(f, s)[s] = g[s]
    BY <2>1, <2>5, <2>6, AdderUnique
  <2> QED
    BY <2>7, SumIsAdder
<1> QED
  BY <1>1, <1>2 DEF HasSums

(* The facts that are used: nothing, one element more or less, and the       *)
(* values of the elements alone.                                             *)
LEMMA SumOfNone == \A f : Sum(f, {}) = 0
<1> TAKE f
<1>1. IsFiniteSet({}) /\ NatOn(f, {})
  BY FS_EmptySet DEF NatOn
<1>2. PICK g \in [SUBSET {} -> Nat] : HasSums(g, f, {})
  BY <1>1, SumsAreSteps
<1>3. {} \in SUBSET {}
  OBVIOUS
<1> QED
  BY <1>2, <1>3 DEF Step, HasSums

(* Whichever element is set aside, a sum is that element and the rest.       *)
LEMMA AnyOrder ==
  ASSUME NEW D, IsFiniteSet(D), NEW f, NatOn(f, D), NEW g \in [SUBSET D -> Nat],
         HasSums(g, f, D), NEW b \in SUBSET D, NEW y \in b
  PROVE  g[b] = f[y] + g[b \ {y}]
<1>f. \A s \in SUBSET D : IsFiniteSet(s) /\ Cardinality(s) \in Nat
  BY FS_Subset, FS_CardinalityType
<1> DEFINE Bad(s) == \E x \in s : g[s] # f[x] + g[s \ {x}]
<1> SUFFICES ASSUME Bad(b) PROVE FALSE
  OBVIOUS
<1> DEFINE T == {Cardinality(s) : s \in {s \in SUBSET D : Bad(s)}}
<1>1. T \in SUBSET Nat /\ T # {}
  BY <1>f
<1>2. PICK least \in T : \A n \in T : least <= n
  BY <1>1, LeastNumber
<1>3. PICK s \in SUBSET D : Bad(s) /\ least = Cardinality(s)
  BY <1>2
<1>4. PICK x \in s : g[s] # f[x] + g[s \ {x}]
  BY <1>3
<1> DEFINE c == Pick(s)
<1>5. c \in s /\ g[s] = f[c] + g[s \ {c}]
  BY <1>4, Picked DEF Step, HasSums
<1>6. c # x
  BY <1>4, <1>5
<1>7. /\ s \ {c} \in SUBSET D /\ s \ {x} \in SUBSET D
      /\ Cardinality(s \ {c}) \notin T /\ Cardinality(s \ {x}) \notin T
  <2>1. /\ Cardinality(s \ {c}) \in Nat /\ Cardinality(s \ {x}) \in Nat /\ least \in Nat
        /\ Cardinality(s \ {c}) = least - 1 /\ Cardinality(s \ {x}) = least - 1
    BY <1>f, <1>3, <1>5, SmallerSet
  <2> QED
    BY <1>2, <2>1
<1>8. ~Bad(s \ {c}) /\ ~Bad(s \ {x})
  BY <1>7
<1> HIDE DEF c
<1>9. /\ g[s \ {c}] = f[x] + g[(s \ {c}) \ {x}]
      /\ g[s \ {x}] = f[c] + g[(s \ {x}) \ {c}]
  BY <1>5, <1>6, <1>8
<1>10. (s \ {c}) \ {x} = (s \ {x}) \ {c} /\ (s \ {x}) \ {c} \in SUBSET D
  OBVIOUS
<1>11. f[x] \in Nat /\ f[c] \in Nat /\ g[(s \ {x}) \ {c}] \in Nat
  BY <1>5, <1>10 DEF NatOn
<1>12. \A gs, gc, gx, r, fc, fx \in Nat :
          gs = fc + gc /\ gc = fx + r /\ gx = fc + r => gs = fx + gx
  OBVIOUS
<1>13. g[s] \in Nat /\ g[s \ {c}] \in Nat /\ g[s \ {x}] \in Nat
  BY <1>7
<1> DEFINE gs == g[s] gc == g[s \ {c}] gx == g[s \ {x}] r == g[(s \ {x}) \ {c}] fc == f[c] fx == f[x]
<1>14. gs = fc + gc /\ gc = fx + r /\ gx = fc + r /\ gs # fx + gx
  BY <1>4, <1>5, <1>9, <1>10
<1>15. gs \in Nat /\ gc \in Nat /\ gx \in Nat /\ r \in Nat /\ fc \in Nat /\ fx \in Nat
  BY <1>11, <1>13
<1> HIDE DEF gs, gc, gx, r, fc, fx
<1> QED
  BY <1>12, <1>14, <1>15

LEMMA SumSplit ==
  ASSUME NEW D, IsFiniteSet(D), NEW f, NatOn(f, D)
  PROVE  /\ Sum(f, D) \in Nat
         /\ \A x \in D : Sum(f, D \ {x}) \in Nat /\ Sum(f, D) = f[x] + Sum(f, D \ {x})
<1>1. PICK g \in [SUBSET D -> Nat] : HasSums(g, f, D)
  BY SumsAreSteps
<1>2. D \in SUBSET D /\ \A x \in D : D \ {x} \in SUBSET D
  OBVIOUS
<1>3. \A s \in SUBSET D : Sum(f, s) = g[s] /\ g[s] \in Nat
  BY <1>1 DEF HasSums
<1>4. \A x \in D : g[D] = f[x] + g[D \ {x}]
  BY <1>1, <1>2, AnyOrder
<1> QED
  BY <1>2, <1>3, <1>4

LEMMA SumOfEquals ==
  ASSUME NEW D, IsFiniteSet(D), NEW e, NEW f, \A x \in D : e[x] = f[x], NatOn(f, D)
  PROVE  Sum(e, D) = Sum(f, D)
<1>e. NatOn(e, D)
  BY DEF NatOn
<1>1. PICK g \in [SUBSET D -> Nat] : HasSums(g, e, D)
  BY <1>e, SumsAreSteps
<1>2. PICK h \in [SUBSET D -> Nat] : HasSums(h, f, D)
  BY SumsAreSteps
<1>3. \A s \in SUBSET D : g[s] = Step(e, g, s) /\ h[s] = Step(f, h, s)
  BY <1>1, <1>2 DEF HasSums
<1>4. g[D] = h[D]
  BY <1>3, AdderUnique
<1> QED
  BY <1>1, <1>2, <1>4 DEF HasSums

-----------------------------------------------------------------------------
(* The count of drops.  A channel's load is what its messages say of         *)
(* best-effort notifications: one each, or the count a "dropped" event has.  *)
DropsAt(m) == IF m.kind = "dropped" THEN m.n ELSE 0
LossyAt(m) == IF m.kind = "lossy" THEN 1 ELSE 0
DropsOf(s) == [i \in DOMAIN s |-> DropsAt(s[i])]
Drops(s)   == Sum(DropsOf(s), DOMAIN s)

LEMMA DropsType ==
  ASSUME NEW s \in Seq(EventSet)
  PROVE  /\ IsFiniteSet(DOMAIN s) /\ NatOn(DropsOf(s), DOMAIN s) /\ Drops(s) \in Nat
         /\ DOMAIN s = 1..Len(s) /\ Len(s) \in Nat
<1>1. DOMAIN s = 1..Len(s) /\ Len(s) \in Nat /\ IsFiniteSet(1..Len(s))
  BY LenProperties, FS_Interval
<1>2. NatOn(DropsOf(s), DOMAIN s)
  <2> SUFFICES ASSUME NEW i \in DOMAIN s PROVE DropsOf(s)[i] \in Nat
    BY DEF NatOn
  <2>1. s[i] \in EventSet
    BY <1>1, ElementOfSeq
  <2> QED
    BY <2>1 DEF DropsOf, DropsAt, EventSet
<1>3. Drops(s) \in Nat
  BY <1>1, <1>2, SumSplit DEF Drops
<1> QED
  BY <1>1, <1>2, <1>3

LEMMA DropsAfterAppend ==
  ASSUME NEW s \in Seq(EventSet), NEW m \in EventSet
  PROVE  Drops(Append(s, m)) = Drops(s) + DropsAt(m)
<1> DEFINE t == Append(s, m)
<1>1. /\ t \in Seq(EventSet) /\ DOMAIN t = 1..(Len(s) + 1) /\ t[Len(s) + 1] = m
      /\ \A i \in 1..Len(s) : t[i] = s[i]
  BY AppendProperties, LenProperties
<1> HIDE DEF t
<1>2. /\ IsFiniteSet(DOMAIN t) /\ NatOn(DropsOf(t), DOMAIN t) /\ Drops(s) \in Nat
      /\ IsFiniteSet(DOMAIN s) /\ NatOn(DropsOf(s), DOMAIN s)
      /\ DOMAIN s = 1..Len(s) /\ Len(s) \in Nat
  BY <1>1, DropsType
<1>3. (DOMAIN t) \ {Len(s) + 1} = DOMAIN s /\ Len(s) + 1 \in DOMAIN t
  BY <1>1, <1>2
<1>4. Drops(t) = DropsOf(t)[Len(s) + 1] + Sum(DropsOf(t), DOMAIN s)
  BY <1>2, <1>3, SumSplit DEF Drops
<1>5. Sum(DropsOf(t), DOMAIN s) = Drops(s)
  <2>1. \A i \in DOMAIN s : DropsOf(t)[i] = DropsOf(s)[i]
    BY <1>1, <1>2 DEF DropsOf
  <2> QED
    BY <1>2, <2>1, SumOfEquals DEF Drops
<1>6. DropsOf(t)[Len(s) + 1] = DropsAt(m) /\ DropsAt(m) \in Nat
  BY <1>1, <1>3 DEF DropsOf, DropsAt, EventSet
<1> QED
  BY <1>2, <1>4, <1>5, <1>6 DEF t

LEMMA DropsAfterTail ==
  ASSUME NEW s \in Seq(EventSet), s # <<>>
  PROVE  Drops(s) = DropsAt(Head(s)) + Drops(Tail(s))
<1> DEFINE t == Tail(s)  n == Len(s) - 1
<1>1. /\ t \in Seq(EventSet) /\ DOMAIN t = 1..n /\ n \in Nat /\ DOMAIN s = 1..(n + 1)
      /\ Len(s) = n + 1 /\ Head(s) = s[1] /\ \A i \in 1..n : t[i] = s[i + 1]
  <2>1. /\ t \in Seq(EventSet) /\ Len(t) = Len(s) - 1 /\ Len(s) \in Nat \ {0}
        /\ \A i \in 1..Len(t) : t[i] = s[i + 1]
    BY HeadTailProperties, EmptySeq, LenProperties
  <2>2. DOMAIN t = 1..Len(t) /\ DOMAIN s = 1..Len(s) /\ Head(s) = s[1]
    BY <2>1, LenProperties, HeadTailProperties
  <2> QED
    BY <2>1, <2>2
<1> HIDE DEF t, n
<1> DEFINE f == DropsOf(s)  g == DropsOf(t)
<1>2. IsFiniteSet(DOMAIN s) /\ NatOn(f, DOMAIN s) /\ IsFiniteSet(DOMAIN t) /\ NatOn(g, DOMAIN t)
  BY <1>1, DropsType
<1>3. \A i \in 1..n : g[i] = f[i + 1]
  BY <1>1 DEF DropsOf
<1>4. f[1] = DropsAt(Head(s))
  BY <1>1 DEF DropsOf
<1>5. Drops(s) = Sum(f, 1..(n + 1)) /\ Drops(t) = Sum(g, 1..n)
  BY <1>1 DEF Drops
<1>6. NatOn(f, 1..(n + 1)) /\ NatOn(g, 1..n)
  BY <1>1, <1>2
<1> HIDE DEF f, g
<1>7. ASSUME NEW a \in Nat, NEW b \in Nat, a <= b, NEW e, NatOn(e, a..b)
      PROVE  /\ Sum(e, a..b) = e[b] + Sum(e, a..(b - 1))
             /\ Sum(e, a..b) = e[a] + Sum(e, (a + 1)..b)
  <2> DEFINE D == a..b  lower == a..(b - 1)  upper == (a + 1)..b
  <2>1. IsFiniteSet(D)
    BY FS_Interval
  <2>2. a \in D /\ b \in D /\ D \ {b} = lower /\ D \ {a} = upper
    BY <1>7
  <2>3. NatOn(e, D)
    BY <1>7
  <2> HIDE DEF D, lower, upper
  <2>4. \A x \in D : Sum(e, D) = e[x] + Sum(e, D \ {x})
    BY <2>1, <2>3, SumSplit
  <2>5. Sum(e, D) = e[b] + Sum(e, lower) /\ Sum(e, D) = e[a] + Sum(e, upper)
    BY <2>2, <2>4
  <2> QED
    BY <2>5 DEF D, lower, upper
<1> DEFINE Shifted(k) == Sum(f, 2..(k + 1)) = Sum(g, 1..k)
<1>8. Shifted(n)
  <2> SUFFICES ASSUME ~Shifted(n) PROVE FALSE
    OBVIOUS
  <2> DEFINE T == {k \in 0..n : ~Shifted(k)}
  <2>1. T \in SUBSET Nat /\ T # {}
    BY <1>1
  <2>2. PICK k \in T : \A j \in T : k <= j
    BY <2>1, LeastNumber
  <2>3. k # 0
    <3>1. 2..(0 + 1) = {} /\ 1..0 = {}
      OBVIOUS
    <3>2. Shifted(0)
      BY <3>1, SumOfNone
    <3> QED
      BY <2>2, <3>2
  <2>4. k - 1 \in 0..n /\ k - 1 \notin T /\ k \in 1..n /\ (k - 1) + 1 = k /\ (k + 1) - 1 = k
    BY <1>1, <2>2, <2>3
  <2>5. Sum(f, 2..k) = Sum(g, 1..(k - 1))
    BY <2>4
  <2>6. NatOn(f, 2..(k + 1)) /\ NatOn(g, 1..k)
    BY <1>1, <1>6, <2>4 DEF NatOn
  <2>7. Sum(f, 2..(k + 1)) = f[k + 1] + Sum(f, 2..k)
    BY <1>7, <2>4, <2>6
  <2>8. Sum(g, 1..k) = g[k] + Sum(g, 1..(k - 1))
    BY <1>7, <2>4, <2>6
  <2>9. Shifted(k)
    BY <1>3, <2>4, <2>5, <2>7, <2>8
  <2> QED
    BY <2>2, <2>9
<1>9. Sum(f, 1..(n + 1)) = f[1] + Sum(f, 2..(n + 1))
  <2>1. 1 + 1 = 2 /\ 1 <= n + 1 /\ n + 1 \in Nat
    BY <1>1
  <2> QED
    BY <1>6, <1>7, <2>1
<1> QED
  BY <1>4, <1>5, <1>8, <1>9 DEF t

LEMMA LossyAreCounted ==
  ASSUME NEW S, NEW s \in Seq(S)
  PROVE  LossyIn(s) = Counted(s, {m \in S : m.kind = "lossy"}) /\ LossyIn(s) \in Nat
<1>1. \A i \in DOMAIN s : s[i] \in S
  BY ElementOfSeq, LenProperties
<1>2. {i \in DOMAIN s : s[i].kind = "lossy"} = {i \in DOMAIN s : s[i] \in {m \in S : m.kind = "lossy"}}
  BY <1>1
<1> QED
  BY <1>2, CountedIsFinite DEF LossyIn, Counted

LEMMA LossyAfterAppend ==
  ASSUME NEW S, NEW s \in Seq(S), NEW m \in S
  PROVE  LossyIn(Append(s, m)) = LossyIn(s) + LossyAt(m)
<1> DEFINE T == {x \in S : x.kind = "lossy"}
<1>1. Append(s, m) \in Seq(S)
  OBVIOUS
<1>2. m \in T <=> m.kind = "lossy"
  OBVIOUS
<1>3. LossyIn(s) = Counted(s, T) /\ LossyIn(s) \in Nat
  BY LossyAreCounted
<1>4. LossyIn(Append(s, m)) = Counted(Append(s, m), T)
  BY <1>1, LossyAreCounted
<1> HIDE DEF T
<1>5. Counted(Append(s, m), T) = IF m \in T THEN Counted(s, T) + 1 ELSE Counted(s, T)
  BY CountedAfterAppend
<1> QED
  BY <1>2, <1>3, <1>4, <1>5 DEF LossyAt

LEMMA LossyAfterTail ==
  ASSUME NEW S, NEW s \in Seq(S), s # <<>>
  PROVE  LossyIn(s) = LossyAt(Head(s)) + LossyIn(Tail(s)) /\ LossyIn(Tail(s)) \in Nat
<1> DEFINE T == {x \in S : x.kind = "lossy"}
<1>1. Tail(s) \in Seq(S) /\ Head(s) \in S
  OBVIOUS
<1>2. Head(s) \in T <=> Head(s).kind = "lossy"
  BY <1>1
<1>3. LossyIn(s) = Counted(s, T)
  BY LossyAreCounted
<1>4. LossyIn(Tail(s)) = Counted(Tail(s), T) /\ LossyIn(Tail(s)) \in Nat
  BY <1>1, LossyAreCounted
<1> HIDE DEF T
<1>5. Counted(s, T) = IF Head(s) \in T THEN Counted(Tail(s), T) + 1 ELSE Counted(Tail(s), T)
  BY CountedAfterTail
<1> QED
  BY <1>2, <1>3, <1>4, <1>5 DEF LossyAt

LEMMA LossyNone == LossyIn(<<>>) = 0
<1>1. {i \in DOMAIN <<>> : <<>>[i].kind = "lossy"} = {}
  OBVIOUS
<1> QED
  BY <1>1, FS_EmptySet DEF LossyIn

LEMMA LossyOfTwo == \A a, b : LossyIn(<<a, b>>) = LossyAt(a) + LossyAt(b)
<1> SUFFICES ASSUME NEW a, NEW b PROVE LossyIn(<<a, b>>) = LossyAt(a) + LossyAt(b)
  OBVIOUS
<1> DEFINE s == <<a, b>>
<1>1. DOMAIN s = {1, 2} /\ s[1] = a /\ s[2] = b
  OBVIOUS
<1> HIDE DEF s
<1>2. {i \in DOMAIN s : s[i].kind = "lossy"}
        = IF a.kind = "lossy" THEN IF b.kind = "lossy" THEN {1, 2} ELSE {1}
                              ELSE IF b.kind = "lossy" THEN {2} ELSE {}
  BY <1>1
<1>3. /\ Cardinality({1}) = 1 /\ Cardinality({2}) = 1 /\ Cardinality({}) = 0
      /\ IsFiniteSet({1})
  BY FS_Singleton, FS_EmptySet
<1>4. Cardinality({1} \cup {2}) = 2
  BY <1>3, FS_AddElement
<1>5. {1} \cup {2} = {1, 2}
  OBVIOUS
<1> DEFINE I == {i \in DOMAIN s : s[i].kind = "lossy"}
<1>6. LossyIn(s) = Cardinality(I)
  BY DEF LossyIn
<1>7. I = IF a.kind = "lossy" THEN IF b.kind = "lossy" THEN {1, 2} ELSE {1}
                              ELSE IF b.kind = "lossy" THEN {2} ELSE {}
  BY <1>2
<1> HIDE DEF I
<1>8. Cardinality({1, 2}) = 2
  BY <1>4, <1>5
<1>9. Cardinality(I) = (IF a.kind = "lossy" THEN 1 ELSE 0) + (IF b.kind = "lossy" THEN 1 ELSE 0)
  BY <1>3, <1>7, <1>8
<1> QED
  BY <1>6, <1>9 DEF s, LossyAt

(* What the consumer was told, and what is yet to be told it.                *)
Load(s) == Drops(s) + LossyIn(s)
Told       == hist.lossySeen + hist.dropSeen
Owed       == dropped + readerDropped
AtEvents   == Load(events)
AtIncoming == LossyIn(incoming)
AtRouter   == LossyAt(cur)
ReaderHas  == LossyAt(item)
Tally == Told + Owed + AtEvents + AtIncoming + AtRouter + ReaderHas
Up == RouterRunning /\ reader # "stopped" /\ EventsOpen

DropInv ==
    /\ reader = "acquire" => item.kind # "lossy"
    /\ Up => hist.lossy = Tally

LEMMA LoadAfterAppend ==
  ASSUME NEW s \in Seq(EventSet), NEW m \in EventSet
  PROVE  Load(Append(s, m)) = Load(s) + DropsAt(m) + LossyAt(m)
<1>1. Drops(s) \in Nat
  BY DropsType
<1>2. LossyIn(s) \in Nat
  BY LossyAreCounted
<1>3. DropsAt(m) \in Nat /\ LossyAt(m) \in Nat
  BY DEF DropsAt, LossyAt, EventSet
<1>4. LossyIn(Append(s, m)) = LossyIn(s) + LossyAt(m)
  BY LossyAfterAppend
<1> QED
  BY <1>1, <1>2, <1>3, <1>4, DropsAfterAppend DEF Load

LEMMA LoadAfterTail ==
  ASSUME NEW s \in Seq(EventSet), s # <<>>
  PROVE  Load(s) = Load(Tail(s)) + DropsAt(Head(s)) + LossyAt(Head(s))
<1>0. Tail(s) \in Seq(EventSet) /\ Head(s) \in EventSet
  OBVIOUS
<1>1. Drops(Tail(s)) \in Nat
  BY <1>0, DropsType
<1>2. DropsAt(Head(s)) \in Nat /\ LossyAt(Head(s)) \in Nat
  BY <1>0 DEF DropsAt, LossyAt, EventSet
<1>3. LossyIn(s) = LossyAt(Head(s)) + LossyIn(Tail(s)) /\ LossyIn(Tail(s)) \in Nat
  BY LossyAfterTail
<1> QED
  BY <1>1, <1>2, <1>3, DropsAfterTail DEF Load

LEMMA LoadNone == Load(<<>>) = 0
<1>1. Drops(<<>>) = 0
  <2>1. DOMAIN <<>> = {}
    OBVIOUS
  <2> QED
    BY <2>1, SumOfNone DEF Drops
<1> QED
  BY <1>1, LossyNone DEF Load

LEMMA TallyTypes ==
  ASSUME IInv
  PROVE  /\ hist \in HistSet /\ hist.lossy \in Nat /\ hist.lossySeen \in Nat /\ hist.dropSeen \in Nat
         /\ dropped \in Nat /\ readerDropped \in Nat
         /\ events \in Seq(EventSet) /\ incoming \in Seq(MsgSet)
<1>1. /\ hist \in HistSet /\ dropped \in Nat /\ readerDropped \in Nat
      /\ events \in Seq(EventSet) /\ incoming \in Seq(MsgSet)
  BY DEF IInv, TypeOK
<1> QED
  BY <1>1 DEF HistSet

LEMMA TallyTerms ==
  IInv => /\ hist.lossy \in Nat /\ Told \in Nat /\ Owed \in Nat /\ AtEvents \in Nat
          /\ AtIncoming \in Nat /\ AtRouter \in Nat /\ ReaderHas \in Nat /\ Tally \in Nat
<1> SUFFICES ASSUME IInv
             PROVE  /\ hist.lossy \in Nat /\ Told \in Nat /\ Owed \in Nat /\ AtEvents \in Nat
                    /\ AtIncoming \in Nat /\ AtRouter \in Nat /\ ReaderHas \in Nat /\ Tally \in Nat
  OBVIOUS
<1>1. hist.lossy \in Nat /\ Told \in Nat /\ Owed \in Nat
  <2>1. /\ hist.lossy \in Nat /\ hist.lossySeen \in Nat /\ hist.dropSeen \in Nat
        /\ dropped \in Nat /\ readerDropped \in Nat
    BY TallyTypes
  <2> QED
    BY <2>1 DEF Told, Owed
<1>2. AtRouter \in Nat /\ ReaderHas \in Nat
  BY DEF AtRouter, ReaderHas, LossyAt
<1>3. AtIncoming \in Nat
  BY TallyTypes, LossyAreCounted DEF AtIncoming
<1>4. LossyIn(events) \in Nat
  BY TallyTypes, LossyAreCounted
<1>5. Drops(events) \in Nat
  BY TallyTypes, DropsType
<1>6. AtEvents \in Nat
  BY <1>4, <1>5 DEF AtEvents, Load
<1> QED
  BY <1>1, <1>2, <1>3, <1>6 DEF Tally

LEMMA TallyIsAccounting == IInv /\ DropInv => DropAccounting
<1> SUFFICES ASSUME IInv, DropInv PROVE DropAccounting
  OBVIOUS
<1>1. SumFunction(DropCounts) = Drops(events)
  <2>1. DropCounts = DropsOf(events)
    BY DEF DropCounts, DropsOf, DropsAt
  <2>2. DOMAIN DropsOf(events) = DOMAIN events
    BY DEF DropsOf
  <2> QED
    BY <2>1, <2>2 DEF SumFunction, Sum, Drops
<1>2. LossyIn(<<cur, item>>) = LossyAt(cur) + LossyAt(item)
  BY LossyOfTwo
<1>3. events \in Seq(EventSet)
  BY TallyTypes
<1>4. LossyIn(events) \in Nat
  BY <1>3, LossyAreCounted
<1>5. Drops(events) \in Nat
  BY <1>3, DropsType
<1>6. /\ hist.lossySeen \in Nat /\ hist.dropSeen \in Nat
      /\ dropped \in Nat /\ readerDropped \in Nat
  BY TallyTypes
<1>7. LossyIn(incoming) \in Nat /\ LossyAt(cur) \in Nat /\ LossyAt(item) \in Nat
  BY TallyTerms DEF AtIncoming, AtRouter, ReaderHas
<1>8. Up => hist.lossy = Tally
  BY DEF DropInv
<1>9. Tally = hist.lossySeen + hist.dropSeen + dropped + readerDropped + Drops(events)
                + LossyIn(events) + LossyIn(incoming) + (LossyAt(cur) + LossyAt(item))
  BY <1>4, <1>5, <1>6, <1>7 DEF Tally, Told, Owed, AtEvents, AtIncoming, AtRouter, ReaderHas, Load
<1> QED
  BY <1>1, <1>2, <1>8, <1>9 DEF DropAccounting, Up

LEMMA InitDrop == Init => DropInv
<1> SUFFICES ASSUME Init PROVE DropInv
  OBVIOUS
<1>1. /\ hist.lossy = 0 /\ hist.lossySeen = 0 /\ hist.dropSeen = 0
      /\ dropped = 0 /\ readerDropped = 0 /\ events = <<>> /\ incoming = <<>>
      /\ reader = "read" /\ LossyAt(cur) = 0 /\ LossyAt(item) = 0
  BY DEF Init, LossyAt, NoMsg, Msg
<1> QED
  BY <1>1, LoadNone, LossyNone
  DEF DropInv, Tally, Told, Owed, AtEvents, AtIncoming, AtRouter, ReaderHas

(* The steps.  A notification and the count it becomes move from place to    *)
(* place; only the child adds one.                                           *)
Sent(k) == Tally' = Tally + k /\ hist'.lossy = hist.lossy + k

LEMMA TallyMoves ==
  ASSUME IInv, DropInv, Up' => Up, reader' = "acquire" => item'.kind # "lossy",
         Up' => Sent(0) \/ Sent(1)
  PROVE  DropInv'
<1>1. ASSUME Up' PROVE hist'.lossy = Tally'
  <2>1. hist.lossy = Tally
    BY <1>1 DEF DropInv
  <2> QED
    BY <1>1, <2>1 DEF Sent
<1> QED
  BY <1>1 DEF DropInv

LEMMA TallyAfter ==
  ASSUME IInv'
  PROVE  /\ hist'.lossy \in Nat /\ Told' \in Nat /\ Owed' \in Nat /\ AtEvents' \in Nat
         /\ AtIncoming' \in Nat /\ AtRouter' \in Nat /\ ReaderHas' \in Nat
<1>1. (IInv => /\ hist.lossy \in Nat /\ Told \in Nat /\ Owed \in Nat /\ AtEvents \in Nat
               /\ AtIncoming \in Nat /\ AtRouter \in Nat /\ ReaderHas \in Nat /\ Tally \in Nat)'
  BY TallyTerms, PTL
<1> QED
  BY <1>1

(* What stays where it is. *)
LEMMA SamePlaces ==
  /\ UNCHANGED <<hist.lossySeen, hist.dropSeen>> => Told' = Told
  /\ UNCHANGED hist => Told' = Told /\ hist'.lossy = hist.lossy
  /\ UNCHANGED <<dropped, readerDropped>> => Owed' = Owed
  /\ UNCHANGED events => AtEvents' = AtEvents
  /\ UNCHANGED incoming => AtIncoming' = AtIncoming
  /\ UNCHANGED cur => AtRouter' = AtRouter
  /\ UNCHANGED item => ReaderHas' = ReaderHas
  BY DEF Told, Owed, AtEvents, AtIncoming, AtRouter, ReaderHas

(* A step that tells nothing and moves nothing. *)
LEMMA TallyStays ==
  ASSUME IInv, Told' = Told, Owed' = Owed, AtEvents' = AtEvents, AtIncoming' = AtIncoming,
         AtRouter' = AtRouter, ReaderHas' = ReaderHas, hist'.lossy = hist.lossy
  PROVE  Sent(0)
<1>1. Tally' = Tally /\ Tally \in Nat /\ hist.lossy \in Nat
  BY TallyTerms DEF Tally
<1> QED
  BY <1>1 DEF Sent

LEMMA OthersKeepDrop ==
  ASSUME IInv, DropInv, \/ \E id \in Requests : CallerStep(id)
                        \/ SendFrame \/ ConsumerDone \/ ConsumerClosed
                        \/ ServerExit \/ ServerHang \/ OwnerStep
  PROVE  DropInv'
<1> USE DEF callerVars, queueVars, dropVars, readerVars, ownerVars, consumerVars
<1>1. UNCHANGED <<incoming, cur, item, reader, router, dropped, readerDropped>>
  BY DEF CallerStep, CallStart, CallEnqueue, CallNotQueued, CallReceive, CallTimeout,
     CallDisconnected, Expire, SendFrame, notCaller, ConsumerDone, ConsumerClosed, notConsumer,
     ServerExit, ServerHang, OwnerStep, ShutdownStart, ShutdownEnqueue, ShutdownNotQueued,
     ShutdownAnswered, ShutdownGivesUp, ShutdownJoined, DropConnection, notOwner
<1>2. UNCHANGED <<hist.lossy, hist.lossySeen, hist.dropSeen>>
  <2>1. hist \in HistSet
    BY TallyTypes
  <2>2. hist' = hist \/ hist' = [hist EXCEPT !.frames = @ + 1]
    BY DEF CallerStep, CallStart, CallEnqueue, CallNotQueued, CallReceive, CallTimeout,
       CallDisconnected, Expire, SendFrame, ConsumerDone, ConsumerClosed, ServerExit, ServerHang,
       OwnerStep, ShutdownStart, ShutdownEnqueue, ShutdownNotQueued, ShutdownAnswered,
       ShutdownGivesUp, ShutdownJoined, DropConnection, notOwner
  <2> QED
    BY <2>1, <2>2 DEF HistSet
<1>3. EventsOpen' => EventsOpen /\ events' = events
  BY DEF CallerStep, CallStart, CallEnqueue, CallNotQueued, CallReceive, CallTimeout,
     CallDisconnected, Expire, SendFrame, notCaller, ConsumerDone, ConsumerClosed, notConsumer,
     ServerExit, ServerHang, OwnerStep, ShutdownStart, ShutdownEnqueue, ShutdownNotQueued,
     ShutdownAnswered, ShutdownGivesUp, ShutdownJoined, DropConnection, notOwner, EventsOpen
<1>4. Up' => Up
  BY <1>1, <1>3 DEF Up, RouterRunning
<1>5. reader' = "acquire" => item'.kind # "lossy"
  BY <1>1 DEF DropInv
<1>6. Up' => Sent(0)
  <2>1. /\ Told' = Told /\ Owed' = Owed /\ AtIncoming' = AtIncoming /\ AtRouter' = AtRouter
        /\ ReaderHas' = ReaderHas
    BY <1>1, <1>2, SamePlaces
  <2>2. Up' => AtEvents' = AtEvents
    BY <1>3, SamePlaces DEF Up
  <2> QED
    BY <1>2, <2>1, <2>2, TallyStays
<1> QED
  BY <1>4, <1>5, <1>6, TallyMoves

LEMMA ReceiveKeepsDrop ==
  ASSUME IInv, DropInv, ConsumerReceive
  PROVE  DropInv'
<1> USE DEF callerVars, queueVars, dropVars, readerVars, ownerVars
<1> DEFINE e == Head(events)
<1>1. /\ UNCHANGED <<incoming, cur, item, reader, router, owner, dropped, readerDropped>>
      /\ events # <<>> /\ events' = Tail(events)
      /\ hist' = CASE e.kind \in {"request", "semantic"} ->
                        [hist EXCEPT !.delivered = @ \cup {e.n}]
                   [] e.kind = "lossy" -> [hist EXCEPT !.lossySeen = @ + 1]
                   [] e.kind = "dropped" -> [hist EXCEPT !.dropSeen = @ + e.n]
                   [] OTHER -> hist
  BY DEF ConsumerReceive, notConsumer
<1>2. events \in Seq(EventSet) /\ hist \in HistSet /\ e \in EventSet
  BY <1>1, TallyTypes
<1>3. Load(events) = Load(events') + DropsAt(e) + LossyAt(e)
  BY <1>1, <1>2, LoadAfterTail
<1>4. /\ hist'.lossy = hist.lossy
      /\ hist'.lossySeen = hist.lossySeen + LossyAt(e)
      /\ hist'.dropSeen = hist.dropSeen + DropsAt(e)
  <2>1. hist.lossySeen \in Nat /\ hist.dropSeen \in Nat
    BY TallyTypes
  <2> HIDE DEF e
  <2>2. CASE e.kind = "lossy"
    <3>1. hist' = [hist EXCEPT !.lossySeen = @ + 1]
      BY <1>1, <2>2
    <3>2. LossyAt(e) = 1 /\ DropsAt(e) = 0
      BY <2>2 DEF LossyAt, DropsAt
    <3> QED
      BY <1>2, <2>1, <3>1, <3>2 DEF HistSet
  <2>3. CASE e.kind = "dropped"
    <3>1. hist' = [hist EXCEPT !.dropSeen = @ + e.n]
      BY <1>1, <2>3
    <3>2. LossyAt(e) = 0 /\ DropsAt(e) = e.n
      BY <2>3 DEF LossyAt, DropsAt
    <3> QED
      BY <1>2, <2>1, <3>1, <3>2 DEF HistSet
  <2>4. CASE e.kind \in {"request", "semantic"}
    BY <1>1, <1>2, <2>1, <2>4 DEF HistSet, LossyAt, DropsAt
  <2>5. CASE e.kind \notin {"request", "semantic", "lossy", "dropped"}
    BY <1>1, <1>2, <2>1, <2>5 DEF HistSet, LossyAt, DropsAt
  <2> QED
    BY <2>2, <2>3, <2>4, <2>5
<1>5. Load(events') \in Nat /\ DropsAt(e) \in Nat /\ LossyAt(e) \in Nat
  <2>1. events' \in Seq(EventSet)
    BY <1>1, <1>2
  <2>2. Drops(events') \in Nat
    BY <2>1, DropsType
  <2>3. LossyIn(events') \in Nat
    BY <2>1, LossyAreCounted
  <2> QED
    BY <1>2, <2>2, <2>3 DEF Load, DropsAt, LossyAt, EventSet
<1> HIDE DEF e
<1>6. Sent(0)
  <2>1. /\ AtIncoming' = AtIncoming /\ AtRouter' = AtRouter /\ ReaderHas' = ReaderHas
        /\ Owed' = Owed
    BY <1>1, SamePlaces
  <2>2. /\ Told' = Told + LossyAt(e) + DropsAt(e)
        /\ AtEvents = AtEvents' + DropsAt(e) + LossyAt(e) /\ AtEvents' \in Nat
    <3>1. hist.lossySeen \in Nat /\ hist.dropSeen \in Nat
      BY TallyTypes
    <3> QED
      BY <1>3, <1>4, <1>5, <3>1 DEF Told, AtEvents
  <2>3. Tally' = Tally
    BY <1>5, <2>1, <2>2, TallyTerms DEF Tally
  <2>4. Tally \in Nat /\ hist.lossy \in Nat
    BY TallyTerms
  <2> QED
    BY <1>4, <2>3, <2>4 DEF Sent
<1>7. (Up' => Up) /\ (reader' = "acquire" => item'.kind # "lossy")
  BY <1>1 DEF Up, RouterRunning, EventsOpen, DropInv
<1> QED
  BY <1>6, <1>7, TallyMoves

LEMMA ReaderKeepsDrop ==
  ASSUME IInv, FlowInv, DropInv, ReaderStep
  PROVE  DropInv'
<1> USE DEF callerVars, queueVars, dropVars, readerVars, ownerVars, consumerVars, notReader
<1>0. UNCHANGED <<events, cur, router, owner, dropped>>
  BY DEF ReaderStep, ReaderReadLossy, ReaderReadFrame, ReaderReadFinal, ReaderAcquire, ReaderSend
<1>a. AtEvents' = AtEvents /\ AtRouter' = AtRouter
  BY <1>0, SamePlaces
<1>b. reader # "stopped" => (Up' => Up)
  BY <1>0 DEF Up, RouterRunning, EventsOpen
<1>c. reader = "read" => ReaderHas = 0
  BY DEF FlowInv, ReaderHas, LossyAt, NoMsg, Msg
<1>d. hist \in HistSet /\ hist.lossy \in Nat /\ dropped \in Nat /\ readerDropped \in Nat
  BY TallyTypes
<1>1. CASE ReaderReadLossy
  <2>1. /\ reader = "read" /\ hist' = [hist EXCEPT !.lossy = @ + 1] /\ incoming' = incoming
        /\ \/ item' = Msg("lossy", 0) /\ reader' = "send" /\ UNCHANGED readerDropped
           \/ readerDropped' = readerDropped + 1 /\ UNCHANGED <<item, reader>>
    BY <1>1 DEF ReaderReadLossy
  <2>2. /\ hist'.lossy = hist.lossy + 1 /\ UNCHANGED <<hist.lossySeen, hist.dropSeen>>
    BY <1>d, <2>1 DEF HistSet
  <2>3. Told' = Told /\ AtIncoming' = AtIncoming
    BY <2>1, <2>2, SamePlaces
  <2>4. Tally' = Tally + 1
    <3>1. CASE item' = Msg("lossy", 0) /\ UNCHANGED readerDropped
      <4>1. ReaderHas' = 1 /\ ReaderHas = 0 /\ Owed' = Owed
        BY <1>0, <1>c, <2>1, <3>1, SamePlaces DEF ReaderHas, LossyAt, Msg
      <4> QED
        BY <1>a, <2>3, <4>1, TallyTerms DEF Tally
    <3>2. CASE readerDropped' = readerDropped + 1 /\ UNCHANGED item
      <4>1. Owed' = Owed + 1 /\ ReaderHas' = ReaderHas
        BY <1>0, <1>d, <3>2, SamePlaces DEF Owed
      <4> QED
        BY <1>a, <2>3, <4>1, TallyTerms DEF Tally
    <3> QED
      BY <2>1, <3>1, <3>2
  <2>5. Sent(1)
    BY <2>2, <2>4 DEF Sent
  <2> QED
    BY <1>b, <2>1, <2>5, TallyMoves
<1>2. CASE ReaderReadFrame \/ ReaderReadFinal \/ ReaderAcquire
  <2>1. /\ UNCHANGED <<hist.lossy, hist.lossySeen, hist.dropSeen>>
    <3>1. \/ hist' = hist
          \/ \E x : hist' = [hist EXCEPT !.answered = x]
          \/ hist' = [hist EXCEPT !.produced = @ + 1]
      BY <1>2 DEF ReaderReadFrame, ReaderReadFinal, ReaderAcquire
    <3> QED
      BY <1>d, <3>1 DEF HistSet
  <2>2. UNCHANGED <<incoming, readerDropped>> /\ reader \in {"read", "acquire"}
    BY <1>2 DEF ReaderReadFrame, ReaderReadFinal, ReaderAcquire
  <2>3. /\ reader' = "acquire" => item'.kind # "lossy"
        /\ ReaderHas' = ReaderHas
    <3>1. CASE ReaderReadFrame
      <4>1. reader = "read" /\ item'.kind \in AnswerKinds \cup {"request", "semantic", "badId"}
        BY <3>1 DEF ReaderReadFrame, Msg
      <4> QED
        BY <1>c, <4>1 DEF ReaderHas, LossyAt, AnswerKinds
    <3>2. CASE ReaderReadFinal
      <4>1. reader = "read" /\ reader' = "send" /\ item'.kind \in {"error", "eof"}
        BY <3>2 DEF ReaderReadFinal, Msg
      <4> QED
        BY <1>c, <4>1 DEF ReaderHas, LossyAt
    <3>3. CASE ReaderAcquire
      <4>1. /\ reader' = "send" /\ item.kind # "lossy"
            /\ item' = item \/ item' = Msg("overloaded", 0)
        BY <3>3 DEF ReaderAcquire, DropInv
      <4> QED
        BY <4>1 DEF ReaderHas, LossyAt, Msg
    <3> QED
      BY <1>2, <3>1, <3>2, <3>3
  <2>4. Told' = Told /\ Owed' = Owed /\ AtIncoming' = AtIncoming
    BY <1>0, <2>1, <2>2, SamePlaces
  <2>5. Sent(0)
    BY <1>a, <2>1, <2>3, <2>4, TallyStays
  <2> QED
    BY <1>b, <2>2, <2>3, <2>5, TallyMoves
<1>3. CASE ReaderSend
  <2>1. /\ UNCHANGED <<readerDropped, hist>> /\ reader = "send" /\ item' = NoMsg
        /\ reader' # "acquire"
        /\ incoming' = Append(incoming, item) \/ reader' = "stopped"
    BY <1>3 DEF ReaderSend
  <2>2. CASE incoming' = Append(incoming, item)
    <3>1. item \in MsgSet /\ incoming \in Seq(MsgSet)
      BY <2>1, TallyTypes DEF IInv, ControlOK
    <3>2. AtIncoming' = AtIncoming + ReaderHas
      BY <2>2, <3>1, LossyAfterAppend DEF AtIncoming, ReaderHas
    <3>3. ReaderHas' = 0
      BY <2>1 DEF ReaderHas, LossyAt, NoMsg, Msg
    <3>4. Told' = Told /\ Owed' = Owed /\ hist'.lossy = hist.lossy
      BY <1>0, <2>1, SamePlaces
    <3>5. Tally' = Tally /\ Tally \in Nat
      BY <1>a, <3>2, <3>3, <3>4, TallyTerms DEF Tally
    <3>6. Sent(0)
      BY <1>d, <3>4, <3>5 DEF Sent
    <3> QED
      BY <1>b, <2>1, <3>6, TallyMoves
  <2>3. CASE reader' = "stopped"
    BY <2>3 DEF DropInv, Up
  <2> QED
    BY <2>1, <2>2, <2>3
<1> QED
  BY <1>1, <1>2, <1>3 DEF ReaderStep

(* A count that is published moves from the router's own to the event queue. *)
LEMMA CountMoves ==
  ASSUME IInv, NEW count \in Nat, PublishDropCount(count)
  PROVE  AtEvents' + dropped' = AtEvents + count /\ dropped' \in Nat
<1> DEFINE m == Msg("dropped", count)
<1>1. m \in EventSet /\ DropsAt(m) = count /\ LossyAt(m) = 0
  BY DEF Msg, EventSet, DropsAt, LossyAt
<1>2. AtEvents \in Nat
  BY TallyTerms
<1>3. \/ events' = Append(events, m) /\ dropped' = 0
      \/ dropped' = count /\ events' = events
  BY DEF PublishDropCount
<1> HIDE DEF m
<1>4. CASE events' = Append(events, m) /\ dropped' = 0
  <2>1. Load(events') = Load(events) + DropsAt(m) + LossyAt(m)
    BY <1>1, <1>4, TallyTypes, LoadAfterAppend
  <2> QED
    BY <1>1, <1>2, <1>4, <2>1 DEF AtEvents
<1>5. CASE dropped' = count /\ events' = events
  BY <1>2, <1>5 DEF AtEvents
<1> QED
  BY <1>3, <1>4, <1>5

LEMMA RouterKeepsDrop ==
  ASSUME IInv, IInv', DropInv, RouterStep
  PROVE  DropInv'
<1> USE DEF callerVars, queueVars, dropVars, readerVars, ownerVars, consumerVars, notRouter
<1>0. /\ UNCHANGED <<owner, reader, item>>
      /\ hist' = hist \/ \E x : hist' = [hist EXCEPT !.rejected = x]
  BY DEF RouterStep, RouterTop, RouterTick, RouterTakeCall, RouterTakeFrame,
     RouterTakeShutdown, RouterWrite, RouterWriteHung, WriteSucceeds, RouterWriteFails,
     RouterTakeAnswer, RouterTakeEvent, Published, NotPublished, RouterIncomingFails,
     RouterReapChild, RouterFinish
<1>a. /\ Told' = Told /\ ReaderHas' = ReaderHas /\ hist'.lossy = hist.lossy
      /\ reader' = "acquire" => item'.kind # "lossy"
  <2>1. UNCHANGED <<hist.lossy, hist.lossySeen, hist.dropSeen>>
    BY <1>0, TallyTypes DEF HistSet
  <2> QED
    BY <1>0, <2>1, SamePlaces DEF DropInv
<1>b. RouterRunning => (Up' => Up)
  BY <1>0 DEF Up, EventsOpen
<1>k. /\ router = "publish" <=> cur.kind \in EventKinds
      /\ dropped \in Nat /\ readerDropped \in Nat
  BY DEF IInv, ControlOK, TypeOK
<1>c. router # "publish" => AtRouter = 0
  BY <1>k DEF AtRouter, LossyAt, EventKinds
<1>d. cur'.kind # "lossy" => AtRouter' = 0
  BY DEF AtRouter, LossyAt
<1>e. NoMsg.kind # "lossy" /\ \A k \in {"call", "frame", "reject", "shutdown"}, n \in Nat : Msg(k, n).kind # "lossy"
  BY DEF NoMsg, Msg
<1>f. hist.lossy \in Nat /\ Tally \in Nat
  BY TallyTerms
<1>g. ASSUME Tally' = Tally, RouterRunning PROVE DropInv'
  <2>1. Sent(0)
    BY <1>a, <1>f, <1>g DEF Sent
  <2> QED
    BY <1>a, <1>b, <1>g, <2>1, TallyMoves
<1>h. ASSUME ~RouterRunning' PROVE DropInv'
  BY <1>a, <1>h DEF DropInv, Up
<1>1. CASE RouterTop
  <2>1. /\ UNCHANGED <<incoming, cur>> /\ readerDropped' = 0
        /\ PublishDropCount(dropped + readerDropped) /\ RouterRunning
    BY <1>1 DEF RouterTop, RouterRunning
  <2>2. AtEvents' + dropped' = AtEvents + (dropped + readerDropped) /\ dropped' \in Nat
    BY <1>k, <2>1, CountMoves
  <2>3. AtIncoming' = AtIncoming /\ AtRouter' = AtRouter
    BY <2>1, SamePlaces
  <2>4. AtEvents' + Owed' = AtEvents + Owed
    BY <1>k, <2>1, <2>2, TallyTerms, TallyAfter DEF Owed
  <2>5. Tally' = Tally
    BY <1>a, <2>3, <2>4, TallyTerms, TallyAfter DEF Tally
  <2> QED
    BY <1>g, <2>1, <2>5
<1>2. CASE RouterTick \/ RouterTakeCall \/ RouterTakeFrame
  <2>1. UNCHANGED <<events, incoming, dropped, readerDropped>> /\ RouterRunning /\ router = "select"
    BY <1>2 DEF RouterTick, RouterTakeCall, RouterTakeFrame, RouterRunning
  <2>2. cur' = cur \/ cur'.kind \in {"call", "frame"}
    BY <1>2 DEF RouterTick, RouterTakeCall, RouterTakeFrame, Refuse, Msg
  <2>3. AtRouter' = AtRouter
    BY <1>c, <1>d, <2>1, <2>2, SamePlaces
  <2>4. Tally' = Tally
    BY <1>a, <2>1, <2>3, SamePlaces DEF Tally
  <2> QED
    BY <1>g, <2>1, <2>4
<1>3. CASE RouterTakeShutdown \/ RouterWriteFails \/ RouterIncomingFails \/ RouterReapChild
           \/ RouterFinish
  <2>1. ~RouterRunning'
    BY <1>3 DEF RouterTakeShutdown, RouterWriteFails, RouterIncomingFails, RouterReapChild,
       RouterFinish, RouterRunning
  <2> QED
    BY <1>h, <2>1
<1>4. CASE RouterWrite \/ RouterWriteHung
  <2>1. /\ UNCHANGED <<events, incoming, dropped, readerDropped>> /\ cur' = NoMsg
        /\ RouterRunning /\ router = "write"
    BY <1>4 DEF RouterWrite, RouterWriteHung, WriteSucceeds, RouterRunning
  <2>2. AtRouter' = AtRouter
    BY <1>c, <1>d, <1>e, <2>1
  <2>3. Tally' = Tally
    BY <1>a, <2>1, <2>2, SamePlaces DEF Tally
  <2> QED
    BY <1>g, <2>1, <2>3
<1>5. CASE RouterTakeAnswer
  <2>1. /\ UNCHANGED <<events, cur, dropped, readerDropped>> /\ incoming # <<>>
        /\ incoming' = Tail(incoming) /\ Head(incoming).kind \in AnswerKinds /\ RouterRunning
    BY <1>5 DEF RouterTakeAnswer, RouterRunning
  <2>2. LossyAt(Head(incoming)) = 0
    BY <2>1 DEF LossyAt, AnswerKinds
  <2>3. AtIncoming' = AtIncoming
    BY <2>1, <2>2, TallyTypes, LossyAfterTail DEF AtIncoming
  <2>4. Tally' = Tally
    BY <1>a, <2>1, <2>3, SamePlaces DEF Tally
  <2> QED
    BY <1>g, <2>1, <2>4
<1>6. CASE RouterTakeEvent
  <2>1. /\ incoming # <<>> /\ incoming' = Tail(incoming) /\ cur' = Head(incoming)
        /\ RouterRunning /\ router = "select" /\ readerDropped' = readerDropped
        /\ UNCHANGED <<events, dropped>> \/ PublishDropCount(dropped)
    BY <1>6 DEF RouterTakeEvent, RouterRunning
  <2>2. AtIncoming = AtRouter' + AtIncoming' /\ AtRouter = 0
    BY <1>c, <2>1, TallyTypes, LossyAfterTail DEF AtIncoming, AtRouter
  <2>3. AtEvents' + Owed' = AtEvents + Owed
    <3>1. CASE UNCHANGED <<events, dropped>>
      BY <2>1, <3>1, SamePlaces
    <3>2. CASE PublishDropCount(dropped)
      <4>1. AtEvents' + dropped' = AtEvents + dropped /\ dropped' \in Nat
        BY <1>k, <3>2, CountMoves
      <4>2. AtEvents \in Nat /\ AtEvents' \in Nat /\ readerDropped' = readerDropped
        BY <2>1, TallyTerms, TallyAfter
      <4>3. dropped \in Nat /\ readerDropped \in Nat
        BY <1>k
      <4>4. AtEvents' + (dropped' + readerDropped) = AtEvents + (dropped + readerDropped)
        <5> DEFINE a1 == AtEvents'  d1 == dropped'  a == AtEvents  d == dropped  r == readerDropped
        <5>1. a1 + d1 = a + d /\ a1 \in Nat /\ d1 \in Nat /\ a \in Nat /\ d \in Nat /\ r \in Nat
          BY <4>1, <4>2, <4>3
        <5> HIDE DEF a1, d1, a, d, r
        <5>2. a1 + (d1 + r) = a + (d + r)
          BY <5>1
        <5> QED
          BY <5>2 DEF a1, d1, a, d, r
      <4>5. Owed = dropped + readerDropped /\ Owed' = dropped' + readerDropped
        BY <4>2 DEF Owed
      <4> QED
        BY <4>4, <4>5
    <3> QED
      BY <2>1, <3>1, <3>2
  <2>4. Tally' = Tally
    BY <1>a, <2>2, <2>3, TallyTerms, TallyAfter DEF Tally
  <2> QED
    BY <1>g, <2>1, <2>4
<1>7. CASE Published
  <2>1. /\ UNCHANGED <<incoming, dropped, readerDropped>> /\ events' = Append(events, cur)
        /\ cur' = NoMsg /\ RouterRunning /\ router = "publish"
    BY <1>7 DEF Published, NextIteration, RouterRunning
  <2>2. cur \in EventSet /\ DropsAt(cur) = 0
    <3>1. cur \in CurSet
      BY DEF IInv, TypeOK
    <3> QED
      BY <1>k, <2>1, <3>1 DEF CurSet, EventSet, EventKinds, DropsAt
  <2>3. AtEvents' = AtEvents + DropsAt(cur) + LossyAt(cur)
    BY <2>1, <2>2, TallyTypes, LoadAfterAppend DEF AtEvents
  <2>4. AtEvents' = AtEvents + AtRouter /\ AtRouter' = 0
    BY <1>d, <1>e, <2>1, <2>2, <2>3, TallyTerms DEF AtRouter
  <2>5. Owed' = Owed /\ AtIncoming' = AtIncoming
    BY <2>1, SamePlaces
  <2>6. Tally' = Tally
    BY <1>a, <2>4, <2>5, TallyTerms DEF Tally
  <2> QED
    BY <1>g, <2>1, <2>6
<1>8. CASE NotPublished
  <2>1. /\ UNCHANGED <<events, incoming, readerDropped>> /\ RouterRunning /\ router = "publish"
        /\ \/ cur.kind = "request" /\ cur' = Msg("reject", cur.n) /\ dropped' = dropped
           \/ cur.kind # "request" /\ cur.kind # "semantic" /\ dropped' = dropped + 1 /\ cur' = NoMsg
           \/ router' = "closing"
    BY <1>8 DEF NotPublished, RouterRunning, RequiresResync
  <2>2. AtEvents' = AtEvents /\ AtIncoming' = AtIncoming
    BY <2>1, SamePlaces
  <2>3. CASE cur.kind = "request" /\ cur' = Msg("reject", cur.n) /\ dropped' = dropped
    <3>1. AtRouter = 0 /\ AtRouter' = 0 /\ Owed' = Owed
      BY <2>1, <2>3, SamePlaces DEF AtRouter, LossyAt, Msg
    <3>2. Tally' = Tally
      BY <1>a, <2>2, <3>1 DEF Tally
    <3> QED
      BY <1>g, <2>1, <3>2
  <2>4. CASE cur.kind # "request" /\ cur.kind # "semantic" /\ dropped' = dropped + 1 /\ cur' = NoMsg
    <3>1. AtRouter = 1 /\ AtRouter' = 0
      BY <1>d, <1>e, <1>k, <2>1, <2>4 DEF AtRouter, LossyAt, EventKinds
    <3>2. Owed' = Owed + 1
      BY <1>k, <2>1, <2>4 DEF Owed
    <3>3. Tally' = Tally
      BY <1>a, <2>2, <3>1, <3>2, TallyTerms DEF Tally
    <3> QED
      BY <1>g, <2>1, <3>3
  <2>5. CASE router' = "closing"
    BY <1>h, <2>5 DEF RouterRunning
  <2> QED
    BY <2>1, <2>3, <2>4, <2>5
<1> QED
  BY <1>1, <1>2, <1>3, <1>4, <1>5, <1>6, <1>7, <1>8 DEF RouterStep

LEMMA NextDrop == IInv /\ IInv' /\ FlowInv /\ DropInv /\ [Next]_vars => DropInv'
<1> SUFFICES ASSUME IInv, IInv', FlowInv, DropInv, [Next]_vars PROVE DropInv'
  OBVIOUS
<1>1. CASE UNCHANGED vars
  BY <1>1 DEF vars, DropInv, callerVars, queueVars, dropVars, readerVars, ownerVars, consumerVars,
     Tally, Told, Owed, AtEvents, AtIncoming, AtRouter, ReaderHas, Up, EventsOpen, RouterRunning
<1> QED
  BY <1>1, OthersKeepDrop, ReceiveKeepsDrop, ReaderKeepsDrop, RouterKeepsDrop
  DEF Next, ConsumerStep

(* What the consumer sees of the child's notifications and requests is       *)
(* faithful: no hole, none both rejected and shown, and, while the           *)
(* connection is up, each best-effort notification is delivered, on its way  *)
(* or part of a count of drops.                                              *)
THEOREM EventsFaithful == Spec => []EventsAreFaithful
<1>1. IInv /\ DropInv => DropAccounting
  BY TallyIsAccounting
<1>2. NoGapInEvents /\ NeverRejectedAndDelivered /\ DropAccounting => EventsAreFaithful
  BY DEF EventsAreFaithful
<1> QED
  BY InductiveInvariant, InitFlow, NextFlow, InitDrop, NextDrop, EventsHaveNoHole, <1>1, <1>2,
     PTL DEF Spec

-----------------------------------------------------------------------------
(* ByteBudget: the budget of the reader at the level of its mutex, for any   *)
(* number of threads, any limit and requests of any size.                    *)
(*                                                                           *)
(* That a refusal is justified and that the limit holds both rest on the     *)
(* mutex: what is compared with the room is taken in the same step.  That    *)
(* the bytes in use are the sum of the leases needs that a sum over a set    *)
(* does not depend on the order of its elements.                             *)

(* The parts of the account that do not add up the leases.                   *)
WithinLimit == BudgetTypes /\ usedBytes <= Limit

(* At the start nothing is leased. *)
LEMMA InitWithin == BudgetInit => WithinLimit
  BY BudgetAssumption DEF BudgetInit, WithinLimit, BudgetTypes, InState

(* A request that fits does not exceed the limit. *)
LEMMA GrantWithin ==
    ASSUME WithinLimit, NEW t \in Threads, Fits(bytes[t])
    PROVE  usedBytes + bytes[t] \in Nat /\ usedBytes + bytes[t] <= Limit
<1>1. bytes[t] \in Nat
  BY BudgetAssumption DEF WithinLimit, BudgetTypes
<1> QED
  BY <1>1, BudgetAssumption DEF WithinLimit, BudgetTypes, Fits, Left

(* Under the mutex a thread takes its bytes, leaves or sleeps.               *)
LEMMA RoundWithin ==
    ASSUME WithinLimit, NEW t \in Threads, UNCHANGED bytes,
           state[t] \in {"trying", "acquiring", "waiting"},
           \/ Fits(bytes[t]) /\ Grant(t)
           \/ ~Fits(bytes[t]) /\ Decline(t)
           \/ ~Fits(bytes[t]) /\ Sleep(t)
    PROVE  WithinLimit'
<1>1. CASE Fits(bytes[t]) /\ Grant(t)
  <2>1. usedBytes' \in Nat /\ usedBytes' <= Limit
    BY <1>1, GrantWithin DEF Grant
  <2> QED
    BY <1>1, <2>1 DEF WithinLimit, BudgetTypes, Grant, Become, Forget, InState
<1>2. CASE Decline(t)
  BY <1>2 DEF WithinLimit, BudgetTypes, Decline, Become, Forget, InState
<1>3. CASE Sleep(t)
  BY <1>3 DEF WithinLimit, BudgetTypes, Sleep, Become, InState
<1> QED
  BY <1>1, <1>2, <1>3

(* A request beyond the limit does not fit. *)
LEMMA TooLarge ==
    ASSUME WithinLimit, NEW t \in Threads, bytes[t] > Limit
    PROVE  ~Fits(bytes[t])
  BY BudgetAssumption DEF WithinLimit, BudgetTypes, Fits

(* Every step keeps the limit. *)
LEMMA StepWithin == WithinLimit /\ [BudgetNext]_budgetVars => WithinLimit'
<1> SUFFICES ASSUME WithinLimit, [BudgetNext]_budgetVars PROVE WithinLimit'
  OBVIOUS
<1>1. ASSUME NEW t \in Threads, NEW n \in 0..MaxBytes, NEW how \in {"trying", "acquiring"},
             Call(t, n, how)
      PROVE  WithinLimit'
  BY <1>1 DEF Call, WithinLimit, BudgetTypes, Become, InState
<1>2. ASSUME NEW t \in Threads, TryAcquire(t) PROVE WithinLimit'
  BY <1>2, RoundWithin DEF TryAcquire
<1>3. ASSUME NEW t \in Threads, Acquire(t) PROVE WithinLimit'
  BY <1>3, RoundWithin, TooLarge DEF Acquire, Round
<1>4. ASSUME NEW t \in Threads, Wake(t) \/ WakeSpuriously(t) PROVE WithinLimit'
  BY <1>4, RoundWithin DEF Wake, WakeSpuriously, Round
<1>5. ASSUME NEW t \in Threads, TimesOut(t) PROVE WithinLimit'
  BY <1>5 DEF TimesOut, WithinLimit, BudgetTypes, InState
<1>6. ASSUME NEW t \in Threads, Return(t) PROVE WithinLimit'
  <2>1. bytes[t] \in Nat
    BY BudgetAssumption DEF WithinLimit, BudgetTypes
  <2>2. usedBytes' \in Nat /\ usedBytes' <= Limit
    BY <1>6, <2>1, BudgetAssumption DEF Return, WithinLimit, BudgetTypes
  <2> QED
    BY <1>6, <2>2 DEF Return, WithinLimit, BudgetTypes, Become, InState
<1>7. ASSUME NEW t \in Threads, NotifyAll(t) PROVE WithinLimit'
  BY <1>7 DEF NotifyAll, WithinLimit, BudgetTypes, Become, InState
<1>8. CASE UNCHANGED budgetVars
  BY <1>8 DEF budgetVars, WithinLimit, BudgetTypes, InState
<1> QED
  BY <1>1, <1>2, <1>3, <1>4, <1>5, <1>6, <1>7, <1>8 DEF BudgetNext

(* The budget is never exceeded, whoever asks, waits, times out and returns  *)
(* (byte_budget.rs, acquire_if_available and ByteLease::drop).               *)
THEOREM LimitHolds == BudgetSpec => []WithinLimit
  BY InitWithin, StepWithin, PTL DEF BudgetSpec

-----------------------------------------------------------------------------
(* A step that refuses a request is taken when the request does not fit. *)
Justified ==
    \A t \in Threads :
        state[t] \in {"trying", "acquiring", "waiting"} /\ state'[t] = "idle" => ~Fits(bytes[t])

LEMMA StepJustified == WithinLimit /\ [BudgetNext]_budgetVars => Justified
<1> SUFFICES ASSUME WithinLimit, [BudgetNext]_budgetVars, NEW u \in Threads,
                    state[u] \in {"trying", "acquiring", "waiting"}, state'[u] = "idle"
             PROVE  ~Fits(bytes[u])
  BY DEF Justified
<1>0. state \in [Threads -> {"idle", "trying", "acquiring", "waiting", "leased", "notifying"}]
  BY DEF WithinLimit, BudgetTypes
<1>1. ASSUME NEW t \in Threads, TryAcquire(t) PROVE ~Fits(bytes[u])
  BY <1>0, <1>1 DEF TryAcquire, Grant, Decline, Become
<1>2. ASSUME NEW t \in Threads, Acquire(t) PROVE ~Fits(bytes[u])
  BY <1>0, <1>2, TooLarge DEF Acquire, Round, Grant, Decline, Sleep, Become
<1>3. ASSUME NEW t \in Threads, Wake(t) \/ WakeSpuriously(t) PROVE ~Fits(bytes[u])
  BY <1>0, <1>3 DEF Wake, WakeSpuriously, Round, Grant, Decline, Sleep, Become
<1>4. ASSUME NEW t \in Threads, NEW n \in 0..MaxBytes, NEW how \in {"trying", "acquiring"},
             Call(t, n, how)
      PROVE  FALSE
  BY <1>0, <1>4 DEF Call, Become
<1>5. ASSUME NEW t \in Threads, TimesOut(t) \/ Return(t) \/ NotifyAll(t) PROVE FALSE
  BY <1>0, <1>5 DEF TimesOut, Return, NotifyAll, Become
<1>6. CASE UNCHANGED budgetVars
  BY <1>6 DEF budgetVars
<1> QED
  BY <1>1, <1>2, <1>3, <1>4, <1>5, <1>6 DEF BudgetNext

(* A request is refused only when there is no room for it at that moment: a  *)
(* timeout that has passed does not refuse what has become free.             *)
THEOREM RefusalsAreJustified == BudgetSpec => RefusedOnlyWhenFull
<1>1. Justified => [\A t \in Threads :
           state[t] \in {"trying", "acquiring", "waiting"} /\ state'[t] = "idle"
               => ~Fits(bytes[t])]_budgetVars
  BY DEF Justified
<1> QED
  BY LimitHolds, StepJustified, <1>1, PTL DEF BudgetSpec, RefusedOnlyWhenFull

(* The account: the bytes in use are those of the threads that hold a lease. *)
Leases == InState("leased")
Account == WithinLimit /\ usedBytes = Sum(bytes, Leases)

LEMMA LeasesAreFinite ==
  ASSUME WithinLimit, NEW s
  PROVE  /\ IsFiniteSet(InState(s)) /\ NatOn(bytes, InState(s))
         /\ \A t \in Threads : bytes[t] \in Nat
<1>1. InState(s) \in SUBSET Threads
  BY DEF InState
<1>2. \A t \in Threads : bytes[t] \in Nat
  BY BudgetAssumption DEF WithinLimit, BudgetTypes
<1> QED
  BY <1>1, <1>2, BudgetAssumption, FS_Subset DEF NatOn

LEMMA InitAccount == BudgetInit => Account
<1> SUFFICES ASSUME BudgetInit PROVE Account
  OBVIOUS
<1>1. Leases = {} /\ usedBytes = 0
  BY DEF BudgetInit, Leases, InState
<1> QED
  BY <1>1, InitWithin, SumOfNone DEF Account

(* No lease comes or goes. *)
LEMMA SameLeases ==
  ASSUME Account, WithinLimit', usedBytes' = usedBytes, Leases' = Leases,
         \A t \in Leases : bytes'[t] = bytes[t]
  PROVE  Account'
<1>1. IsFiniteSet(Leases) /\ NatOn(bytes, Leases)
  BY LeasesAreFinite DEF Account, Leases
<1>2. Sum(bytes', Leases) = Sum(bytes, Leases)
  BY <1>1, SumOfEquals
<1> QED
  BY <1>2 DEF Account

(* A lease is given out: its bytes are added.                                *)
LEMMA LeaseGranted ==
  ASSUME Account, WithinLimit', NEW t \in Threads, t \notin Leases, UNCHANGED bytes,
         usedBytes' = usedBytes + bytes[t], Leases' = Leases \cup {t}
  PROVE  Account'
<1> DEFINE L == Leases \cup {t}
<1>1. IsFiniteSet(Leases) /\ NatOn(bytes, Leases) /\ bytes[t] \in Nat
  BY LeasesAreFinite DEF Account, Leases
<1>2. IsFiniteSet(L) /\ NatOn(bytes, L) /\ t \in L /\ L \ {t} = Leases
  BY <1>1, FS_AddElement DEF NatOn
<1> HIDE DEF L
<1>3. Sum(bytes, L) = bytes[t] + Sum(bytes, Leases) /\ Sum(bytes, Leases) \in Nat
  BY <1>2, SumSplit
<1>4. Sum(bytes, L) = usedBytes'
  BY <1>1, <1>3 DEF Account
<1> QED
  BY <1>4 DEF Account, L

(* A lease is returned: its bytes are part of those in use, so nothing is    *)
(* lost to the saturating subtraction.                                       *)
LEMMA LeaseReturned ==
  ASSUME Account, WithinLimit', NEW t \in Threads, t \in Leases, UNCHANGED bytes,
         usedBytes' = IF bytes[t] > usedBytes THEN 0 ELSE usedBytes - bytes[t], Leases' = Leases \ {t}
  PROVE  Account'
<1>1. IsFiniteSet(Leases) /\ NatOn(bytes, Leases) /\ bytes[t] \in Nat
  BY LeasesAreFinite DEF Account, Leases
<1>2. Sum(bytes, Leases) = bytes[t] + Sum(bytes, Leases \ {t}) /\ Sum(bytes, Leases \ {t}) \in Nat
  BY <1>1, SumSplit
<1>3. usedBytes = bytes[t] + Sum(bytes, Leases \ {t})
  BY <1>2 DEF Account
<1>4. usedBytes' = Sum(bytes, Leases \ {t})
  BY <1>1, <1>2, <1>3
<1> QED
  BY <1>4 DEF Account

LEMMA RoundAccount ==
  ASSUME Account, WithinLimit', NEW t \in Threads, UNCHANGED bytes,
         state[t] \in {"trying", "acquiring", "waiting"},
         Grant(t) \/ Decline(t) \/ Sleep(t)
  PROVE  Account'
<1>0. /\ state \in [Threads -> {"idle", "trying", "acquiring", "waiting", "leased", "notifying"}]
      /\ t \notin Leases
  BY DEF Account, WithinLimit, BudgetTypes, Leases, InState
<1>1. CASE Grant(t)
  <2>1. Leases' = Leases \cup {t}
    BY <1>0, <1>1 DEF Grant, Become, Leases, InState
  <2> QED
    BY <1>0, <1>1, <2>1, LeaseGranted DEF Grant
<1>2. CASE Decline(t) \/ Sleep(t)
  <2>1. Leases' = Leases
    BY <1>0, <1>2 DEF Decline, Sleep, Become, Leases, InState
  <2>2. usedBytes' = usedBytes
    BY <1>2 DEF Decline, Sleep
  <2> QED
    BY <2>1, <2>2, SameLeases
<1> QED
  BY <1>1, <1>2

LEMMA StepAccount == Account /\ [BudgetNext]_budgetVars => Account'
<1> SUFFICES ASSUME Account, [BudgetNext]_budgetVars PROVE Account'
  OBVIOUS
<1>0. WithinLimit'
  BY StepWithin DEF Account
<1>s. state \in [Threads -> {"idle", "trying", "acquiring", "waiting", "leased", "notifying"}]
      /\ bytes \in [Threads -> 0..MaxBytes]
  BY DEF Account, WithinLimit, BudgetTypes
<1>1. ASSUME NEW t \in Threads, NEW n \in 0..MaxBytes, NEW how \in {"trying", "acquiring"},
             Call(t, n, how)
      PROVE  Account'
  <2>1. t \notin Leases /\ Leases' = Leases
    BY <1>1, <1>s DEF Call, Become, Leases, InState
  <2>2. usedBytes' = usedBytes /\ \A u \in Leases : bytes'[u] = bytes[u]
    BY <1>1, <1>s, <2>1 DEF Call, Leases, InState
  <2> QED
    BY <1>0, <2>1, <2>2, SameLeases
<1>2. ASSUME NEW t \in Threads, TryAcquire(t) PROVE Account'
  BY <1>0, <1>2, RoundAccount DEF TryAcquire
<1>3. ASSUME NEW t \in Threads, Acquire(t) PROVE Account'
  BY <1>0, <1>3, RoundAccount DEF Acquire, Round
<1>4. ASSUME NEW t \in Threads, Wake(t) \/ WakeSpuriously(t) PROVE Account'
  BY <1>0, <1>4, RoundAccount DEF Wake, WakeSpuriously, Round
<1>5. ASSUME NEW t \in Threads, TimesOut(t) PROVE Account'
  <2>1. Leases' = Leases /\ UNCHANGED <<usedBytes, bytes>>
    BY <1>5 DEF TimesOut, Leases, InState
  <2> QED
    BY <1>0, <2>1, SameLeases
<1>6. ASSUME NEW t \in Threads, Return(t) PROVE Account'
  <2>1. t \in Leases /\ Leases' = Leases \ {t}
    BY <1>6, <1>s DEF Return, Become, Leases, InState
  <2> QED
    BY <1>0, <1>6, <2>1, LeaseReturned DEF Return
<1>7. ASSUME NEW t \in Threads, NotifyAll(t) PROVE Account'
  <2>1. Leases' = Leases /\ UNCHANGED <<usedBytes, bytes>>
    BY <1>7, <1>s DEF NotifyAll, Become, Leases, InState
  <2> QED
    BY <1>0, <2>1, SameLeases
<1>8. CASE UNCHANGED budgetVars
  BY <1>0, <1>8 DEF budgetVars, Account, Leases, InState
<1> QED
  BY <1>1, <1>2, <1>3, <1>4, <1>5, <1>6, <1>7, <1>8 DEF BudgetNext

(* The bytes in use are exactly those of the leases that are held: none is   *)
(* counted twice, none is forgotten, and no subtraction saturates.           *)
THEOREM AccountExact == BudgetSpec => []AccountIsExact
<1>1. Account => AccountIsExact
  BY DEF Account, WithinLimit, AccountIsExact, UsedIsLeased, Leases, Sum
<1> QED
  BY InitAccount, StepAccount, <1>1, PTL DEF BudgetSpec
=============================================================================
