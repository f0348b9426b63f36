------------------------ MODULE ConnectionRecoveryProofs ------------------------
(***************************************************************************)
(* Proofs about ConnectionRecovery, for every capacity and every bound.    *)
(*                                                                         *)
(* The reconnect timer is set by one step and read by another, and three   *)
(* parts of the backend connect: the timer itself, a user's retry and a    *)
(* sign-in.  That none of them connects with the timer still set is what   *)
(* makes TimerOnlyWhileDown inductive.                                     *)
(*                                                                         *)
(* What the UI shows of the connection is judged against all that is on    *)
(* its way to the reducer: the batch, the pending loss that overtakes the  *)
(* queue, the queue, and what the backend is still saying, read as one     *)
(* sequence (Stream).  Each step appends to it, takes its first or lets a  *)
(* loss slip in, and the lemmas say what each of these does to a few       *)
(* judgements about the order in it: a loss is made good by a connection   *)
(* behind it (MadeGood), an accepted sign-in has its end behind it         *)
(* (SignInsEnd), and a sign-in is answered once (AtMostOneAnswer).  With   *)
(* what waits in the command queue, where a schedule stands behind every   *)
(* connect of a recovery, they form the inductive invariant RealInv.       *)
(*                                                                         *)
(* The delays are powers of two, and a power is the number of the subsets  *)
(* of a set: that is how the schedule of the delays is proved (Power).     *)
(* BackoffInv says it of the scheduler, of the UI and of every delay that  *)
(* is on its way between them; FreshInv, that a connection and the one who *)
(* makes it for the user or a sign-in have no progression to start over.   *)
(* Alone says why a retry that the user is offered races no other: with    *)
(* one sign-in, who dials, a failure on its way, the retry offered after   *)
(* it and a progression of delays exclude each other.                      *)
(***************************************************************************)
EXTENDS ConnectionRecovery, SequenceTheorems, FunctionTheorems, FiniteSetTheorems, TLAPS

(* No step that is about to connect leaves the timer set.                    *)
TimerInv ==
    /\ TimerOnlyWhileDown
    /\ Connecting => pending = 0

(* At the start the timer is not set. *)
LEMMA TimerInit == Init => TimerInv
  BY DEF Init, TimerInv, TimerOnlyWhileDown

(* Each part of the program keeps the timer and the connection apart. *)
LEMMA TimerStep == TimerInv /\ [Next]_vars => TimerInv'
<1> SUFFICES ASSUME TimerInv, [Next]_vars PROVE TimerInv'
  OBVIOUS
<1> USE DEF TimerInv, TimerOnlyWhileDown, Connecting
<1>1. CASE Emit
  BY <1>1 DEF Emit, EmitQueued, EmitTimedOut, linkVars, schedulerVars
<1>2. CASE TopStep
  BY <1>2 DEF TopStep, DropConnection, Goto, linkVars, schedulerVars
<1>3. CASE PollLossy \/ PollSemantic
  BY <1>3 DEF PollLossy, PollSemantic, schedulerVars
<1>4. CASE PollOverload \/ PollDisconnected \/ SignalClosed
  BY <1>4 DEF PollOverload, PollDisconnected, SignalClosed, DropConnection, Goto,
              schedulerVars
<1>5. CASE PollClosed \/ PollEmpty
  BY <1>5 DEF PollClosed, PollEmpty, EmitThen, Goto, linkVars, schedulerVars
<1>6. CASE NoCommand \/ StopBackend
  BY <1>6 DEF NoCommand, StopBackend, DropConnection, Goto, linkVars, schedulerVars
<1>7. CASE RunConnect
  BY <1>7 DEF RunConnect, ResetScheduler
<1>8. CASE RunSchedule
  BY <1>8 DEF RunSchedule, Schedule, EmitThen, Goto, linkVars, schedulerVars
<1>9. CASE RunLoad \/ RunLocal \/ RunLogin
  BY <1>9 DEF RunLoad, RunLocal, RunLogin, EmitThen, linkVars, schedulerVars
<1>10. CASE Restart
  BY <1>10 DEF Restart, ResetScheduler
<1>11. CASE ConnectSucceeds
  BY <1>11 DEF ConnectSucceeds, AfterConnect, EmitThen, ResetScheduler, schedulerVars
<1>12. CASE ConnectFails
  BY <1>12 DEF ConnectFails, Schedule, EmitThen, linkVars, schedulerVars
<1>13. CASE TimerDue \/ TimerNotDue
  BY <1>13 DEF TimerDue, TimerNotDue, Goto, linkVars, schedulerVars
<1>14. CASE UI \/ User \/ ServerDies \/ ServerSends \/ Exited \/ UNCHANGED vars
  <2>1. UNCHANGED <<backend, after, pending, connection>>
    BY <1>14 DEF UI, Tick, CollectLoss, CollectEvent, CollectDone, Reduce,
         ReduceConnected, ReduceConnectionLost, ReduceRetryScheduled, ReduceRetryStarted,
         ReduceConnectionFailed, ReduceLoginAccepted, ReduceLoginFailed,
         ReduceRestartFailed, ReduceAccountLoaded, ReduceOther,
         User, RetryConnection, UserEffect, SubmitLogin, Quit,
         ServerDies, ServerSends, Exited,
         notReducer, notUi, notUser, notServer, vars, linkVars, schedulerVars
  <2> QED
    BY <2>1
<1> QED
  BY <1>1, <1>2, <1>3, <1>4, <1>5, <1>6, <1>7, <1>8, <1>9, <1>10, <1>11, <1>12, <1>13,
     <1>14 DEF Next, Backend

(* The reconnect timer is set only while there is no connection: no retry    *)
(* is announced over a live connection, and no second app-server is started. *)
THEOREM TimerIsForTheDisconnected == SafetySpec => []TimerOnlyWhileDown
<1>1. TimerInv => TimerOnlyWhileDown
  BY DEF TimerInv
<1> QED
  BY TimerInit, TimerStep, <1>1, PTL DEF SafetySpec

-----------------------------------------------------------------------------
(* Sequences of actions. *)

ActionKinds == {"connected", "lost", "retryScheduled", "retryStarted", "failed", "note", "item",
                "account", "loginAccepted", "loginFailed", "restartFailed"}
Actions == [kind : ActionKinds, attempt : Nat, delay : 0..MaxDelay]
Reports == {a \in Actions : a.kind # "item"}
Effects == {"connect", "schedule", "load", "local", "login", "shutdown"}

LEMMA PlainType == \A kind \in ActionKinds : Plain(kind) \in Actions /\ Plain(kind).kind = kind
  BY CapacityAssumption DEF Plain, Act, Actions

(* A sequence is its head before its tail. *)
LEMMA HeadAndTail ==
  ASSUME NEW S, NEW s \in Seq(S), s # <<>>
  PROVE  Head(s) \in S /\ Tail(s) \in Seq(S) /\ s = <<Head(s)>> \o Tail(s)
<1>1. /\ Head(s) \in S /\ Tail(s) \in Seq(S) /\ Len(Tail(s)) = Len(s) - 1
      /\ \A i \in 1..Len(Tail(s)) : Tail(s)[i] = s[i + 1]
  BY HeadTailProperties
<1>2. <<Head(s)>> \in Seq(S) /\ Len(<<Head(s)>>) = 1 /\ <<Head(s)>>[1] = Head(s)
  BY <1>1
<1>3. Len(s) \in Nat \ {0} /\ Head(s) = s[1]
  BY EmptySeq
<1> DEFINE t == <<Head(s)>> \o Tail(s)
<1>4. /\ t \in Seq(S) /\ Len(t) = Len(s)
      /\ \A i \in 1..Len(s) : t[i] = IF i <= 1 THEN Head(s) ELSE Tail(s)[i - 1]
  BY <1>1, <1>2, <1>3, ConcatProperties
<1>5. \A i \in 1..Len(s) : t[i] = s[i]
  BY <1>1, <1>3, <1>4
<1>6. t = s
  <2> HIDE DEF t
  <2> QED
    BY <1>4, <1>5, SeqEqual
<1> QED
  BY <1>1, <1>6

(* What a sequence with one element put before it, or others behind it, has where. *)
LEMMA Before ==
  ASSUME NEW S, NEW h \in S, NEW s \in Seq(S)
  PROVE  /\ <<h>> \o s \in Seq(S) /\ Len(<<h>> \o s) = Len(s) + 1
         /\ DOMAIN (<<h>> \o s) = 1..(Len(s) + 1) /\ DOMAIN s = 1..Len(s) /\ Len(s) \in Nat
         /\ (<<h>> \o s)[1] = h
         /\ \A i \in 1..Len(s) : (<<h>> \o s)[i + 1] = s[i]
<1>1. <<h>> \in Seq(S) /\ Len(<<h>>) = 1 /\ <<h>>[1] = h /\ Len(s) \in Nat
  BY LenProperties
<1>2. /\ <<h>> \o s \in Seq(S) /\ Len(<<h>> \o s) = 1 + Len(s)
      /\ \A i \in 1..(1 + Len(s)) : (<<h>> \o s)[i] = IF i <= 1 THEN <<h>>[1] ELSE s[i - 1]
  BY <1>1, ConcatProperties
<1>3. DOMAIN (<<h>> \o s) = 1..(Len(s) + 1) /\ DOMAIN s = 1..Len(s)
  BY <1>1, <1>2, LenProperties
<1>4. \A i \in 1..Len(s) : (<<h>> \o s)[i + 1] = s[i]
  BY <1>1, <1>2
<1> QED
  BY <1>1, <1>2, <1>3, <1>4

LEMMA Behind ==
  ASSUME NEW S, NEW s \in Seq(S), NEW x \in Seq(S)
  PROVE  /\ s \o x \in Seq(S) /\ Len(s \o x) = Len(s) + Len(x) /\ Len(s) \in Nat /\ Len(x) \in Nat
         /\ DOMAIN (s \o x) = 1..(Len(s) + Len(x)) /\ DOMAIN s = 1..Len(s)
         /\ DOMAIN x = 1..Len(x)
         /\ \A i \in 1..Len(s) : (s \o x)[i] = s[i]
         /\ \A i \in 1..Len(x) : (s \o x)[Len(s) + i] = x[i]
<1>1. Len(s) \in Nat /\ Len(x) \in Nat /\ DOMAIN s = 1..Len(s) /\ DOMAIN x = 1..Len(x)
  BY LenProperties
<1>2. /\ s \o x \in Seq(S) /\ Len(s \o x) = Len(s) + Len(x)
      /\ \A i \in 1..(Len(s) + Len(x)) :
            (s \o x)[i] = IF i <= Len(s) THEN s[i] ELSE x[i - Len(s)]
  BY ConcatProperties
<1>3. DOMAIN (s \o x) = 1..(Len(s) + Len(x))
  BY <1>2, LenProperties
<1>4. \A i \in 1..Len(x) : (s \o x)[Len(s) + i] = x[i]
  BY <1>1, <1>2
<1>5. \A i \in 1..Len(s) : (s \o x)[i] = s[i]
  BY <1>1, <1>2
<1> QED
  BY <1>1, <1>2, <1>3, <1>4, <1>5

(* The leases held by a sequence. *)
LEMMA LeasesAreFinite ==
  ASSUME NEW s \in Seq(Actions)
  PROVE  IsFiniteSet({i \in DOMAIN s : s[i].kind = "item"}) /\ Leases(s) \in Nat
<1>1. IsFiniteSet(1..Len(s)) /\ DOMAIN s = 1..Len(s)
  BY LenProperties, FS_Interval
<1>2. IsFiniteSet({i \in DOMAIN s : s[i].kind = "item"})
  BY <1>1, FS_Subset
<1> QED
  BY <1>2, FS_CardinalityType DEF Leases

LEMMA LeasesPut ==
  ASSUME NEW s \in Seq(Actions), NEW a \in Actions
  PROVE  Leases(Append(s, a)) = IF a.kind = "item" THEN Leases(s) + 1 ELSE Leases(s)
<1> DEFINE held == {i \in DOMAIN s : s[i].kind = "item"}
           more == {i \in DOMAIN Append(s, a) : Append(s, a)[i].kind = "item"}
<1>1. IsFiniteSet(held) /\ Leases(s) \in Nat /\ Len(s) \in Nat
  BY LeasesAreFinite, LenProperties
<1>2. /\ DOMAIN s = 1..Len(s) /\ DOMAIN Append(s, a) = 1..(Len(s) + 1)
      /\ \A i \in 1..Len(s) : Append(s, a)[i] = s[i]
      /\ Append(s, a)[Len(s) + 1] = a
  BY AppendProperties, LenProperties
<1>3. more = IF a.kind = "item" THEN held \cup {Len(s) + 1} ELSE held
  BY <1>1, <1>2
<1>4. Len(s) + 1 \notin held
  BY <1>1, <1>2
<1>5. Leases(s) = Cardinality(held) /\ Leases(Append(s, a)) = Cardinality(more)
  BY DEF Leases
<1> HIDE DEF held, more
<1>6. Cardinality(held \cup {Len(s) + 1}) = Cardinality(held) + 1
  BY <1>1, <1>4, FS_AddElement
<1> QED
  BY <1>3, <1>5, <1>6

LEMMA LeasesTake ==
  ASSUME NEW s \in Seq(Actions), s # <<>>
  PROVE  Leases(Tail(s)) = IF Head(s).kind = "item" THEN Leases(s) - 1 ELSE Leases(s)
<1> DEFINE held == {i \in DOMAIN s : s[i].kind = "item"}
           rest == {i \in DOMAIN Tail(s) : Tail(s)[i].kind = "item"}
           late == held \ {1}
           f == [i \in rest |-> i + 1]
<1>1. IsFiniteSet(held) /\ Leases(s) \in Nat
  BY LeasesAreFinite
<1>2. /\ Tail(s) \in Seq(Actions) /\ Len(Tail(s)) = Len(s) - 1 /\ Len(s) \in Nat \ {0}
      /\ DOMAIN s = 1..Len(s) /\ DOMAIN Tail(s) = 1..(Len(s) - 1)
      /\ \A i \in 1..(Len(s) - 1) : Tail(s)[i] = s[i + 1]
      /\ Head(s) = s[1]
  BY HeadTailProperties, EmptySeq, LenProperties
<1>3. IsFiniteSet(rest)
  BY <1>2, LeasesAreFinite
<1>4. f \in Bijection(rest, late)
  <2>1. f \in [rest -> late]
    BY <1>2
  <2>2. \A i, j \in rest : f[i] = f[j] => i = j
    BY <1>2
  <2>3. \A k \in late : \E i \in rest : f[i] = k
    <3> TAKE k \in late
    <3>1. k \in 2..Len(s) /\ s[k].kind = "item"
      BY <1>2
    <3>2. k - 1 \in rest /\ f[k - 1] = k
      BY <1>2, <3>1
    <3> QED
      BY <3>2
  <2> QED
    BY <2>1, <2>2, <2>3, Fun_IsBij
<1>5. Leases(s) = Cardinality(held) /\ Leases(Tail(s)) = Cardinality(rest)
  BY DEF Leases
<1>6. 1 \in held <=> Head(s).kind = "item"
  BY <1>2
<1> HIDE DEF held, rest, f
<1>7. Cardinality(late) = Cardinality(rest)
  BY <1>3, <1>4, FS_Bijection, Fun_ExistsBij DEF ExistsBijection
<1>8. Cardinality(late) = IF 1 \in held THEN Cardinality(held) - 1 ELSE Cardinality(held)
  BY <1>1, FS_RemoveElement
<1> QED
  BY <1>5, <1>6, <1>7, <1>8
-----------------------------------------------------------------------------
(* What is on its way to the reducer, in the order in which it arrives there: *)
(* a pending loss overtakes the queue.                                       *)
Loss    == IF lossPending THEN <<Plain("lost")>> ELSE <<>>
Leaving == IF backend = "emit" THEN out ELSE <<>>
Line(b, l, e, o) == ((b \o l) \o e) \o o
Stream  == Line(batch, Loss, events, Leaving)

(* A loss or a failed restart is made good by a connection behind it.        *)
MadeGood(s) ==
    \A i \in DOMAIN s : s[i].kind \in {"lost", "restartFailed"} =>
        \E j \in DOMAIN s : j > i /\ s[j].kind = "connected"

(* Nothing between two places, or behind one, resets the sign-in.            *)
CalmBetween(s, i, k) == \A j \in DOMAIN s : i < j /\ j < k => s[j].kind \notin {"lost", "account"}
CalmAfter(s, i) == \A j \in DOMAIN s : i < j => s[j].kind \notin {"lost", "account"}

(* Behind a place comes what ends the restart of a sign-in accepted there.   *)
Settles(s, i) ==
    \E k \in DOMAIN s : k > i /\
        \/ s[k].kind \in {"connected", "failed"}
        \/ s[k].kind = "restartFailed" /\ CalmBetween(s, i, k)

(* Or the restart is going on.                                               *)
Ends(s, i, going) == Settles(s, i) \/ (going /\ CalmAfter(s, i))
SignInsEnd(s, going) == \A i \in DOMAIN s : s[i].kind = "loginAccepted" => Ends(s, i, going)

Answers == {"loginAccepted", "loginFailed"}
AtMostOneAnswer(s) ==
    \A i, j \in DOMAIN s : s[i].kind \in Answers /\ s[j].kind \in Answers => i = j

(* Four queues of actions, under one name.                                   *)
Four(b, l, e, o) ==
    b \in Seq(Actions) /\ l \in Seq(Actions) /\ e \in Seq(Actions) /\ o \in Seq(Actions)

LEMMA LineType ==
  ASSUME NEW b, NEW l, NEW e, NEW o, Four(b, l, e, o)
  PROVE  Line(b, l, e, o) \in Seq(Actions)
<1>1. b \o l \in Seq(Actions)
  BY ConcatProperties DEF Four
<1>2. (b \o l) \o e \in Seq(Actions)
  BY <1>1, ConcatProperties DEF Four
<1> QED
  BY <1>2, ConcatProperties DEF Line, Four

(* Concatenation under a name of its own: the provers regroup it without     *)
(* unfolding what a sequence is.                                             *)
Cat(s, t) == s \o t

LEMMA Regroup ==
  \A s, t, u \in Seq(Actions) : Cat(Cat(s, t), u) = Cat(s, Cat(t, u))
  BY ConcatAssociative DEF Cat

LEMMA CatType ==
  \A s, t \in Seq(Actions) : Cat(s, t) \in Seq(Actions)
  BY ConcatProperties DEF Cat

(* The stream is the same when its first queue takes from its second, and    *)
(* so on.                                                                    *)
LEMMA LineCollectsLoss ==
  ASSUME NEW b \in Seq(Actions), NEW x \in Actions, NEW e, NEW o
  PROVE  Line(Append(b, x), <<>>, e, o) = Line(b, <<x>>, e, o)
<1>1. Append(b, x) \in Seq(Actions) /\ Append(b, x) = b \o <<x>>
  BY AppendProperties, AppendIsConcat
<1>2. Append(b, x) \o <<>> = b \o <<x>>
  BY <1>1, ConcatEmptySeq
<1> QED
  BY <1>2 DEF Line

LEMMA LineCollects ==
  ASSUME NEW b \in Seq(Actions), NEW e \in Seq(Actions), e # <<>>, NEW o
  PROVE  Line(Append(b, Head(e)), <<>>, Tail(e), o) = Line(b, <<>>, e, o)
<1>1. Head(e) \in Actions /\ Tail(e) \in Seq(Actions) /\ e = <<Head(e)>> \o Tail(e)
  BY HeadAndTail
<1>2. /\ Append(b, Head(e)) \in Seq(Actions) /\ Append(b, Head(e)) = b \o <<Head(e)>>
      /\ <<Head(e)>> \in Seq(Actions)
  BY <1>1, AppendProperties, AppendIsConcat
<1>3. Append(b, Head(e)) \o <<>> = b \o <<Head(e)>> /\ b \o <<>> = b
  BY <1>2, ConcatEmptySeq
<1>4. (b \o <<Head(e)>>) \o Tail(e) = b \o (<<Head(e)>> \o Tail(e))
  BY <1>1, <1>2, ConcatAssociative
<1>5. (Append(b, Head(e)) \o <<>>) \o Tail(e) = (b \o <<>>) \o e
  BY <1>1, <1>3, <1>4
<1> QED
  BY <1>5 DEF Line

LEMMA LineEmits ==
  ASSUME NEW b \in Seq(Actions), NEW l \in Seq(Actions), NEW e \in Seq(Actions),
         NEW o \in Seq(Actions), o # <<>>
  PROVE  Line(b, l, Append(e, Head(o)), Tail(o)) = Line(b, l, e, o)
<1>1. Head(o) \in Actions /\ Tail(o) \in Seq(Actions) /\ o = <<Head(o)>> \o Tail(o)
  BY HeadAndTail
<1>2. <<Head(o)>> \in Seq(Actions) /\ Append(e, Head(o)) = e \o <<Head(o)>>
  BY <1>1, AppendIsConcat
<1> DEFINE h == <<Head(o)>>
           t == Tail(o)
<1> HIDE DEF h, t
<1>3. /\ h \in Seq(Actions) /\ t \in Seq(Actions)
      /\ o = Cat(h, t) /\ Append(e, Head(o)) = Cat(e, h)
  BY <1>1, <1>2 DEF h, t, Cat
<1>4. Cat(b, l) \in Seq(Actions) /\ Cat(Cat(b, l), e) \in Seq(Actions)
  BY CatType
<1>5. Cat(Cat(b, l), Cat(e, h)) = Cat(Cat(Cat(b, l), e), h)
  BY <1>3, <1>4, Regroup
<1>6. Cat(Cat(Cat(Cat(b, l), e), h), t) = Cat(Cat(Cat(b, l), e), Cat(h, t))
  BY <1>3, <1>4, Regroup
<1>7. Cat(Cat(Cat(b, l), Append(e, Head(o))), t) = Cat(Cat(Cat(b, l), e), o)
  BY <1>3, <1>5, <1>6
<1> QED
  BY <1>7 DEF Line, Cat, t

(* What the backend has to say comes last.                                   *)
LEMMA LineGrows ==
  ASSUME NEW b, NEW l, NEW e, NEW x, Four(b, l, e, x)
  PROVE  Line(b, l, e, x) = Line(b, l, e, <<>>) \o x
<1>1. (b \o l) \o e \in Seq(Actions)
  BY ConcatProperties DEF Four
<1> QED
  BY <1>1, ConcatEmptySeq DEF Line

LEMMA LineQueues ==
  ASSUME NEW b, NEW l, NEW e, Four(b, l, e, <<>>), NEW a \in Actions
  PROVE  Line(b, l, Append(e, a), <<>>) = Line(b, l, e, <<>>) \o <<a>>
<1>0. b \in Seq(Actions) /\ l \in Seq(Actions) /\ e \in Seq(Actions)
  BY DEF Four
<1>1. <<a>> \in Seq(Actions) /\ Append(e, a) = e \o <<a>>
  BY <1>0, AppendIsConcat
<1>2. b \o l \in Seq(Actions) /\ (b \o l) \o e \in Seq(Actions)
  BY <1>0, ConcatProperties
<1>3. (b \o l) \o (e \o <<a>>) = ((b \o l) \o e) \o <<a>>
  <2> DEFINE f == b \o l
             h == <<a>>
  <2>1. f \in Seq(Actions) /\ h \in Seq(Actions)
    BY <1>1, <1>2
  <2> HIDE DEF f, h
  <2>2. Cat(Cat(f, e), h) = Cat(f, Cat(e, h))
    BY <1>0, <2>1, Regroup
  <2> QED
    BY <2>2 DEF Cat, f, h
<1>4. ((b \o l) \o e) \o <<a>> \in Seq(Actions)
  BY <1>1, <1>2, ConcatProperties
<1> QED
  BY <1>1, <1>2, <1>3, <1>4, ConcatEmptySeq DEF Line

(* A loss slips in before the queue.                                         *)
LEMMA LineSlips ==
  ASSUME NEW b \in Seq(Actions), NEW x \in Actions, NEW e \in Seq(Actions)
  PROVE  /\ Line(b, <<>>, e, <<>>) = b \o e
         /\ Line(b, <<x>>, e, <<>>) = b \o (<<x>> \o e)
<1>1. <<x>> \in Seq(Actions) /\ b \o <<>> = b /\ b \o e \in Seq(Actions) /\ b \o <<x>> \in Seq(Actions)
  BY ConcatProperties, ConcatEmptySeq
<1>2. (b \o <<x>>) \o e = b \o (<<x>> \o e) /\ (b \o <<x>>) \o e \in Seq(Actions)
  BY <1>1, ConcatAssociative, ConcatProperties
<1> QED
  BY <1>1, <1>2, ConcatEmptySeq DEF Line

(* The reducer takes the first.                                              *)
LEMMA LineTakes ==
  ASSUME NEW b, b # <<>>, NEW l, NEW e, NEW o, Four(b, l, e, o)
  PROVE  Line(b, l, e, o) = <<Head(b)>> \o Line(Tail(b), l, e, o)
<1>0. b \in Seq(Actions) /\ l \in Seq(Actions) /\ e \in Seq(Actions) /\ o \in Seq(Actions)
  BY DEF Four
<1> DEFINE h == <<Head(b)>>
           t == Tail(b)
<1>1. t \in Seq(Actions) /\ h \in Seq(Actions) /\ b = h \o t
  BY <1>0, HeadAndTail
<1> HIDE DEF h, t
<1>2. b = Cat(h, t) /\ h \in Seq(Actions) /\ t \in Seq(Actions)
  BY <1>1 DEF Cat
<1>3. Cat(t, l) \in Seq(Actions) /\ Cat(Cat(t, l), e) \in Seq(Actions)
  BY <1>0, <1>2, CatType
<1>4. Cat(b, l) = Cat(h, Cat(t, l))
  BY <1>0, <1>2, Regroup
<1>5. Cat(Cat(h, Cat(t, l)), e) = Cat(h, Cat(Cat(t, l), e))
  BY <1>0, <1>2, <1>3, Regroup
<1>6. Cat(Cat(h, Cat(Cat(t, l), e)), o) = Cat(h, Cat(Cat(Cat(t, l), e), o))
  BY <1>0, <1>2, <1>3, Regroup
<1>7. Cat(Cat(Cat(b, l), e), o) = Cat(h, Cat(Cat(Cat(t, l), e), o))
  BY <1>4, <1>5, <1>6
<1> QED
  BY <1>7 DEF Line, Cat, h, t
-----------------------------------------------------------------------------
(* How these judgements change with the stream: when more comes behind it,   *)
(* when its first is taken, and when a loss slips in.                        *)
LEMMA MoreCarries ==
  ASSUME NEW s \in Seq(Actions), NEW x \in Seq(Actions), NEW kinds
  PROVE  Carries(s \o x, kinds) <=> Carries(s, kinds) \/ Carries(x, kinds)
<1>1. ASSUME Carries(s, kinds) PROVE Carries(s \o x, kinds)
  <2>1. PICK i \in DOMAIN s : s[i].kind \in kinds
    BY <1>1 DEF Carries
  <2>2. i \in DOMAIN (s \o x) /\ (s \o x)[i] = s[i]
    BY Behind
  <2> QED
    BY <2>1, <2>2 DEF Carries
<1>2. ASSUME Carries(x, kinds) PROVE Carries(s \o x, kinds)
  <2>1. PICK i \in 1..Len(x) : x[i].kind \in kinds
    BY <1>2, Behind DEF Carries
  <2>2. Len(s) + i \in DOMAIN (s \o x) /\ (s \o x)[Len(s) + i] = x[i]
    BY <2>1, Behind
  <2> QED
    BY <2>1, <2>2 DEF Carries
<1>3. ASSUME Carries(s \o x, kinds) PROVE Carries(s, kinds) \/ Carries(x, kinds)
  <2>1. PICK i \in 1..(Len(s) + Len(x)) : (s \o x)[i].kind \in kinds
    BY <1>3, Behind DEF Carries
  <2>2. CASE i <= Len(s)
    BY <2>1, <2>2, Behind DEF Carries
  <2>3. CASE i > Len(s)
    <3>1. i - Len(s) \in 1..Len(x) /\ i = Len(s) + (i - Len(s))
      BY <2>1, <2>3, Behind
    <3>2. x[i - Len(s)].kind \in kinds
      BY <2>1, <3>1, Behind
    <3> QED
      BY <3>1, <3>2, Behind DEF Carries
  <2> QED
    BY <2>1, <2>2, <2>3, Behind
<1> QED
  BY <1>1, <1>2, <1>3

LEMMA TakenCarries ==
  ASSUME NEW h \in Actions, NEW s \in Seq(Actions), NEW kinds
  PROVE  Carries(<<h>> \o s, kinds) <=> h.kind \in kinds \/ Carries(s, kinds)
<1>1. <<h>> \in Seq(Actions) /\ DOMAIN <<h>> = {1} /\ <<h>>[1] = h
  OBVIOUS
<1>2. Carries(<<h>>, kinds) <=> h.kind \in kinds
  BY <1>1 DEF Carries
<1> QED
  BY <1>1, <1>2, MoreCarries

LEMMA MoreMadeGood ==
  ASSUME NEW s \in Seq(Actions), NEW x \in Seq(Actions), MadeGood(s),
         ~Carries(x, {"lost", "restartFailed"})
  PROVE  MadeGood(s \o x)
<1> SUFFICES ASSUME NEW i \in DOMAIN (s \o x),
                    (s \o x)[i].kind \in {"lost", "restartFailed"}
             PROVE  \E j \in DOMAIN (s \o x) : j > i /\ (s \o x)[j].kind = "connected"
  BY DEF MadeGood
<1>1. i \in 1..(Len(s) + Len(x)) /\ Len(s) \in Nat /\ Len(x) \in Nat
  BY Behind
<1>2. CASE i <= Len(s)
  <2>1. i \in 1..Len(s) /\ (s \o x)[i] = s[i]
    BY <1>1, <1>2, Behind
  <2>2. PICK j \in 1..Len(s) : j > i /\ s[j].kind = "connected"
    BY <2>1, Behind DEF MadeGood
  <2>3. j \in DOMAIN (s \o x) /\ (s \o x)[j] = s[j]
    BY <2>2, Behind
  <2> QED
    BY <2>2, <2>3
<1>3. CASE i > Len(s)
  <2>1. i - Len(s) \in 1..Len(x) /\ i = Len(s) + (i - Len(s))
    BY <1>1, <1>3
  <2>2. x[i - Len(s)].kind \in {"lost", "restartFailed"} /\ i - Len(s) \in DOMAIN x
    BY <2>1, Behind
  <2> QED
    BY <2>2 DEF Carries
<1> QED
  BY <1>1, <1>2, <1>3

(* A connection at the end makes good whatever came before.                  *)
LEMMA ConnectedMakesGood ==
  ASSUME NEW s \in Seq(Actions), NEW x \in Seq(Actions), x # <<>>,
         x[Len(x)].kind = "connected", ~Carries(x, {"lost", "restartFailed"})
  PROVE  MadeGood(s \o x)
<1> SUFFICES ASSUME NEW i \in DOMAIN (s \o x),
                    (s \o x)[i].kind \in {"lost", "restartFailed"}
             PROVE  \E j \in DOMAIN (s \o x) : j > i /\ (s \o x)[j].kind = "connected"
  BY DEF MadeGood
<1>1. i \in 1..(Len(s) + Len(x)) /\ Len(s) \in Nat /\ Len(x) \in Nat \ {0}
  BY Behind, EmptySeq
<1>2. i <= Len(s)
  <2> SUFFICES ASSUME i > Len(s) PROVE FALSE
    BY <1>1
  <2>1. i - Len(s) \in 1..Len(x) /\ i = Len(s) + (i - Len(s))
    BY <1>1
  <2>2. x[i - Len(s)].kind \in {"lost", "restartFailed"} /\ i - Len(s) \in DOMAIN x
    BY <2>1, Behind
  <2> QED
    BY <2>2 DEF Carries
<1>3. Len(x) \in 1..Len(x)
  BY <1>1
<1>4. (s \o x)[Len(s) + Len(x)] = x[Len(x)] /\ Len(s) + Len(x) \in DOMAIN (s \o x)
  BY <1>1, <1>3, Behind
<1>5. Len(s) + Len(x) > i
  BY <1>1, <1>2
<1> QED
  BY <1>4, <1>5

LEMMA TakenMadeGood ==
  ASSUME NEW h \in Actions, NEW s \in Seq(Actions), MadeGood(<<h>> \o s)
  PROVE  /\ MadeGood(s)
         /\ h.kind \in {"lost", "restartFailed"} => Carries(s, {"connected"})
<1> DEFINE t == <<h>> \o s
<1>1. /\ Len(s) \in Nat /\ DOMAIN t = 1..(Len(s) + 1) /\ DOMAIN s = 1..Len(s) /\ t[1] = h
      /\ \A i \in 1..Len(s) : t[i + 1] = s[i]
  BY Before
<1>2. \A i \in DOMAIN t : t[i].kind \in {"lost", "restartFailed"} =>
            \E j \in DOMAIN t : j > i /\ t[j].kind = "connected"
  BY DEF MadeGood
<1> HIDE DEF t
<1>3. ASSUME NEW i \in 0..Len(s), t[i + 1].kind \in {"lost", "restartFailed"}
      PROVE  \E j \in 1..Len(s) : j > i /\ s[j].kind = "connected"
  <2>1. i + 1 \in DOMAIN t
    BY <1>1
  <2>2. PICK j \in DOMAIN t : j > i + 1 /\ t[j].kind = "connected"
    BY <1>2, <1>3, <2>1
  <2>3. j - 1 \in 1..Len(s) /\ j - 1 > i /\ t[(j - 1) + 1] = s[j - 1] /\ (j - 1) + 1 = j
    BY <1>1, <2>2
  <2> QED
    BY <2>2, <2>3
<1>4. ASSUME NEW i \in 1..Len(s), s[i].kind \in {"lost", "restartFailed"}
      PROVE  \E j \in 1..Len(s) : j > i /\ s[j].kind = "connected"
  <2>1. i \in 0..Len(s) /\ t[i + 1].kind \in {"lost", "restartFailed"}
    BY <1>1, <1>4
  <2> QED
    BY <1>3, <2>1
<1>5. h.kind \in {"lost", "restartFailed"} => Carries(s, {"connected"})
  <2> SUFFICES ASSUME h.kind \in {"lost", "restartFailed"} PROVE Carries(s, {"connected"})
    OBVIOUS
  <2>1. 0 \in 0..Len(s) /\ t[0 + 1].kind \in {"lost", "restartFailed"}
    BY <1>1
  <2>2. PICK j \in 1..Len(s) : j > 0 /\ s[j].kind = "connected"
    BY <1>3, <2>1
  <2> QED
    BY <1>1, <2>2 DEF Carries
<1> QED
  BY <1>1, <1>4, <1>5 DEF MadeGood

LEMMA MoreSettles ==
  ASSUME NEW s \in Seq(Actions), NEW x \in Seq(Actions), NEW i \in 0..Len(s), Settles(s, i)
  PROVE  Settles(s \o x, i)
<1>1. PICK k \in 1..Len(s) :
        /\ k > i
        /\ s[k].kind \in {"connected", "failed"} \/ (s[k].kind = "restartFailed" /\ CalmBetween(s, i, k))
  BY Behind DEF Settles
<1>2. k \in DOMAIN (s \o x) /\ (s \o x)[k] = s[k]
  BY <1>1, Behind
<1>3. CalmBetween(s, i, k) => CalmBetween(s \o x, i, k)
  <2> SUFFICES ASSUME CalmBetween(s, i, k), NEW j \in DOMAIN (s \o x), i < j, j < k
               PROVE  (s \o x)[j].kind \notin {"lost", "account"}
    BY DEF CalmBetween
  <2>1. j \in 1..Len(s) /\ j \in DOMAIN s /\ (s \o x)[j] = s[j]
    BY <1>1, Behind
  <2> QED
    BY <2>1 DEF CalmBetween
<1> QED
  BY <1>1, <1>2, <1>3 DEF Settles

LEMMA MoreCalm ==
  ASSUME NEW s \in Seq(Actions), NEW x \in Seq(Actions), NEW i \in 0..Len(s), CalmAfter(s, i),
         ~Carries(x, {"lost", "account"})
  PROVE  CalmAfter(s \o x, i)
<1> SUFFICES ASSUME NEW j \in DOMAIN (s \o x), i < j
             PROVE  (s \o x)[j].kind \notin {"lost", "account"}
  BY DEF CalmAfter
<1>1. j \in 1..(Len(s) + Len(x)) /\ Len(s) \in Nat /\ Len(x) \in Nat
  BY Behind
<1>2. CASE j <= Len(s)
  <2>1. j \in DOMAIN s /\ (s \o x)[j] = s[j]
    BY <1>1, <1>2, Behind
  <2> QED
    BY <2>1 DEF CalmAfter
<1>3. CASE j > Len(s)
  <2>1. j - Len(s) \in 1..Len(x) /\ j = Len(s) + (j - Len(s))
    BY <1>1, <1>3
  <2>2. (s \o x)[j] = x[j - Len(s)] /\ j - Len(s) \in DOMAIN x
    BY <2>1, Behind
  <2> QED
    BY <2>2 DEF Carries
<1> QED
  BY <1>1, <1>2, <1>3

(* A restart that is over without a loss in between is reported in time.     *)
LEMMA ReportSettles ==
  ASSUME NEW s \in Seq(Actions), NEW a \in Actions, NEW i \in 0..Len(s), CalmAfter(s, i),
         a.kind = "restartFailed"
  PROVE  Settles(s \o <<a>>, i)
<1> DEFINE t == s \o <<a>>
<1>1. /\ Len(s) \in Nat /\ DOMAIN t = 1..(Len(s) + 1) /\ DOMAIN s = 1..Len(s)
      /\ t[Len(s) + 1] = a /\ \A j \in 1..Len(s) : t[j] = s[j]
  <2>1. <<a>> \in Seq(Actions) /\ Len(<<a>>) = 1 /\ <<a>>[1] = a /\ 1 \in 1..Len(<<a>>)
    OBVIOUS
  <2> QED
    BY <2>1, Behind
<1> HIDE DEF t
<1>2. CalmBetween(t, i, Len(s) + 1)
  BY <1>1 DEF CalmBetween, CalmAfter
<1>3. Settles(t, i)
  BY <1>1, <1>2 DEF Settles
<1> QED
  BY <1>3 DEF t

LEMMA ConnectedSettles ==
  ASSUME NEW s \in Seq(Actions), NEW x \in Seq(Actions), NEW i \in 0..Len(s),
         Carries(x, {"connected", "failed"})
  PROVE  Settles(s \o x, i)
<1>1. PICK k \in 1..Len(x) : x[k].kind \in {"connected", "failed"}
  BY Behind DEF Carries
<1>2. Len(s) + k \in DOMAIN (s \o x) /\ (s \o x)[Len(s) + k] = x[k] /\ Len(s) + k > i
  BY <1>1, Behind
<1> QED
  BY <1>1, <1>2 DEF Settles

(* The first is taken. *)
LEMMA TakenEnds ==
  ASSUME NEW h \in Actions, NEW s \in Seq(Actions), NEW i \in 0..Len(s), NEW going,
         Ends(<<h>> \o s, i + 1, going)
  PROVE  Ends(s, i, going)
<1> DEFINE t == <<h>> \o s
<1>1. /\ Len(s) \in Nat /\ DOMAIN t = 1..(Len(s) + 1) /\ DOMAIN s = 1..Len(s)
      /\ \A j \in 1..Len(s) : t[j + 1] = s[j]
  BY Before
<1>2. Ends(t, i + 1, going)
  OBVIOUS
<1> HIDE DEF t
<1>3. \A j \in 1..Len(s) : j + 1 \in DOMAIN t
  BY <1>1
<1>4. CASE Settles(t, i + 1)
  <2>1. PICK k \in DOMAIN t :
          /\ k > i + 1
          /\ \/ t[k].kind \in {"connected", "failed"}
             \/ t[k].kind = "restartFailed" /\ CalmBetween(t, i + 1, k)
    BY <1>4 DEF Settles
  <2>2. k - 1 \in 1..Len(s) /\ k - 1 > i /\ s[k - 1] = t[k]
    <3>1. k - 1 \in 1..Len(s) /\ (k - 1) + 1 = k
      BY <1>1, <2>1
    <3> QED
      BY <1>1, <2>1, <3>1
  <2>3. CalmBetween(t, i + 1, k) => CalmBetween(s, i, k - 1)
    <3> SUFFICES ASSUME CalmBetween(t, i + 1, k), NEW j \in 1..Len(s), i < j, j < k - 1
                 PROVE  s[j].kind \notin {"lost", "account"}
      BY <1>1 DEF CalmBetween
    <3>1. j + 1 \in DOMAIN t /\ i + 1 < j + 1 /\ j + 1 < k /\ t[j + 1] = s[j]
      BY <1>1, <1>3, <2>1
    <3> QED
      BY <3>1 DEF CalmBetween
  <2> QED
    BY <1>1, <2>1, <2>2, <2>3 DEF Ends, Settles
<1>5. CASE going /\ CalmAfter(t, i + 1)
  <2>1. CalmAfter(s, i)
    BY <1>1, <1>3, <1>5 DEF CalmAfter
  <2> QED
    BY <1>5, <2>1 DEF Ends
<1> QED
  BY <1>2, <1>4, <1>5 DEF Ends

LEMMA FirstEnds ==
  ASSUME NEW h \in Actions, NEW s \in Seq(Actions), NEW going, Ends(<<h>> \o s, 0, going)
  PROVE  \/ h.kind \in {"connected", "failed", "restartFailed"}
         \/ Carries(s, {"connected", "failed"})
         \/ h.kind \notin {"lost", "account"} /\ Ends(s, 0, going)
<1> DEFINE t == <<h>> \o s
<1>1. /\ Len(s) \in Nat /\ DOMAIN t = 1..(Len(s) + 1) /\ DOMAIN s = 1..Len(s)
      /\ t[1] = h /\ \A j \in 1..Len(s) : t[j + 1] = s[j]
  BY Before
<1>2. Ends(t, 0, going)
  OBVIOUS
<1>3. Ends(t, 1, going) => Ends(s, 0, going)
  <2>1. 0 \in 0..Len(s) /\ 0 + 1 = 1
    BY <1>1
  <2> QED
    BY <2>1, TakenEnds
<1> HIDE DEF t
<1>4. CASE Settles(t, 0)
  <2>1. PICK k \in DOMAIN t :
          /\ k > 0
          /\ \/ t[k].kind \in {"connected", "failed"}
             \/ t[k].kind = "restartFailed" /\ CalmBetween(t, 0, k)
    BY <1>4 DEF Settles
  <2>2. CASE k = 1
    BY <1>1, <2>1, <2>2
  <2>3. CASE k # 1
    <3>1. k - 1 \in 1..Len(s) /\ (k - 1) + 1 = k
      BY <1>1, <2>1, <2>3
    <3>2. s[k - 1] = t[k]
      BY <1>1, <3>1
    <3>3. t[k].kind \in {"connected", "failed"} => Carries(s, {"connected", "failed"})
      BY <1>1, <3>1, <3>2 DEF Carries
    <3>4. ASSUME t[k].kind = "restartFailed", CalmBetween(t, 0, k)
          PROVE  h.kind \notin {"lost", "account"} /\ Ends(s, 0, going)
      <4>1. CalmBetween(t, 1, k) /\ k > 1
        BY <1>1, <2>1, <2>3, <3>4 DEF CalmBetween
      <4>2. h.kind \notin {"lost", "account"}
        BY <1>1, <2>1, <2>3, <3>4 DEF CalmBetween
      <4>3. Ends(t, 1, going)
        BY <2>1, <3>4, <4>1 DEF Ends, Settles
      <4> QED
        BY <1>3, <4>2, <4>3
    <3> QED
      BY <2>1, <3>3, <3>4
  <2> QED
    BY <2>2, <2>3
<1>5. CASE going /\ CalmAfter(t, 0)
  <2>1. h.kind \notin {"lost", "account"} /\ CalmAfter(t, 1)
    BY <1>1, <1>5 DEF CalmAfter
  <2> QED
    BY <1>3, <1>5, <2>1 DEF Ends
<1> QED
  BY <1>2, <1>4, <1>5 DEF Ends

(* What the places of accepted sign-ins have behind them, for the changes of *)
(* the stream.                                                               *)
LEMMA MoreSignIns ==
  ASSUME NEW s \in Seq(Actions), NEW x \in Seq(Actions), NEW before, NEW now,
         SignInsEnd(s, before), ~Carries(x, {"loginAccepted"}),
         \A i \in 0..Len(s) : Ends(s, i, before) => Ends(s \o x, i, now)
  PROVE  SignInsEnd(s \o x, now)
<1> SUFFICES ASSUME NEW i \in DOMAIN (s \o x), (s \o x)[i].kind = "loginAccepted"
             PROVE  Ends(s \o x, i, now)
  BY DEF SignInsEnd
<1>1. i \in 1..(Len(s) + Len(x)) /\ Len(s) \in Nat /\ Len(x) \in Nat
  BY Behind
<1>2. i <= Len(s)
  <2> SUFFICES ASSUME i > Len(s) PROVE FALSE
    BY <1>1
  <2>1. i - Len(s) \in 1..Len(x) /\ i = Len(s) + (i - Len(s))
    BY <1>1
  <2>2. x[i - Len(s)].kind = "loginAccepted" /\ i - Len(s) \in DOMAIN x
    BY <2>1, Behind
  <2> QED
    BY <2>2 DEF Carries
<1>3. i \in DOMAIN s /\ s[i].kind = "loginAccepted" /\ i \in 0..Len(s)
  BY <1>1, <1>2, Behind
<1> QED
  BY <1>3 DEF SignInsEnd

LEMMA AcceptedSignIn ==
  ASSUME NEW s \in Seq(Actions), NEW a \in Actions, a.kind = "loginAccepted",
         NEW before, NEW now, now, SignInsEnd(s, before),
         \A i \in 0..Len(s) : Ends(s, i, before) => Ends(s \o <<a>>, i, now)
  PROVE  SignInsEnd(s \o <<a>>, now)
<1> DEFINE t == s \o <<a>>
<1>1. /\ Len(s) \in Nat /\ DOMAIN t = 1..(Len(s) + 1) /\ DOMAIN s = 1..Len(s)
      /\ t[Len(s) + 1] = a /\ \A j \in 1..Len(s) : t[j] = s[j]
  <2>1. <<a>> \in Seq(Actions) /\ Len(<<a>>) = 1 /\ <<a>>[1] = a /\ 1 \in 1..Len(<<a>>)
    OBVIOUS
  <2> QED
    BY <2>1, Behind
<1>2. \A i \in 0..Len(s) : Ends(s, i, before) => Ends(t, i, now)
  OBVIOUS
<1> HIDE DEF t
<1>3. Ends(t, Len(s) + 1, now)
  BY <1>1 DEF Ends, CalmAfter
<1>4. ASSUME NEW i \in 1..Len(s), t[i].kind = "loginAccepted" PROVE Ends(t, i, now)
  <2>1. i \in DOMAIN s /\ s[i].kind = "loginAccepted" /\ i \in 0..Len(s)
    BY <1>1, <1>4
  <2>2. Ends(s, i, before)
    BY <2>1 DEF SignInsEnd
  <2> QED
    BY <1>2, <2>1, <2>2
<1>5. SignInsEnd(t, now)
  <2> SUFFICES ASSUME NEW i \in DOMAIN t, t[i].kind = "loginAccepted" PROVE Ends(t, i, now)
    BY DEF SignInsEnd
  <2>1. CASE i = Len(s) + 1
    BY <1>3, <2>1
  <2>2. CASE i # Len(s) + 1
    <3>1. i \in 1..Len(s)
      BY <1>1, <2>2
    <3> QED
      BY <1>4, <3>1
  <2> QED
    BY <2>1, <2>2
<1> QED
  BY <1>5 DEF t

LEMMA TakenSignIns ==
  ASSUME NEW h \in Actions, NEW s \in Seq(Actions), NEW going, SignInsEnd(<<h>> \o s, going)
  PROVE  /\ SignInsEnd(s, going)
         /\ h.kind = "loginAccepted" => Ends(s, 0, going)
<1>1. /\ Len(s) \in Nat /\ DOMAIN (<<h>> \o s) = 1..(Len(s) + 1) /\ DOMAIN s = 1..Len(s)
      /\ (<<h>> \o s)[1] = h /\ \A j \in 1..Len(s) : (<<h>> \o s)[j + 1] = s[j]
  BY Before
<1>2. ASSUME NEW i \in 1..Len(s), s[i].kind = "loginAccepted" PROVE Ends(s, i, going)
  <2>1. i + 1 \in DOMAIN (<<h>> \o s) /\ (<<h>> \o s)[i + 1].kind = "loginAccepted"
    BY <1>1, <1>2
  <2>2. Ends(<<h>> \o s, i + 1, going) /\ i \in 0..Len(s)
    BY <1>1, <2>1 DEF SignInsEnd
  <2> QED
    BY <2>2, TakenEnds
<1>3. ASSUME h.kind = "loginAccepted" PROVE Ends(s, 0, going)
  <2>1. 1 \in DOMAIN (<<h>> \o s) /\ (<<h>> \o s)[1].kind = "loginAccepted"
    BY <1>1, <1>3
  <2>2. Ends(<<h>> \o s, 1, going) /\ 0 \in 0..Len(s) /\ 0 + 1 = 1
    BY <1>1, <2>1 DEF SignInsEnd
  <2> QED
    BY <2>2, TakenEnds
<1> QED
  BY <1>1, <1>2, <1>3 DEF SignInsEnd

(* What settles for good is a connection made, or reported as failed.        *)
LEMMA GoodSettles ==
  ASSUME NEW s \in Seq(Actions), NEW i \in 0..Len(s), Settles(s, i), MadeGood(s)
  PROVE  \E k \in 1..Len(s) : k > i /\ s[k].kind \in {"connected", "failed"}
<1>1. DOMAIN s = 1..Len(s) /\ Len(s) \in Nat
  BY LenProperties
<1>2. PICK k \in 1..Len(s) : k > i /\ s[k].kind \in {"connected", "failed", "restartFailed"}
  BY <1>1 DEF Settles
<1>3. CASE s[k].kind = "restartFailed"
  <2>1. PICK j \in 1..Len(s) : j > k /\ s[j].kind = "connected"
    BY <1>1, <1>3 DEF MadeGood
  <2> QED
    BY <1>1, <1>2, <2>1
<1> QED
  BY <1>2, <1>3

(* A loss slips in: the places behind it move by one. *)
LEMMA Slip ==
  ASSUME NEW l \in Seq(Actions), NEW x \in Actions, NEW r \in Seq(Actions)
  PROVE  /\ l \o r \in Seq(Actions) /\ l \o (<<x>> \o r) \in Seq(Actions)
         /\ Len(l) \in Nat /\ Len(r) \in Nat
         /\ Len(l \o r) = Len(l) + Len(r)
         /\ DOMAIN (l \o r) = 1..(Len(l) + Len(r))
         /\ DOMAIN (l \o (<<x>> \o r)) = 1..(Len(l) + Len(r) + 1)
         /\ \A i \in 1..Len(l) : (l \o (<<x>> \o r))[i] = (l \o r)[i]
         /\ (l \o (<<x>> \o r))[Len(l) + 1] = x
         /\ \A i \in (Len(l) + 1)..(Len(l) + Len(r)) :
                (l \o (<<x>> \o r))[i + 1] = (l \o r)[i]
<1> DEFINE y == <<x>> \o r
<1>1. /\ y \in Seq(Actions) /\ Len(y) = Len(r) + 1 /\ y[1] = x /\ Len(r) \in Nat
      /\ \A i \in 1..Len(r) : y[i + 1] = r[i]
  BY Before
<1> HIDE DEF y
<1>2. /\ l \o r \in Seq(Actions) /\ Len(l \o r) = Len(l) + Len(r) /\ Len(l) \in Nat
      /\ DOMAIN (l \o r) = 1..(Len(l) + Len(r))
      /\ \A i \in 1..Len(l) : (l \o r)[i] = l[i]
      /\ \A i \in 1..Len(r) : (l \o r)[Len(l) + i] = r[i]
  BY Behind
<1>7. y \in Seq(Actions)
  BY <1>1
<1>3. /\ l \o y \in Seq(Actions) /\ DOMAIN (l \o y) = 1..(Len(l) + Len(y))
      /\ \A i \in 1..Len(l) : (l \o y)[i] = l[i]
      /\ \A i \in 1..Len(y) : (l \o y)[Len(l) + i] = y[i]
  BY <1>7, Behind
<1>4. ASSUME NEW i \in (Len(l) + 1)..(Len(l) + Len(r)) PROVE (l \o y)[i + 1] = (l \o r)[i]
  <2>1. i - Len(l) \in 1..Len(r) /\ Len(l) + (i - Len(l)) = i
    BY <1>1, <1>2
  <2>2. (i - Len(l)) + 1 \in 1..Len(y) /\ Len(l) + ((i - Len(l)) + 1) = i + 1
    BY <1>1, <2>1
  <2>3. (l \o r)[i] = r[i - Len(l)]
    BY <1>2, <2>1
  <2>4. (l \o y)[i + 1] = y[(i - Len(l)) + 1]
    BY <1>3, <2>2
  <2> QED
    BY <1>1, <2>1, <2>3, <2>4
<1>5. DOMAIN (l \o y) = 1..(Len(l) + Len(r) + 1)
  BY <1>1, <1>2, <1>3
<1>6. (l \o y)[Len(l) + 1] = x
  BY <1>1, <1>3
<1> QED
  BY <1>1, <1>2, <1>3, <1>4, <1>5, <1>6 DEF y

LEMMA SlipCarries ==
  ASSUME NEW l \in Seq(Actions), NEW x \in Actions, NEW r \in Seq(Actions), NEW kinds
  PROVE  Carries(l \o (<<x>> \o r), kinds) <=> Carries(l \o r, kinds) \/ x.kind \in kinds
<1>1. <<x>> \o r \in Seq(Actions)
  BY Before
<1> QED
  BY <1>1, MoreCarries, TakenCarries

LEMMA SlipSignIns ==
  ASSUME NEW l \in Seq(Actions), NEW x \in Actions, NEW r \in Seq(Actions),
         x.kind # "loginAccepted", MadeGood(l \o r), NEW before, ~before, NEW now,
         SignInsEnd(l \o r, before)
  PROVE  SignInsEnd(l \o (<<x>> \o r), now)
<1> DEFINE s == l \o r
           t == l \o (<<x>> \o r)
<1>1. /\ s \in Seq(Actions) /\ Len(l) \in Nat /\ Len(r) \in Nat
      /\ Len(s) = Len(l) + Len(r)
      /\ DOMAIN s = 1..Len(s) /\ DOMAIN t = 1..(Len(s) + 1)
      /\ \A i \in 1..Len(l) : t[i] = s[i]
      /\ t[Len(l) + 1] = x
      /\ \A i \in (Len(l) + 1)..Len(s) : t[i + 1] = s[i]
  BY Slip
<1>2. MadeGood(s) /\ SignInsEnd(s, before)
  OBVIOUS
<1> HIDE DEF s, t
<1> DEFINE old(i) == IF i <= Len(l) THEN i ELSE i - 1
<1> SUFFICES ASSUME NEW i \in DOMAIN t, t[i].kind = "loginAccepted" PROVE Settles(t, i)
  BY DEF SignInsEnd, Ends, t
<1>3. i # Len(l) + 1 /\ old(i) \in 1..Len(s) /\ t[i] = s[old(i)]
  <2>1. i # Len(l) + 1 /\ i \in 1..(Len(s) + 1)
    BY <1>1
  <2>2. CASE i <= Len(l)
    BY <1>1, <2>1, <2>2
  <2>3. CASE i > Len(l) + 1
    <3>1. i - 1 \in (Len(l) + 1)..Len(s) /\ (i - 1) + 1 = i
      BY <1>1, <2>1, <2>3
    <3> QED
      BY <1>1, <2>3, <3>1
  <2> QED
    BY <1>1, <2>1, <2>2, <2>3
<1>4. Settles(s, old(i)) /\ old(i) \in 0..Len(s)
  BY <1>1, <1>2, <1>3 DEF SignInsEnd, Ends
<1>5. PICK k \in 1..Len(s) : k > old(i) /\ s[k].kind \in {"connected", "failed"}
  BY <1>1, <1>2, <1>4, GoodSettles
<1>6. CASE k <= Len(l)
  BY <1>1, <1>3, <1>5, <1>6 DEF Settles
<1>7. CASE k > Len(l)
  <2>1. k \in (Len(l) + 1)..Len(s) /\ k + 1 \in DOMAIN t /\ k + 1 > i
    BY <1>1, <1>3, <1>5, <1>7
  <2>2. t[k + 1] = s[k]
    BY <1>1, <2>1
  <2> QED
    BY <1>5, <2>1, <2>2 DEF Settles
<1> QED
  BY <1>1, <1>6, <1>7

(* Answers to sign-ins. *)
LEMMA MoreAnswers ==
  ASSUME NEW s \in Seq(Actions), NEW x \in Seq(Actions), AtMostOneAnswer(s),
         ~Carries(x, Answers)
  PROVE  AtMostOneAnswer(s \o x)
<1>1. ASSUME NEW i \in DOMAIN (s \o x), (s \o x)[i].kind \in Answers
      PROVE  i \in 1..Len(s) /\ i \in DOMAIN s /\ (s \o x)[i] = s[i]
  <2>1. i \in 1..(Len(s) + Len(x)) /\ Len(s) \in Nat /\ Len(x) \in Nat
    BY Behind
  <2>2. i <= Len(s)
    <3> SUFFICES ASSUME i > Len(s) PROVE FALSE
      BY <2>1
    <3>1. i - Len(s) \in 1..Len(x) /\ i = Len(s) + (i - Len(s))
      BY <2>1
    <3>2. x[i - Len(s)].kind \in Answers /\ i - Len(s) \in DOMAIN x
      BY <1>1, <3>1, Behind
    <3> QED
      BY <3>2 DEF Carries
  <2> QED
    BY <2>1, <2>2, Behind
<1> QED
  BY <1>1 DEF AtMostOneAnswer

LEMMA FirstAnswer ==
  ASSUME NEW s \in Seq(Actions), NEW a \in Actions, ~Carries(s, Answers)
  PROVE  AtMostOneAnswer(s \o <<a>>)
<1> DEFINE t == s \o <<a>>
<1>1. /\ Len(s) \in Nat /\ DOMAIN t = 1..(Len(s) + 1) /\ DOMAIN s = 1..Len(s)
      /\ \A j \in 1..Len(s) : t[j] = s[j]
  <2>1. <<a>> \in Seq(Actions) /\ Len(<<a>>) = 1
    OBVIOUS
  <2> QED
    BY <2>1, Behind
<1> HIDE DEF t
<1>2. \A i \in DOMAIN t : t[i].kind \in Answers => i = Len(s) + 1
  BY <1>1 DEF Carries
<1>3. AtMostOneAnswer(t)
  BY <1>2 DEF AtMostOneAnswer
<1> QED
  BY <1>3 DEF t

LEMMA TakenAnswers ==
  ASSUME NEW h \in Actions, NEW s \in Seq(Actions), AtMostOneAnswer(<<h>> \o s)
  PROVE  AtMostOneAnswer(s) /\ (h.kind \in Answers => ~Carries(s, Answers))
<1> DEFINE t == <<h>> \o s
<1>1. /\ Len(s) \in Nat /\ DOMAIN t = 1..(Len(s) + 1) /\ DOMAIN s = 1..Len(s)
      /\ t[1] = h /\ \A j \in 1..Len(s) : t[j + 1] = s[j]
  BY Before
<1>2. \A i, j \in DOMAIN t : t[i].kind \in Answers /\ t[j].kind \in Answers => i = j
  BY DEF AtMostOneAnswer
<1> HIDE DEF t
<1>3. \A i \in 1..Len(s) : i + 1 \in DOMAIN t /\ i + 1 # 1 /\ 1 \in DOMAIN t
  BY <1>1
<1>4. \A i, j \in 1..Len(s) : s[i].kind \in Answers /\ s[j].kind \in Answers => i + 1 = j + 1
  BY <1>1, <1>2, <1>3
<1>5. AtMostOneAnswer(s)
  BY <1>1, <1>4 DEF AtMostOneAnswer
<1>6. h.kind \in Answers => ~Carries(s, Answers)
  BY <1>1, <1>2, <1>3 DEF Carries
<1> QED
  BY <1>5, <1>6

LEMMA SlipAnswers ==
  ASSUME NEW l \in Seq(Actions), NEW x \in Actions, NEW r \in Seq(Actions),
         x.kind \notin Answers, AtMostOneAnswer(l \o r)
  PROVE  AtMostOneAnswer(l \o (<<x>> \o r))
<1> DEFINE s == l \o r
           t == l \o (<<x>> \o r)
<1>1. /\ Len(l) \in Nat /\ Len(r) \in Nat /\ Len(s) = Len(l) + Len(r)
      /\ DOMAIN s = 1..Len(s) /\ DOMAIN t = 1..(Len(s) + 1)
      /\ \A i \in 1..Len(l) : t[i] = s[i]
      /\ t[Len(l) + 1] = x
      /\ \A i \in (Len(l) + 1)..Len(s) : t[i + 1] = s[i]
  BY Slip
<1>2. AtMostOneAnswer(s)
  OBVIOUS
<1> HIDE DEF s, t
<1> DEFINE old(i) == IF i <= Len(l) THEN i ELSE i - 1
<1>3. ASSUME NEW i \in DOMAIN t, t[i].kind \in Answers
      PROVE  i # Len(l) + 1 /\ old(i) \in DOMAIN s /\ t[i] = s[old(i)]
  <2>1. i # Len(l) + 1 /\ i \in 1..(Len(s) + 1)
    BY <1>1, <1>3
  <2>2. CASE i <= Len(l)
    BY <1>1, <2>1, <2>2
  <2>3. CASE i > Len(l) + 1
    <3>1. i - 1 \in (Len(l) + 1)..Len(s) /\ (i - 1) + 1 = i
      BY <1>1, <2>1, <2>3
    <3> QED
      BY <1>1, <2>3, <3>1
  <2> QED
    BY <1>1, <2>1, <2>2, <2>3
<1>4. ASSUME NEW i \in DOMAIN t, NEW j \in DOMAIN t, t[i].kind \in Answers, t[j].kind \in Answers
      PROVE  i = j
  <2>1. old(i) = old(j)
    BY <1>2, <1>3, <1>4 DEF AtMostOneAnswer
  <2> QED
    BY <1>1, <1>3, <1>4, <2>1
<1>5. AtMostOneAnswer(t)
  BY <1>4 DEF AtMostOneAnswer
<1> QED
  BY <1>5 DEF t
-----------------------------------------------------------------------------
(* Types. *)
Counters == {"failures", "deaths", "noise", "user", "logins"}

Scalars ==
    /\ status \in {"connecting", "online", "recovering", "failed"}
    /\ shown \in [attempt : Nat, delay : 0..MaxDelay]
    /\ auth \in {"idle", "submitting", "restarting"}
    /\ ui \in {"idle", "collecting", "dispatching"}
    /\ backend \in {"top", "poll", "closed", "command", "restart", "connect", "emit",
                    "timer", "stopped"}
    /\ after \in {"top", "closed", "timer", "restart", "connect"}
    /\ why \in {"command", "login", "timer"}
    /\ connection \in {"none", "up"} /\ link \in {"alive", "disconnected", "closed"}
    /\ pending \in Nat /\ nextAttempt \in Nat \ {0} /\ nextDelay \in 1..MaxDelay
    /\ count \in [Counters -> Nat]

Flags ==
    /\ profile \in BOOLEAN /\ lossPending \in BOOLEAN /\ dropRequested \in BOOLEAN
    /\ quitting \in BOOLEAN /\ missed \in BOOLEAN

Queues ==
    /\ commands \in Seq(Effects) /\ inbox \in Seq({"semantic", "lossy"})
    /\ events \in Seq(Actions) /\ batch \in Seq(Actions) /\ out \in Seq(Reports)

Bounds ==
    /\ Len(commands) <= CommandCapacity /\ Len(events) <= EventCapacity
    /\ Len(batch) <= BatchLimit /\ Leases(events) + Leases(batch) <= UiByteLimit

(* A thread that collects, dispatches or emits has something to.             *)
Busy ==
    /\ ui = "collecting" => batch # <<>> \/ lossPending \/ events # <<>>
    /\ ui = "dispatching" => batch # <<>>
    /\ backend = "emit" => out # <<>>

Types == Scalars /\ Flags /\ Queues /\ Bounds /\ Busy

LEMMA TypesAreOK == Types => TypeOK
<1> SUFFICES ASSUME Types PROVE TypeOK
  OBVIOUS
<1>1. {profile, lossPending, dropRequested, quitting, missed} \subseteq BOOLEAN
  BY DEF Types, Flags
<1> QED
  BY <1>1 DEF Types, Scalars, Bounds, Busy, TypeOK

LEMMA Constants ==
  /\ CommandCapacity \in Nat \ {0} /\ EventCapacity \in Nat \ {0} /\ UiByteLimit \in Nat \ {0}
  /\ BatchLimit \in Nat \ {0} /\ ConnectEffects \in Nat \ {0} /\ MaxDelay \in Nat \ {0}
  BY CapacityAssumption

LEMMA NoLeases == Leases(<<>>) = 0
<1>1. {i \in DOMAIN <<>> : <<>>[i].kind = "item"} = {}
  BY DEF Leases
<1> QED
  BY <1>1, FS_EmptySet DEF Leases

LEMMA TypesInit == Init => Types
<1> SUFFICES ASSUME Init PROVE Types
  OBVIOUS
<1>1. count \in [Counters -> Nat]
  BY DEF Init, Counters
<1>2. shown \in [attempt : Nat, delay : 0..MaxDelay] /\ nextDelay \in 1..MaxDelay
  BY Constants DEF Init, InitialDelay
<1>3. Scalars
  BY <1>1, <1>2 DEF Init, Scalars
<1>4. Flags
  BY DEF Init, Flags
<1>5. Queues /\ Busy
  BY DEF Init, Queues, Busy, Effects
<1>6. Bounds
  BY <1>5, Constants, NoLeases DEF Init, Bounds
<1> QED
  BY <1>3, <1>4, <1>5, <1>6 DEF Types

LEMMA DoubledType == \A d \in 1..MaxDelay : Doubled(d) \in 1..MaxDelay
  BY Constants DEF Doubled

LEMMA ScheduleType == Scalars => RetryAnnouncement \in Reports
  BY DEF Scalars, RetryAnnouncement, Act, Reports, Actions, ActionKinds

LEMMA ReportType == \A kind \in ActionKinds \ {"item"} : Plain(kind) \in Reports
  BY PlainType DEF Reports

LEMMA CountedType ==
  ASSUME Scalars, NEW what \in Counters, NEW bound, Counted(what, bound)
  PROVE  count' \in [Counters -> Nat]
  BY DEF Scalars, Counted

(* The parts of the backend that say, and go on with, something.             *)
LEMMA ScalarsStep == Types /\ [Next]_vars => Scalars'
<1> SUFFICES ASSUME Types, [Next]_vars PROVE Scalars'
  OBVIOUS
<1>0. Scalars
  BY DEF Types
<1> USE DEF Scalars, uiVars, schedulerVars, linkVars, signalVars, notBackend, notCommand, notUi,
            notReducer, notUser, notServer
<1>1. CASE Emit
  BY <1>0, <1>1 DEF Emit, EmitQueued, EmitTimedOut
<1>2. CASE TopStep
  BY <1>0, <1>2 DEF TopStep, DropConnection, Goto
<1>3. CASE PollLossy \/ PollSemantic
  BY <1>0, <1>3 DEF PollLossy, PollSemantic
<1>4. CASE PollOverload \/ PollDisconnected \/ SignalClosed
  BY <1>0, <1>4 DEF PollOverload, PollDisconnected, SignalClosed, DropConnection, Goto
<1>5. CASE PollClosed \/ PollEmpty
  BY <1>0, <1>5 DEF PollClosed, PollEmpty, EmitThen, Goto
<1>6. CASE NoCommand \/ StopBackend
  BY <1>0, <1>6 DEF NoCommand, StopBackend, DropConnection, Goto
<1>7. CASE RunConnect
  BY <1>0, <1>7, Constants DEF RunConnect, ResetScheduler, Goto, InitialDelay
<1>8. CASE RunSchedule
  BY <1>0, <1>8, DoubledType DEF RunSchedule, Schedule, EmitThen, Goto
<1>9. CASE RunLoad \/ RunLocal \/ RunLogin
  BY <1>0, <1>9 DEF RunLoad, RunLocal, RunLogin, EmitThen
<1>10. CASE Restart
  <2>1. count' \in [Counters -> Nat]
    BY <1>0, <1>10, CountedType DEF Restart, Counters
  <2> QED
    BY <1>0, <1>10, <2>1, Constants
    DEF Restart, ResetScheduler, DropConnection, EmitThen, Goto, InitialDelay
<1>11. CASE ConnectSucceeds
  BY <1>0, <1>11, Constants
  DEF ConnectSucceeds, AfterConnect, EmitThen, ResetScheduler, InitialDelay
<1>12. CASE ConnectFails
  <2>1. count' \in [Counters -> Nat]
    BY <1>0, <1>12, CountedType DEF ConnectFails, Counters
  <2>2. backend' = "emit" /\ after' \in {"timer", "top"}
    BY <1>0, <1>12 DEF ConnectFails, EmitThen
  <2> QED
    BY <1>0, <1>12, <2>1, <2>2, DoubledType DEF ConnectFails, Schedule
<1>13. CASE TimerDue \/ TimerNotDue
  BY <1>0, <1>13 DEF TimerDue, TimerNotDue, EmitThen, Goto
<1>14. CASE Tick \/ CollectLoss \/ CollectEvent \/ CollectDone
  BY <1>0, <1>14 DEF Tick, CollectLoss, CollectEvent, CollectDone
<1>15. CASE Reduce
  <2>1. PICK kind : Dispatch(kind)
    BY <1>15 DEF Reduce, ReduceConnected, ReduceConnectionLost, ReduceRetryScheduled,
       ReduceRetryStarted, ReduceConnectionFailed, ReduceLoginAccepted, ReduceLoginFailed,
       ReduceRestartFailed, ReduceAccountLoaded, ReduceOther
  <2>2. ui' \in {"idle", "collecting", "dispatching"}
    BY <2>1 DEF Dispatch
  <2>3. Head(batch) \in Actions
    BY <2>1, HeadTailProperties DEF Types, Queues, Busy, Dispatch
  <2>4. Head(batch).attempt \in Nat /\ Head(batch).delay \in 0..MaxDelay
    BY <2>3 DEF Actions
  <2>5. UNCHANGED <<backend, after, why, linkVars, schedulerVars, count>>
    BY <1>15 DEF Reduce, ReduceConnected, ReduceConnectionLost, ReduceRetryScheduled,
       ReduceRetryStarted, ReduceConnectionFailed, ReduceLoginAccepted, ReduceLoginFailed,
       ReduceRestartFailed, ReduceAccountLoaded, ReduceOther
  <2>6. /\ status' \in {"connecting", "online", "recovering", "failed"}
        /\ shown' \in [attempt : Nat, delay : 0..MaxDelay]
        /\ auth' \in {"idle", "submitting", "restarting"}
    BY <1>0, <1>15, <2>4, Constants
    DEF Reduce, ReduceConnected, ReduceConnectionLost, ReduceRetryScheduled,
        ReduceRetryStarted, ReduceConnectionFailed, ReduceLoginAccepted, ReduceLoginFailed,
        ReduceRestartFailed, ReduceAccountLoaded, ReduceOther, Recovering, Settled
  <2> QED
    BY <1>0, <2>2, <2>5, <2>6
<1>16. CASE User
  <2>1. count' \in [Counters -> Nat]
    BY <1>0, <1>16, CountedType
    DEF User, RetryConnection, UserEffect, SubmitLogin, Quit, Extra, Counters
  <2>2. CASE RetryConnection
    BY <1>0, <2>1, <2>2, Constants DEF RetryConnection, Settled
  <2>5. CASE UserEffect
    BY <1>0, <2>1, <2>5, Constants DEF UserEffect, Settled
  <2>3. CASE SubmitLogin
    BY <1>0, <2>1, <2>3, Constants DEF SubmitLogin, Settled
  <2>4. CASE Quit
    BY <1>0, <2>1, <2>4, Constants DEF Quit, Settled
  <2> QED
    BY <1>16, <2>2, <2>3, <2>4, <2>5 DEF User
<1>17. CASE ServerDies \/ ServerSends
  <2>1. count' \in [Counters -> Nat]
    BY <1>0, <1>17, CountedType DEF ServerDies, ServerSends, Extra, Counters
  <2> QED
    BY <1>0, <1>17, <2>1 DEF ServerDies, ServerSends
<1>18. CASE UNCHANGED vars \/ Exited
  BY <1>0, <1>18 DEF Exited, vars
<1> QED
  BY <1>1, <1>2, <1>3, <1>4, <1>5, <1>6, <1>7, <1>8, <1>9, <1>10, <1>11, <1>12, <1>13, <1>14,
     <1>15, <1>16, <1>17, <1>18 DEF Next, Backend, UI

LEMMA FlagsStep == Types /\ [Next]_vars => Flags'
<1> SUFFICES ASSUME Types, [Next]_vars PROVE Flags'
  OBVIOUS
<1>0. Flags
  BY DEF Types
<1> USE DEF Flags, uiVars, signalVars, notBackend, notCommand, notUi, notReducer, notUser,
            notServer
<1>1. CASE Emit \/ TopStep \/ PollLossy \/ PollSemantic
  BY <1>0, <1>1 DEF Emit, EmitQueued, EmitTimedOut, TopStep, PollLossy, PollSemantic
<1>2. CASE PollOverload \/ PollDisconnected \/ SignalClosed \/ PollClosed \/ PollEmpty
  BY <1>0, <1>2 DEF PollOverload, PollDisconnected, SignalClosed, PollClosed, PollEmpty
<1>3. CASE NoCommand \/ StopBackend \/ RunConnect \/ RunSchedule \/ RunLoad \/ RunLocal \/ RunLogin
  BY <1>0, <1>3 DEF NoCommand, StopBackend, RunConnect, RunSchedule, RunLoad, RunLocal, RunLogin
<1>4. CASE Restart \/ ConnectSucceeds \/ ConnectFails \/ TimerDue \/ TimerNotDue
  BY <1>0, <1>4 DEF Restart, ConnectSucceeds, ConnectFails, TimerDue, TimerNotDue
<1>5. CASE Tick \/ CollectLoss \/ CollectEvent \/ CollectDone
  BY <1>0, <1>5 DEF Tick, CollectLoss, CollectEvent, CollectDone
<1>6. CASE Reduce
  BY <1>0, <1>6 DEF Reduce, ReduceConnected, ReduceConnectionLost, ReduceRetryScheduled,
       ReduceRetryStarted, ReduceConnectionFailed, ReduceLoginAccepted, ReduceLoginFailed,
       ReduceRestartFailed, ReduceAccountLoaded, ReduceOther, NoEffects, SendEffects
<1>7. CASE User
  BY <1>0, <1>7 DEF User, RetryConnection, UserEffect, SubmitLogin, Quit
<1>8. CASE ServerDies \/ ServerSends
  BY <1>0, <1>8 DEF ServerDies, ServerSends
<1>9. CASE UNCHANGED vars \/ Exited
  BY <1>0, <1>9 DEF Exited, vars
<1> QED
  BY <1>1, <1>2, <1>3, <1>4, <1>5, <1>6, <1>7, <1>8, <1>9 DEF Next, Backend, UI

(* What the reducer sends: all of it, or something is missed. *)
LEMMA Sends ==
  ASSUME commands \in Seq(Effects), Len(commands) <= CommandCapacity,
         NEW effects \in Seq(Effects), SendEffects(effects)
  PROVE  /\ commands' \in Seq(Effects) /\ Len(commands') <= CommandCapacity
         /\ missed' \/ (~missed /\ commands' = commands \o effects)
<1> DEFINE sent == Fitting(Len(effects))
           part == SubSeq(effects, 1, sent)
<1>1. Len(effects) \in Nat /\ Len(commands) \in Nat
  OBVIOUS
<1>2. /\ sent \in Nat /\ sent <= Len(effects) /\ Len(commands) + sent <= CommandCapacity
  BY <1>1, Constants DEF Fitting
<1>3. commands' = commands \o part /\ missed' = (missed \/ sent < Len(effects))
  BY DEF SendEffects
<1> HIDE DEF sent
<1>4. part \in Seq(Effects) /\ Len(part) = sent
  <2>1. \A i \in 1..sent : effects[i] \in Effects
    BY <1>1, <1>2
  <2>2. /\ part \in Seq(Effects)
        /\ Len(part) = IF 1 <= sent THEN sent - 1 + 1 ELSE 0
    BY <1>2, <2>1, SubSeqProperties
  <2> QED
    BY <1>2, <2>2
<1>5. sent = Len(effects) => part = effects
  BY SubSeqFull
<1> HIDE DEF part
<1>6. commands \o part \in Seq(Effects) /\ Len(commands \o part) = Len(commands) + sent
  BY <1>4, ConcatProperties
<1>7. Len(commands') <= CommandCapacity
  BY <1>2, <1>3, <1>6
<1>8. sent < Len(effects) \/ sent = Len(effects)
  BY <1>1, <1>2
<1> QED
  BY <1>3, <1>5, <1>6, <1>7, <1>8

LEMMA Loads ==
  /\ [i \in 1..ConnectEffects |-> "load"] \in Seq(Effects)
  /\ Len([i \in 1..ConnectEffects |-> "load"]) = ConnectEffects
  /\ <<"schedule">> \in Seq(Effects)
  BY Constants DEF Effects

(* What a reduction sends. *)
LEMMA ReduceSends ==
  ASSUME commands \in Seq(Effects), Len(commands) <= CommandCapacity, Reduce
  PROVE  commands' \in Seq(Effects) /\ Len(commands') <= CommandCapacity
<1>1. CASE ReduceConnected
  BY <1>1, Sends, Loads DEF ReduceConnected
<1>2. CASE ReduceConnectionLost
  BY <1>2, Sends, Loads DEF ReduceConnectionLost, NoEffects
<1>3. CASE ~ReduceConnected /\ ~ReduceConnectionLost
  BY <1>3 DEF Reduce, ReduceRetryScheduled, ReduceRetryStarted, ReduceConnectionFailed,
     ReduceLoginAccepted, ReduceLoginFailed, ReduceRestartFailed, ReduceAccountLoaded,
     ReduceOther, NoEffects
<1> QED
  BY <1>1, <1>2, <1>3

(* What a reduction takes. *)
LEMMA ReduceTakes ==
  ASSUME Reduce
  PROVE  /\ ui = "dispatching" /\ batch' = Tail(batch)
         /\ ui' = IF Tail(batch) = <<>> THEN "idle" ELSE "dispatching"
         /\ UNCHANGED <<notReducer>>
  BY DEF Reduce, ReduceConnected, ReduceConnectionLost, ReduceRetryScheduled,
     ReduceRetryStarted, ReduceConnectionFailed, ReduceLoginAccepted, ReduceLoginFailed,
     ReduceRestartFailed, ReduceAccountLoaded, ReduceOther, Dispatch

LEMMA QueuesStep == Types /\ [Next]_vars => Queues'
<1> SUFFICES ASSUME Types, [Next]_vars PROVE Queues'
  OBVIOUS
<1>0. Queues /\ Scalars /\ Busy /\ Bounds
  BY DEF Types
<1>a. \A a \in Actions : Append(events, a) \in Seq(Actions) /\ Append(batch, a) \in Seq(Actions)
  BY <1>0, AppendProperties DEF Queues
<1>b. \A c \in Effects : Append(commands, c) \in Seq(Effects)
  BY <1>0, AppendProperties DEF Queues
<1>c. commands # <<>> => Tail(commands) \in Seq(Effects)
  BY <1>0, HeadTailProperties DEF Queues
<1>d. Plain("item") \in Actions /\ Plain("lost") \in Actions
  BY PlainType DEF ActionKinds
<1>e. \A a \in Reports : <<a>> \in Seq(Reports)
  OBVIOUS
<1>f. \A kind \in ActionKinds \ {"item"} : <<Plain(kind)>> \in Seq(Reports)
  BY <1>e, ReportType
<1>g. <<Plain("note"), Plain("connected")>> \in Seq(Reports)
  BY ReportType DEF ActionKinds
<1> USE DEF uiVars, schedulerVars, linkVars, signalVars, notBackend, notCommand, notUi,
            notReducer, notUser, notServer
<1>1. CASE Emit
  <2>1. Head(out) \in Reports /\ Tail(out) \in Seq(Reports) /\ Head(out) \in Actions
    BY <1>0, <1>1, HeadTailProperties
    DEF Queues, Busy, Emit, EmitQueued, EmitTimedOut, Reports
  <2> QED
    BY <1>0, <1>1, <1>a, <2>1 DEF Queues, Emit, EmitQueued, EmitTimedOut
<1>h. <<>> \in Seq({"semantic", "lossy"})
  OBVIOUS
<1>2. CASE TopStep
  <2>1. inbox' \in {inbox, <<>>} /\ UNCHANGED <<commands, events, batch, out>>
    BY <1>2 DEF TopStep, DropConnection, Goto
  <2> QED
    BY <1>0, <1>h, <2>1 DEF Queues
<1>3. CASE PollLossy \/ PollSemantic
  <2>1. Tail(inbox) \in Seq({"semantic", "lossy"})
    BY <1>0, <1>3, HeadTailProperties DEF Queues, PollLossy, PollSemantic
  <2> QED
    BY <1>0, <1>3, <1>a, <1>d, <2>1 DEF PollLossy, PollSemantic, Queues
<1>4. CASE PollOverload \/ PollDisconnected \/ SignalClosed
  <2>1. /\ inbox' = <<>> /\ UNCHANGED <<commands, batch, out>>
        /\ events' \in {events, Append(events, Plain("lost"))}
    BY <1>4 DEF PollOverload, PollDisconnected, SignalClosed, DropConnection, Goto
  <2> QED
    BY <1>0, <1>a, <1>d, <1>h, <2>1 DEF Queues
<1>5. CASE PollClosed \/ PollEmpty
  BY <1>0, <1>5, <1>f DEF PollClosed, PollEmpty, EmitThen, Goto, Queues, ActionKinds
<1>6. CASE NoCommand \/ StopBackend
  <2>1. inbox' \in {inbox, <<>>} /\ UNCHANGED <<commands, events, batch, out>>
    BY <1>6 DEF NoCommand, StopBackend, DropConnection, Goto
  <2> QED
    BY <1>0, <1>h, <2>1 DEF Queues
<1>7. CASE RunConnect
  BY <1>0, <1>7, <1>c DEF RunConnect, Take, Goto, Queues
<1>8. CASE RunSchedule
  BY <1>0, <1>8, <1>c, <1>e, ScheduleType DEF RunSchedule, Take, EmitThen, Goto, Queues
<1>9. CASE RunLoad \/ RunLocal \/ RunLogin
  <2>1. Replies \subseteq ActionKinds \ {"item"}
    BY DEF Replies, ActionKinds
  <2> QED
    BY <1>0, <1>9, <1>c, <1>f, <2>1
    DEF RunLoad, RunLocal, RunLogin, Take, EmitThen, Queues, ActionKinds
<1>10. CASE Restart
  <2>1. /\ inbox' = <<>> /\ UNCHANGED <<commands, events, batch>>
        /\ out' \in {out, <<Plain("restartFailed")>>}
    BY <1>10 DEF Restart, DropConnection, EmitThen, Goto
  <2> QED
    BY <1>0, <1>f, <1>h, <2>1 DEF Queues, ActionKinds
<1>11. CASE ConnectSucceeds
  BY <1>0, <1>11, <1>f, <1>g DEF ConnectSucceeds, EmitThen, Queues, ActionKinds
<1>12. CASE ConnectFails
  <2>1. out' \in {<<Plain("failed")>>, <<Plain("restartFailed")>>, <<RetryAnnouncement>>}
    BY <1>0, <1>12 DEF ConnectFails, EmitThen, Scalars
  <2>2. out' \in Seq(Reports)
    BY <1>0, <1>e, <1>f, <2>1, ScheduleType DEF ActionKinds
  <2> QED
    BY <1>0, <1>12, <2>2 DEF ConnectFails, Queues
<1>13. CASE TimerDue \/ TimerNotDue
  <2>1. Act("retryStarted", pending, 0) \in Reports
    BY <1>0, Constants DEF Act, Reports, Actions, ActionKinds, Scalars
  <2> QED
    BY <1>0, <1>13, <1>e, <2>1 DEF TimerDue, TimerNotDue, EmitThen, Goto, Queues
<1>14. CASE Tick \/ CollectLoss \/ CollectDone
  BY <1>0, <1>14, <1>a, <1>d DEF Tick, CollectLoss, CollectDone, Queues
<1>15. CASE CollectEvent
  <2>1. Head(events) \in Actions /\ Tail(events) \in Seq(Actions)
    BY <1>0, <1>15, HeadTailProperties DEF CollectEvent, Queues
  <2> QED
    BY <1>0, <1>15, <1>a, <2>1 DEF CollectEvent, Queues
<1>16. CASE Reduce
  <2>1. commands' \in Seq(Effects)
    BY <1>0, <1>16, ReduceSends DEF Queues, Bounds
  <2>2. ui = "dispatching" /\ batch' = Tail(batch) /\ UNCHANGED <<out, inbox, events>>
    BY <1>16, ReduceTakes
  <2>3. Tail(batch) \in Seq(Actions)
    BY <1>0, <2>2, HeadTailProperties DEF Queues, Busy
  <2> QED
    BY <1>0, <2>1, <2>2, <2>3 DEF Queues
<1>17. CASE User
  BY <1>0, <1>17, <1>b
  DEF User, RetryConnection, UserEffect, SubmitLogin, Quit, Queues, Effects, EffectKinds
<1>18. CASE ServerDies \/ ServerSends
  <2>1. \A kind \in {"semantic", "lossy"} :
            Append(inbox, kind) \in Seq({"semantic", "lossy"})
    BY <1>0, AppendProperties DEF Queues
  <2> QED
    BY <1>0, <1>18, <2>1 DEF ServerDies, ServerSends, Queues
<1>19. CASE UNCHANGED vars \/ Exited
  BY <1>0, <1>19 DEF Exited, vars, Queues
<1> QED
  BY <1>1, <1>2, <1>3, <1>4, <1>5, <1>6, <1>7, <1>8, <1>9, <1>10, <1>11, <1>12, <1>13, <1>14,
     <1>15, <1>16, <1>17, <1>18, <1>19 DEF Next, Backend, UI

LEMMA BoundsStep == Types /\ [Next]_vars => Bounds'
<1> SUFFICES ASSUME Types, [Next]_vars PROVE Bounds'
  OBVIOUS
<1>0. Queues /\ Scalars /\ Busy /\ Bounds
  BY DEF Types
<1>a. /\ Leases(events) \in Nat /\ Leases(batch) \in Nat /\ Len(events) \in Nat
      /\ Len(batch) \in Nat /\ Len(commands) \in Nat
  <2>1. Leases(events) \in Nat /\ Leases(batch) \in Nat
    BY <1>0, LeasesAreFinite DEF Queues
  <2>2. Len(events) \in Nat /\ Len(batch) \in Nat /\ Len(commands) \in Nat
    BY <1>0 DEF Queues
  <2> QED
    BY <2>1, <2>2
<1>b. \A c : Len(Append(commands, c)) = Len(commands) + 1
  BY <1>0 DEF Queues
<1>c. commands # <<>> => Len(Tail(commands)) = Len(commands) - 1
  BY <1>0, HeadTailProperties DEF Queues
<1>d. Plain("item") \in Actions /\ Plain("item").kind = "item" /\ Plain("lost") \in Reports
  BY PlainType, ReportType DEF ActionKinds
<1>e. \A a \in Actions : Len(Append(events, a)) = Len(events) + 1
  BY <1>0 DEF Queues
<1>f. \A a \in Reports : Leases(Append(events, a)) = Leases(events) /\ a \in Actions
  BY <1>0, LeasesPut DEF Queues, Reports
<1>g. Leases(Append(events, Plain("item"))) = Leases(events) + 1
  BY <1>0, <1>d, LeasesPut DEF Queues
<1> USE DEF uiVars, schedulerVars, linkVars, signalVars, notBackend, notCommand, notUi,
            notReducer, notUser, notServer
<1>1. CASE Emit
  <2>1. Head(out) \in Reports
    BY <1>0, <1>1, HeadTailProperties DEF Queues, Busy, Emit, EmitQueued, EmitTimedOut
  <2>2. /\ UNCHANGED <<commands, batch>>
        /\ events' = events \/ (EventRoom /\ events' = Append(events, Head(out)))
    BY <1>1 DEF Emit, EmitQueued, EmitTimedOut
  <2>4. Leases(events') = Leases(events)
    <3>1. Leases(Append(events, Head(out))) = Leases(events)
      BY <1>f, <2>1
    <3> QED
      BY <2>2, <3>1
  <2>5. Len(events') <= EventCapacity
    BY <1>0, <1>a, <1>e, <1>f, <2>1, <2>2, Constants DEF EventRoom, Bounds
  <2>3. Len(events') <= EventCapacity /\ Leases(events') = Leases(events)
    BY <2>4, <2>5
  <2> QED
    BY <1>0, <2>2, <2>3 DEF Bounds
<1>2. CASE PollLossy \/ PollSemantic
  <2>1. /\ UNCHANGED <<commands, batch>>
        /\ \/ events' = events
           \/ EventRoom /\ LeaseRoom /\ events' = Append(events, Plain("item"))
    BY <1>2 DEF PollLossy, PollSemantic
  <2>2. CASE events' = events
    BY <1>0, <2>1, <2>2 DEF Bounds
  <2>3. CASE EventRoom /\ LeaseRoom /\ events' = Append(events, Plain("item"))
    <3>1. Len(events') <= EventCapacity
      BY <1>a, <1>d, <1>e, <2>3, Constants DEF EventRoom
    <3>2. Leases(events') + Leases(batch) <= UiByteLimit
      BY <1>a, <1>g, <2>3, Constants DEF LeaseRoom
    <3> QED
      BY <1>0, <2>1, <3>1, <3>2 DEF Bounds
  <2> QED
    BY <2>1, <2>2, <2>3
<1>3. CASE PollDisconnected
  <2>1. /\ UNCHANGED <<commands, batch>>
        /\ events' = events \/ (EventRoom /\ events' = Append(events, Plain("lost")))
    BY <1>3 DEF PollDisconnected
  <2>3. Leases(events') = Leases(events)
    <3>1. Leases(Append(events, Plain("lost"))) = Leases(events)
      BY <1>d, <1>f
    <3> QED
      BY <2>1, <3>1
  <2>4. Len(events') <= EventCapacity
    BY <1>0, <1>a, <1>d, <1>e, <1>f, <2>1, Constants DEF EventRoom, Bounds
  <2>2. Len(events') <= EventCapacity /\ Leases(events') = Leases(events)
    BY <2>3, <2>4
  <2> QED
    BY <1>0, <2>1, <2>2 DEF Bounds
<1>4. CASE \/ TopStep \/ PollOverload \/ SignalClosed \/ PollClosed \/ PollEmpty
           \/ NoCommand \/ StopBackend \/ Restart \/ ConnectSucceeds \/ ConnectFails
           \/ TimerDue \/ TimerNotDue
  <2>1. UNCHANGED <<commands, events, batch>>
    BY <1>4 DEF TopStep, PollOverload, SignalClosed, PollClosed, PollEmpty, NoCommand,
       StopBackend, Restart, ConnectSucceeds, ConnectFails, TimerDue, TimerNotDue
  <2> QED
    BY <1>0, <2>1 DEF Bounds
<1>5. CASE RunConnect \/ RunSchedule \/ RunLoad \/ RunLocal \/ RunLogin
  <2>1. commands # <<>> /\ commands' = Tail(commands) /\ UNCHANGED <<events, batch>>
    BY <1>5 DEF RunConnect, RunSchedule, RunLoad, RunLocal, RunLogin, Take
  <2>2. Len(commands') <= CommandCapacity
    BY <1>0, <1>a, <1>c, <2>1, Constants DEF Bounds
  <2> QED
    BY <1>0, <2>1, <2>2 DEF Bounds
<1>6. CASE Tick \/ CollectDone
  <2>1. UNCHANGED <<commands, events, batch>>
    BY <1>6 DEF Tick, CollectDone
  <2> QED
    BY <1>0, <2>1 DEF Bounds
<1>7. CASE CollectLoss
  <2>1. /\ UNCHANGED <<commands, events>> /\ batch' = Append(batch, Plain("lost"))
        /\ Len(batch) < BatchLimit
    BY <1>7 DEF CollectLoss
  <2>2. Len(batch') = Len(batch) + 1
    BY <1>0, <2>1 DEF Queues
  <2>3. Leases(batch') = Leases(batch)
    BY <1>0, <1>d, <2>1, LeasesPut DEF Queues, Reports
  <2>4. Len(batch') <= BatchLimit
    BY <1>a, <2>1, <2>2, Constants
  <2> QED
    BY <1>0, <2>1, <2>3, <2>4 DEF Bounds
<1>8. CASE CollectEvent
  <2>1. /\ UNCHANGED commands /\ events # <<>> /\ Len(batch) < BatchLimit
        /\ batch' = Append(batch, Head(events)) /\ events' = Tail(events)
    BY <1>8 DEF CollectEvent
  <2>2. Head(events) \in Actions /\ Len(Tail(events)) = Len(events) - 1
    BY <1>0, <2>1, HeadTailProperties DEF Queues
  <2>3. /\ Leases(batch') = IF Head(events).kind = "item" THEN Leases(batch) + 1 ELSE Leases(batch)
        /\ Leases(events') = IF Head(events).kind = "item" THEN Leases(events) - 1 ELSE Leases(events)
    BY <1>0, <2>1, <2>2, LeasesPut, LeasesTake DEF Queues
  <2>4. Leases(events') + Leases(batch') = Leases(events) + Leases(batch)
    BY <1>a, <2>3
  <2>5. Len(batch') = Len(batch) + 1
    BY <1>0, <2>1 DEF Queues
  <2>6. Len(batch') <= BatchLimit /\ Len(events') <= EventCapacity
    BY <1>0, <1>a, <2>1, <2>2, <2>5, Constants DEF Bounds
  <2> QED
    BY <1>0, <2>1, <2>4, <2>6 DEF Bounds
<1>9. CASE Reduce
  <2>1. Len(commands') <= CommandCapacity
    BY <1>0, <1>9, ReduceSends DEF Queues, Bounds
  <2>2. batch # <<>> /\ batch' = Tail(batch) /\ UNCHANGED events
    BY <1>0, <1>9, ReduceTakes DEF Busy
  <2>3. Len(batch') = Len(batch) - 1
    BY <1>0, <2>2, HeadTailProperties DEF Queues
  <2>4. Leases(batch') = Leases(batch) \/ Leases(batch') = Leases(batch) - 1
    BY <1>0, <2>2, LeasesTake DEF Queues
  <2>5. Len(batch') <= BatchLimit
    BY <1>0, <1>a, <2>3, Constants DEF Bounds
  <2>6. Leases(events) + Leases(batch') <= UiByteLimit
    BY <1>0, <1>a, <2>4, Constants DEF Bounds
  <2> QED
    BY <1>0, <2>1, <2>2, <2>5, <2>6 DEF Bounds
<1>10. CASE User
  <2>1. /\ UNCHANGED <<events, batch>>
        /\ commands' = commands \/ (CommandRoom /\ \E c : commands' = Append(commands, c))
    BY <1>10 DEF User, RetryConnection, UserEffect, SubmitLogin, Quit
  <2>2. Len(commands') <= CommandCapacity
    BY <1>0, <1>a, <1>b, <2>1, Constants DEF CommandRoom, Bounds
  <2> QED
    BY <1>0, <2>1, <2>2 DEF Bounds
<1>11. CASE ServerDies \/ ServerSends \/ UNCHANGED vars \/ Exited
  <2>1. UNCHANGED <<commands, events, batch>>
    BY <1>11 DEF ServerDies, ServerSends, Exited, vars
  <2> QED
    BY <1>0, <2>1 DEF Bounds
<1> QED
  BY <1>1, <1>2, <1>3, <1>4, <1>5, <1>6, <1>7, <1>8, <1>9, <1>10, <1>11
  DEF Next, Backend, UI

LEMMA BusyStep == Types /\ [Next]_vars => Busy'
<1> SUFFICES ASSUME Types, [Next]_vars PROVE Busy'
  OBVIOUS
<1>0. Queues /\ Scalars /\ Busy /\ Bounds /\ Flags
  BY DEF Types
<1>a. \A a \in Actions : Append(events, a) # <<>> /\ Append(batch, a) # <<>>
  BY <1>0, AppendProperties DEF Queues
<1>b. Plain("item") \in Actions /\ Plain("lost") \in Actions
  BY PlainType DEF ActionKinds
<1> USE DEF uiVars, schedulerVars, linkVars, signalVars, notBackend, notCommand, notUi,
            notReducer, notUser, notServer
<1>1. CASE Emit
  <2>1. Head(out) \in Actions
    BY <1>0, <1>1, HeadTailProperties
    DEF Queues, Busy, Emit, EmitQueued, EmitTimedOut, Reports
  <2>2. /\ UNCHANGED <<ui, batch, lossPending>>
        /\ events' = events \/ events' = Append(events, Head(out))
        /\ out' = Tail(out) /\ backend' = IF Tail(out) = <<>> THEN after ELSE "emit"
    BY <1>1 DEF Emit, EmitQueued, EmitTimedOut
  <2>3. after # "emit"
    BY <1>0 DEF Scalars
  <2> QED
    BY <1>0, <1>a, <2>1, <2>2, <2>3 DEF Busy
<1>2. CASE TopStep \/ PollEmpty \/ NoCommand \/ StopBackend \/ TimerNotDue \/ RunConnect
  <2>1. UNCHANGED <<ui, batch, lossPending, events>> /\ backend' # "emit"
    BY <1>2 DEF TopStep, PollEmpty, NoCommand, StopBackend, TimerNotDue, RunConnect, Goto
  <2> QED
    BY <1>0, <2>1 DEF Busy
<1>3. CASE PollLossy \/ PollSemantic \/ PollOverload \/ PollDisconnected \/ SignalClosed
  <2>1. /\ UNCHANGED <<ui, batch>> /\ backend' # "emit"
        /\ lossPending' \/ lossPending' = lossPending
        /\ \/ events' = events
           \/ events' = Append(events, Plain("item")) \/ events' = Append(events, Plain("lost"))
    BY <1>3 DEF PollLossy, PollSemantic, PollOverload, PollDisconnected, SignalClosed, Goto
  <2> QED
    BY <1>0, <1>a, <1>b, <2>1 DEF Busy
<1>4. CASE \/ PollClosed \/ RunSchedule \/ RunLoad \/ RunLocal \/ RunLogin \/ Restart
           \/ ConnectSucceeds \/ ConnectFails \/ TimerDue
  <2>1. UNCHANGED <<ui, batch, lossPending, events>>
    BY <1>4 DEF PollClosed, RunSchedule, RunLoad, RunLocal, RunLogin, Restart,
       ConnectSucceeds, ConnectFails, TimerDue
  <2>2. backend' = "emit" => out' # <<>>
    <3>1. CASE ConnectFails
      <4>1. \/ out' = <<Plain("failed")>> \/ out' = <<Plain("restartFailed")>>
            \/ out' = <<RetryAnnouncement>>
        BY <1>0, <3>1 DEF ConnectFails, EmitThen, Scalars
      <4> QED
        BY <4>1
    <3>2. CASE ~ConnectFails
      BY <1>4, <3>2 DEF PollClosed, RunSchedule, RunLoad, RunLocal, RunLogin, Restart,
         ConnectSucceeds, TimerDue, EmitThen, Goto
    <3> QED
      BY <3>1, <3>2
  <2> QED
    BY <1>0, <2>1, <2>2 DEF Busy
<1>5. CASE Tick
  BY <1>0, <1>5 DEF Tick, Busy
<1>6. CASE CollectLoss
  BY <1>0, <1>6, <1>a, <1>b DEF CollectLoss, Busy
<1>7. CASE CollectEvent
  <2>1. Head(events) \in Actions
    BY <1>0, <1>7, HeadTailProperties DEF Queues, CollectEvent
  <2> QED
    BY <1>0, <1>7, <1>a, <2>1 DEF CollectEvent, Busy
<1>8. CASE CollectDone
  <2>1. batch # <<>>
    <3>1. Len(batch) = BatchLimit => batch # <<>>
      BY <1>0, Constants DEF Queues
    <3> QED
      BY <1>0, <1>8, <3>1 DEF CollectDone, Busy
  <2> QED
    BY <1>0, <1>8, <2>1 DEF CollectDone, Busy
<1>9. CASE Reduce
  BY <1>0, <1>9, ReduceTakes DEF Busy
<1>10. CASE User \/ ServerDies \/ ServerSends \/ UNCHANGED vars \/ Exited
  <2>1. UNCHANGED <<ui, batch, lossPending, events, backend, out>>
    BY <1>10 DEF User, RetryConnection, UserEffect, SubmitLogin, Quit, ServerDies, ServerSends,
       Exited, vars
  <2> QED
    BY <1>0, <2>1 DEF Busy
<1> QED
  BY <1>1, <1>2, <1>3, <1>4, <1>5, <1>6, <1>7, <1>8, <1>9, <1>10
  DEF Next, Backend, UI

LEMMA TypesStep == Types /\ [Next]_vars => Types'
  BY ScalarsStep, FlagsStep, QueuesStep, BoundsStep, BusyStep DEF Types

(* The types, with the limits of the queues and of the UI byte budget, and   *)
(* that a thread that dispatches or emits has something in hand.             *)
THEOREM TypesHold == SafetySpec => []TypeOK
<1>1. SafetySpec => []Types
  BY TypesInit, TypesStep, PTL DEF SafetySpec
<1> QED
  BY <1>1, TypesAreOK, PTL
-----------------------------------------------------------------------------
(* The command queue. *)
Waits(s, c) == \E i \in DOMAIN s : s[i] = c
FollowedBy(s, c, d) ==
    \A i \in DOMAIN s : s[i] = c => \E j \in DOMAIN s : j > i /\ s[j] = d
AtMostOnce(s, c) == \A i, j \in DOMAIN s : s[i] = c /\ s[j] = c => i = j

LEMMA MoreWaits ==
  ASSUME NEW s \in Seq(Effects), NEW x \in Seq(Effects), NEW c
  PROVE  Waits(s \o x, c) <=> Waits(s, c) \/ Waits(x, c)
<1>1. ASSUME Waits(s, c) PROVE Waits(s \o x, c)
  <2>1. PICK i \in DOMAIN s : s[i] = c
    BY <1>1 DEF Waits
  <2>2. i \in DOMAIN (s \o x) /\ (s \o x)[i] = s[i]
    BY Behind
  <2> QED
    BY <2>1, <2>2 DEF Waits
<1>2. ASSUME Waits(x, c) PROVE Waits(s \o x, c)
  <2>1. PICK i \in 1..Len(x) : x[i] = c
    BY <1>2, Behind DEF Waits
  <2>2. Len(s) + i \in DOMAIN (s \o x) /\ (s \o x)[Len(s) + i] = x[i]
    BY <2>1, Behind
  <2> QED
    BY <2>1, <2>2 DEF Waits
<1>3. ASSUME Waits(s \o x, c) PROVE Waits(s, c) \/ Waits(x, c)
  <2>1. PICK i \in 1..(Len(s) + Len(x)) : (s \o x)[i] = c
    BY <1>3, Behind DEF Waits
  <2>2. CASE i <= Len(s)
    BY <2>1, <2>2, Behind DEF Waits
  <2>3. CASE i > Len(s)
    <3>1. i - Len(s) \in 1..Len(x) /\ i = Len(s) + (i - Len(s))
      BY <2>1, <2>3, Behind
    <3>2. x[i - Len(s)] = c
      BY <2>1, <3>1, Behind
    <3> QED
      BY <3>1, <3>2, Behind DEF Waits
  <2> QED
    BY <2>1, <2>2, <2>3, Behind
<1> QED
  BY <1>1, <1>2, <1>3

LEMMA MoreFollowed ==
  ASSUME NEW s \in Seq(Effects), NEW x \in Seq(Effects), NEW c, NEW d,
         FollowedBy(s, c, d), ~Waits(x, c)
  PROVE  FollowedBy(s \o x, c, d)
<1> SUFFICES ASSUME NEW i \in DOMAIN (s \o x), (s \o x)[i] = c
             PROVE  \E j \in DOMAIN (s \o x) : j > i /\ (s \o x)[j] = d
  BY DEF FollowedBy
<1>1. i \in 1..(Len(s) + Len(x)) /\ Len(s) \in Nat /\ Len(x) \in Nat
  BY Behind
<1>2. CASE i <= Len(s)
  <2>1. i \in 1..Len(s) /\ (s \o x)[i] = s[i]
    BY <1>1, <1>2, Behind
  <2>2. PICK j \in 1..Len(s) : j > i /\ s[j] = d
    BY <2>1, Behind DEF FollowedBy
  <2>3. j \in DOMAIN (s \o x) /\ (s \o x)[j] = s[j]
    BY <2>2, Behind
  <2> QED
    BY <2>2, <2>3
<1>3. CASE i > Len(s)
  <2>1. i - Len(s) \in 1..Len(x) /\ i = Len(s) + (i - Len(s))
    BY <1>1, <1>3
  <2>2. x[i - Len(s)] = c /\ i - Len(s) \in DOMAIN x
    BY <2>1, Behind
  <2> QED
    BY <2>2 DEF Waits
<1> QED
  BY <1>1, <1>2, <1>3

(* What comes last is behind everything else. *)
LEMMA LastFollows ==
  ASSUME NEW s \in Seq(Effects), NEW x \in Seq(Effects), NEW c, NEW d, c # d,
         x # <<>>, \A i \in 1..Len(x) : x[i] = d
  PROVE  FollowedBy(s \o x, c, d)
<1> SUFFICES ASSUME NEW i \in DOMAIN (s \o x), (s \o x)[i] = c
             PROVE  \E j \in DOMAIN (s \o x) : j > i /\ (s \o x)[j] = d
  BY DEF FollowedBy
<1>1. i \in 1..(Len(s) + Len(x)) /\ Len(s) \in Nat /\ Len(x) \in Nat \ {0}
  BY Behind, EmptySeq
<1>2. i <= Len(s)
  <2> SUFFICES ASSUME i > Len(s) PROVE FALSE
    BY <1>1
  <2>1. i - Len(s) \in 1..Len(x) /\ i = Len(s) + (i - Len(s))
    BY <1>1
  <2>2. x[i - Len(s)] = c
    BY <2>1, Behind
  <2> QED
    BY <2>1, <2>2
<1>3. Len(x) \in 1..Len(x)
  BY <1>1
<1>4. (s \o x)[Len(s) + Len(x)] = d /\ Len(s) + Len(x) \in DOMAIN (s \o x)
  BY <1>1, <1>3, Behind
<1> QED
  BY <1>1, <1>2, <1>4

LEMMA FirstOnce ==
  ASSUME NEW s \in Seq(Effects), NEW x \in Seq(Effects), NEW c,
         \/ ~Waits(s, c) /\ Len(x) = 1
         \/ AtMostOnce(s, c) /\ ~Waits(x, c)
  PROVE  AtMostOnce(s \o x, c)
<1>1. Len(s) \in Nat /\ Len(x) \in Nat /\ DOMAIN (s \o x) = 1..(Len(s) + Len(x))
  BY Behind
<1>2. CASE ~Waits(s, c) /\ Len(x) = 1
  <2>1. \A i \in 1..Len(s) : (s \o x)[i] # c
    BY <1>2, Behind DEF Waits
  <2>2. \A i \in DOMAIN (s \o x) : (s \o x)[i] = c => i = Len(s) + 1
    BY <1>1, <1>2, <2>1
  <2> QED
    BY <2>2 DEF AtMostOnce
<1>3. CASE AtMostOnce(s, c) /\ ~Waits(x, c)
  <2>1. ASSUME NEW i \in DOMAIN (s \o x), (s \o x)[i] = c
        PROVE  i \in 1..Len(s) /\ s[i] = c
    <3>1. i <= Len(s)
      <4> SUFFICES ASSUME i > Len(s) PROVE FALSE
        BY <1>1
      <4>1. i - Len(s) \in 1..Len(x) /\ i = Len(s) + (i - Len(s))
        BY <1>1
      <4>2. x[i - Len(s)] = c /\ i - Len(s) \in DOMAIN x
        BY <2>1, <4>1, Behind
      <4> QED
        BY <1>3, <4>2 DEF Waits
    <3> QED
      BY <1>1, <2>1, <3>1, Behind
  <2>2. DOMAIN s = 1..Len(s)
    BY Behind
  <2> QED
    BY <1>3, <2>1, <2>2 DEF AtMostOnce
<1> QED
  BY <1>2, <1>3

(* The backend takes the first. *)
LEMMA TakenCommand ==
  ASSUME NEW s \in Seq(Effects), s # <<>>
  PROVE  /\ Tail(s) \in Seq(Effects)
         /\ \A c : Waits(s, c) <=> Head(s) = c \/ Waits(Tail(s), c)
         /\ \A c, d : FollowedBy(s, c, d) =>
                /\ FollowedBy(Tail(s), c, d)
                /\ Head(s) = c => Waits(Tail(s), d)
         /\ \A c : AtMostOnce(s, c) =>
                AtMostOnce(Tail(s), c) /\ (Head(s) = c => ~Waits(Tail(s), c))
<1> DEFINE t == Tail(s)
<1>1. /\ t \in Seq(Effects) /\ Len(s) \in Nat \ {0} /\ Len(t) = Len(s) - 1
      /\ DOMAIN s = 1..Len(s) /\ DOMAIN t = 1..(Len(s) - 1)
      /\ \A i \in 1..(Len(s) - 1) : t[i] = s[i + 1]
      /\ Head(s) = s[1]
  BY HeadTailProperties, EmptySeq, LenProperties
<1> HIDE DEF t
<1>2. \A j \in DOMAIN s : j # 1 => j - 1 \in DOMAIN t /\ t[j - 1] = s[j]
  <2> TAKE j \in DOMAIN s
  <2> HAVE j # 1
  <2>1. j - 1 \in 1..(Len(s) - 1) /\ (j - 1) + 1 = j
    BY <1>1
  <2> QED
    BY <1>1, <2>1
<1>3. \A i \in DOMAIN t : i + 1 \in DOMAIN s /\ s[i + 1] = t[i] /\ i + 1 # 1 /\ i \in Int
  BY <1>1
<1>4. ASSUME NEW c PROVE Waits(s, c) <=> s[1] = c \/ Waits(t, c)
  <2>1. 1 \in DOMAIN s
    BY <1>1
  <2>2. ASSUME Waits(s, c), s[1] # c PROVE Waits(t, c)
    <3>1. PICK j \in DOMAIN s : s[j] = c
      BY <2>2 DEF Waits
    <3>2. j - 1 \in DOMAIN t /\ t[j - 1] = c
      BY <1>2, <2>2, <3>1
    <3> QED
      BY <3>2 DEF Waits
  <2>3. ASSUME Waits(t, c) PROVE Waits(s, c)
    <3>1. PICK i \in DOMAIN t : t[i] = c
      BY <2>3 DEF Waits
    <3>2. i + 1 \in DOMAIN s /\ s[i + 1] = c
      BY <1>3, <3>1
    <3> QED
      BY <3>2 DEF Waits
  <2>4. s[1] = c => Waits(s, c)
    BY <2>1 DEF Waits
  <2> QED
    BY <2>2, <2>3, <2>4
<1>5. ASSUME NEW c, NEW d, FollowedBy(s, c, d)
      PROVE  FollowedBy(t, c, d) /\ (s[1] = c => Waits(t, d))
  <2>1. ASSUME NEW i \in DOMAIN t, t[i] = c PROVE \E j \in DOMAIN t : j > i /\ t[j] = d
    <3>1. PICK j \in DOMAIN s : j > i + 1 /\ s[j] = d
      BY <1>3, <1>5, <2>1 DEF FollowedBy
    <3>2. j # 1 /\ j - 1 > i
      BY <1>1, <1>3, <3>1
    <3> QED
      BY <1>2, <3>1, <3>2
  <2>2. ASSUME s[1] = c PROVE Waits(t, d)
    <3>1. 1 \in DOMAIN s
      BY <1>1
    <3>2. PICK j \in DOMAIN s : j > 1 /\ s[j] = d
      BY <1>5, <2>2, <3>1 DEF FollowedBy
    <3>3. j # 1
      BY <1>1, <3>2
    <3> QED
      BY <1>2, <3>2, <3>3 DEF Waits
  <2> QED
    BY <2>1, <2>2 DEF FollowedBy
<1>6. ASSUME NEW c, AtMostOnce(s, c)
      PROVE  AtMostOnce(t, c) /\ (s[1] = c => ~Waits(t, c))
  <2>1. ASSUME NEW i \in DOMAIN t, NEW j \in DOMAIN t, t[i] = c, t[j] = c PROVE i = j
    <3>1. i + 1 = j + 1
      BY <1>3, <1>6, <2>1 DEF AtMostOnce
    <3> QED
      BY <1>3, <3>1
  <2>2. s[1] = c => ~Waits(t, c)
    <3>1. 1 \in DOMAIN s
      BY <1>1
    <3> QED
      BY <1>3, <1>6, <3>1 DEF AtMostOnce, Waits
  <2> QED
    BY <2>1, <2>2 DEF AtMostOnce
<1> QED
  BY <1>1, <1>4, <1>5, <1>6 DEF t
-----------------------------------------------------------------------------
(* What a step does to the stream. *)
LostAction == Plain("lost")

LEMMA StreamParts ==
  ASSUME Types
  PROVE  /\ batch \in Seq(Actions) /\ events \in Seq(Actions) /\ out \in Seq(Actions)
         /\ Loss \in Seq(Actions) /\ Leaving \in Seq(Actions) /\ Stream \in Seq(Actions)
         /\ LostAction \in Actions /\ LostAction.kind = "lost" /\ <<>> \in Seq(Actions)
<1>1. batch \in Seq(Actions) /\ events \in Seq(Actions)
  BY DEF Types, Queues
<1>2. out \in Seq(Actions)
  <2>1. out \in Seq(Reports) /\ Reports \subseteq Actions
    BY DEF Types, Queues, Reports
  <2> QED
    BY <2>1, SeqMonotonic
<1>3. Plain("lost") \in Actions /\ Plain("lost").kind = "lost" /\ <<>> \in Seq(Actions)
  BY PlainType DEF ActionKinds
<1>4. Loss \in Seq(Actions)
  BY <1>3 DEF Loss
<1>5. Leaving \in Seq(Actions)
  BY <1>2, <1>3 DEF Leaving
<1>6. Stream \in Seq(Actions)
  BY <1>1, <1>4, <1>5, LineType DEF Stream, Four
<1> QED
  BY <1>1, <1>2, <1>3, <1>4, <1>5, <1>6 DEF LostAction

(* Nothing that the stream is made of changes. *)
LEMMA StreamKept ==
  ASSUME UNCHANGED <<batch, lossPending, events>>,
         \/ UNCHANGED <<backend, out>>
         \/ backend # "emit" /\ backend' # "emit"
  PROVE  Stream' = Stream
<1>1. Leaving' = Leaving
  BY DEF Leaving
<1>2. Loss' = Loss
  BY DEF Loss
<1>3. batch' = batch /\ events' = events
  OBVIOUS
<1> QED
  BY <1>1, <1>2, <1>3 DEF Stream

(* The backend says something. *)
LEMMA StreamGrows ==
  ASSUME Types, UNCHANGED <<batch, lossPending, events>>, backend # "emit",
         NEW x \in Seq(Actions), NEW pc, EmitThen(x, pc)
  PROVE  Stream' = Stream \o x
<1>1. Leaving = <<>> /\ Leaving' = x
  BY DEF Leaving, EmitThen
<1>2. Loss' = Loss
  BY DEF Loss
<1>3. Stream = Line(batch, Loss, events, <<>>)
  BY <1>1 DEF Stream
<1>4. Stream' = Line(batch, Loss, events, x)
  BY <1>1, <1>2 DEF Stream
<1>5. Line(batch, Loss, events, x) = Line(batch, Loss, events, <<>>) \o x
  <2>1. Four(batch, Loss, events, x)
    BY StreamParts DEF Four
  <2> QED
    BY <2>1, LineGrows
<1> QED
  BY <1>3, <1>4, <1>5

LEMMA StreamQueues ==
  ASSUME Types, UNCHANGED <<batch, lossPending>>, backend # "emit", backend' # "emit",
         NEW a \in Actions, events' = Append(events, a)
  PROVE  Stream' = Stream \o <<a>>
<1>1. Leaving = <<>> /\ Leaving' = <<>>
  BY DEF Leaving
<1>2. Loss' = Loss
  BY DEF Loss
<1>3. Stream = Line(batch, Loss, events, <<>>)
  BY <1>1 DEF Stream
<1>4. Stream' = Line(batch, Loss, Append(events, a), <<>>)
  BY <1>1, <1>2 DEF Stream
<1>5. Line(batch, Loss, Append(events, a), <<>>) = Line(batch, Loss, events, <<>>) \o <<a>>
  <2>1. Four(batch, Loss, events, <<>>)
    BY StreamParts DEF Four
  <2> QED
    BY <2>1, LineQueues
<1> QED
  BY <1>3, <1>4, <1>5

(* The pending loss is told. *)
LEMMA StreamSlips ==
  ASSUME Types, UNCHANGED <<batch, events>>, backend # "emit", backend' # "emit",
         lossPending' = TRUE
  PROVE  \/ Stream' = Stream /\ Carries(Stream, {"lost"})
         \/ \E l, r \in Seq(Actions) : Stream = l \o r /\ Stream' = l \o (<<LostAction>> \o r)
<1>1. Leaving = <<>> /\ Leaving' = <<>>
  BY DEF Leaving
<1>2. Loss' = <<LostAction>>
  BY DEF Loss, LostAction
<1>3. Stream' = Line(batch, <<LostAction>>, events, <<>>)
  BY <1>1, <1>2 DEF Stream
<1>0. batch \in Seq(Actions) /\ events \in Seq(Actions) /\ LostAction \in Actions
  BY StreamParts
<1>4. Line(batch, <<LostAction>>, events, <<>>) = batch \o (<<LostAction>> \o events)
  BY <1>0, LineSlips
<1>5. CASE lossPending
  <2>1. Loss = <<LostAction>>
    BY <1>5 DEF Loss, LostAction
  <2>2. Stream = batch \o (<<LostAction>> \o events)
    BY <1>1, <1>4, <2>1 DEF Stream
  <2>3. Carries(batch \o (<<LostAction>> \o events), {"lost"})
    BY StreamParts, SlipCarries
  <2> QED
    BY <1>3, <1>4, <2>2, <2>3
<1>6. CASE ~lossPending
  <2>1. Loss = <<>>
    BY <1>6 DEF Loss
  <2>2. Stream = Line(batch, <<>>, events, <<>>)
    BY <1>1, <2>1 DEF Stream
  <2>3. Line(batch, <<>>, events, <<>>) = batch \o events
    BY StreamParts, LineSlips
  <2>4. batch \in Seq(Actions) /\ events \in Seq(Actions)
    BY StreamParts
  <2> QED
    BY <1>3, <1>4, <2>2, <2>3, <2>4
<1> QED
  BY <1>5, <1>6

(* Nothing is lost on the way. *)
LEMMA StreamEmits ==
  ASSUME Types, EmitQueued, out' = Tail(out), UNCHANGED <<batch, lossPending>>,
         backend' = IF Tail(out) = <<>> THEN after ELSE "emit"
  PROVE  Stream' = Stream
<1>1. backend = "emit" /\ out # <<>> /\ events' = Append(events, Head(out)) /\ after # "emit"
  BY DEF EmitQueued, Types, Busy, Scalars
<1>2. Leaving = out /\ Leaving' = Tail(out)
  BY <1>1 DEF Leaving
<1>3. Loss' = Loss
  BY DEF Loss
<1>4. Stream = Line(batch, Loss, events, out)
  BY <1>2 DEF Stream
<1>5. Stream' = Line(batch, Loss, Append(events, Head(out)), Tail(out))
  BY <1>1, <1>2, <1>3 DEF Stream
<1>6. Line(batch, Loss, Append(events, Head(out)), Tail(out)) = Line(batch, Loss, events, out)
  BY <1>1, StreamParts, LineEmits
<1> QED
  BY <1>4, <1>5, <1>6

LEMMA StreamCollects ==
  ASSUME Types, CollectLoss \/ CollectEvent
  PROVE  Stream' = Stream
<1>1. Leaving' = Leaving
  BY DEF CollectLoss, CollectEvent, notUi, Leaving
<1>2. CASE CollectLoss
  <2>1. /\ Loss = <<LostAction>> /\ Loss' = <<>> /\ batch' = Append(batch, LostAction)
        /\ events' = events
    BY <1>2 DEF CollectLoss, Loss, LostAction
  <2>2. Stream = Line(batch, <<LostAction>>, events, Leaving)
    BY <2>1 DEF Stream
  <2>3. Stream' = Line(Append(batch, LostAction), <<>>, events, Leaving)
    BY <1>1, <2>1 DEF Stream
  <2>4. Line(Append(batch, LostAction), <<>>, events, Leaving)
          = Line(batch, <<LostAction>>, events, Leaving)
    BY StreamParts, LineCollectsLoss
  <2> QED
    BY <2>2, <2>3, <2>4
<1>3. CASE CollectEvent
  <2>1. /\ Loss = <<>> /\ Loss' = <<>> /\ batch' = Append(batch, Head(events))
        /\ events' = Tail(events) /\ events # <<>>
    BY <1>3 DEF CollectEvent, Loss
  <2>2. Stream = Line(batch, <<>>, events, Leaving)
    BY <2>1 DEF Stream
  <2>3. Stream' = Line(Append(batch, Head(events)), <<>>, Tail(events), Leaving)
    BY <1>1, <2>1 DEF Stream
  <2>4. Line(Append(batch, Head(events)), <<>>, Tail(events), Leaving)
          = Line(batch, <<>>, events, Leaving)
    BY <2>1, StreamParts, LineCollects
  <2> QED
    BY <2>2, <2>3, <2>4
<1> QED
  BY <1>2, <1>3

LEMMA StreamTakes ==
  ASSUME Types, Reduce
  PROVE  /\ Head(batch) \in Actions /\ Stream' \in Seq(Actions)
         /\ Stream = <<Head(batch)>> \o Stream'
<1>1. batch # <<>> /\ batch' = Tail(batch) /\ UNCHANGED <<events, lossPending, backend, out>>
  BY ReduceTakes DEF Types, Busy, notReducer, notUi
<1>2. Leaving' = Leaving
  BY <1>1 DEF Leaving
<1>3. Loss' = Loss
  BY <1>1 DEF Loss
<1>4. Stream' = Line(Tail(batch), Loss, events, Leaving)
  BY <1>1, <1>2, <1>3 DEF Stream
<1>5. Stream = Line(batch, Loss, events, Leaving)
  BY DEF Stream
<1>6. Line(batch, Loss, events, Leaving) = <<Head(batch)>> \o Line(Tail(batch), Loss, events, Leaving)
  <2>1. Four(batch, Loss, events, Leaving)
    BY StreamParts DEF Four
  <2> QED
    BY <1>1, <2>1, LineTakes
<1>7. Head(batch) \in Actions /\ Tail(batch) \in Seq(Actions)
  BY <1>1, StreamParts, HeadTailProperties
<1>8. Line(Tail(batch), Loss, events, Leaving) \in Seq(Actions)
  <2>1. Four(Tail(batch), Loss, events, Leaving)
    BY <1>7, StreamParts DEF Four
  <2> QED
    BY <2>1, LineType
<1>9. Stream' \in Seq(Actions)
  BY <1>4, <1>8
<1>10. Stream = <<Head(batch)>> \o Stream'
  BY <1>4, <1>5, <1>6
<1> QED
  BY <1>7, <1>9, <1>10
-----------------------------------------------------------------------------
(* Why StatusIsReal holds. *)
RestartingNow == Restarting \/ (backend = "connect" /\ why = "login")
Comes(kinds)  == Carries(Stream, kinds)
Dialing       == Waits(commands, "connect") \/ (backend = "connect" /\ why = "command")
Retrying      ==
    \/ connection = "none" /\ (Waits(commands, "schedule") \/ pending # 0)
    \/ Connecting /\ why = "timer"
Hope          == Comes({"lost"}) \/ Waits(commands, "load")

(* The backend restarts, polls and closes a connection that there is.        *)
Standing ==
    /\ Restarting \/ inbox # <<>> => connection = "up"
    /\ backend = "closed" \/ (backend = "emit" /\ after = "closed") => connection = "up"
    /\ backend = "emit" /\ after = "connect" => why = "timer"
    /\ backend = "poll" => ~dropRequested
    /\ backend = "command" /\ dropRequested => connection = "none"

(* What is told of the connections before this one is followed by this one.  *)
Healed == connection = "up" => MadeGood(Stream)

(* A sign-in that the reducer may yet accept has an end behind it.           *)
SignInsDone == SignInsEnd(Stream, RestartingNow)

(* The end of a connection being made is coming.                             *)
ConnectingComes ==
    status = "connecting" =>
        \/ Dialing
        \/ Comes({"connected", "failed"})
        \/ auth = "restarting" /\ Ends(Stream, 0, RestartingNow)

(* During a recovery a retry is ahead, behind whatever else connects.        *)
RecoveryComes ==
    status = "recovering" =>
        /\ Retrying \/ Comes({"connected"})
        /\ Comes({"connected"}) \/ FollowedBy(commands, "connect", "schedule")
        /\ backend = "connect" /\ why # "timer" =>
               Comes({"connected"}) \/ Waits(commands, "schedule")

(* One sign-in has one answer.                                               *)
OneAnswer ==
    /\ count.logins = 0 => ~Waits(commands, "login") /\ ~Comes(Answers)
    /\ count.logins <= 1 =>
           /\ AtMostOnce(commands, "login") /\ AtMostOneAnswer(Stream)
           /\ ~(Waits(commands, "login") /\ Comes(Answers))

(* A loss that the UI does not know of is coming, or what will tell it; and  *)
(* so it will be when a sign-in takes the connection down.                   *)
LossComes ==
    status = "online" /\ ~SignInMayBeForgotten =>
        /\ connection = "none" \/ Restarting =>
               Hope \/ (auth = "submitting" /\ Comes({"loginAccepted"}))
        /\ dropRequested => Hope
        /\ auth = "submitting" \/ Comes({"lost"}) \/ FollowedBy(commands, "login", "load")

Real ==
    /\ Healed /\ SignInsDone /\ ConnectingComes /\ RecoveryComes /\ OneAnswer /\ LossComes

RealInv == Types /\ Standing /\ (~Excused => Real)

(* A step without excuse starts without one. *)
LEMMA NoNewExcuse == ASSUME Types, [Next]_vars, ~Excused' PROVE ~Excused
<1>1. quitting => quitting'
  <2>1. UI \/ Backend \/ ServerDies \/ ServerSends \/ Exited \/ UNCHANGED vars =>
            UNCHANGED quitting
    BY DEF UI, Tick, CollectLoss, CollectEvent, CollectDone, Reduce,
         ReduceConnected, ReduceConnectionLost, ReduceRetryScheduled, ReduceRetryStarted,
         ReduceConnectionFailed, ReduceLoginAccepted, ReduceLoginFailed,
         ReduceRestartFailed, ReduceAccountLoaded, ReduceOther, notReducer,
         Backend, Emit, TopStep, PollLossy, PollSemantic, PollOverload, PollDisconnected,
         PollClosed, SignalClosed, PollEmpty, NoCommand, StopBackend, RunConnect, RunSchedule,
         RunLoad, RunLocal, RunLogin, Restart, ConnectSucceeds, ConnectFails, TimerDue,
         TimerNotDue, notCommand, notBackend, ServerDies, ServerSends, notServer, Exited, vars
  <2>2. User => (quitting => quitting')
    BY DEF User, RetryConnection, UserEffect, SubmitLogin, Quit, UserMayAct
  <2> QED
    BY <2>1, <2>2 DEF Next
<1>2. missed => missed'
  <2>1. UI => (missed => missed')
    BY DEF UI, Tick, CollectLoss, CollectEvent, CollectDone, Reduce,
         ReduceConnected, ReduceConnectionLost, ReduceRetryScheduled, ReduceRetryStarted,
         ReduceConnectionFailed, ReduceLoginAccepted, ReduceLoginFailed,
         ReduceRestartFailed, ReduceAccountLoaded, ReduceOther, NoEffects, SendEffects
  <2>2. Backend => (missed => missed')
    BY DEF Backend, Emit, EmitQueued, EmitTimedOut, TopStep, PollLossy, PollSemantic,
         PollOverload, PollDisconnected,
         PollClosed, SignalClosed, PollEmpty, NoCommand, StopBackend, RunConnect, RunSchedule,
         RunLoad, RunLocal, RunLogin, Restart, ConnectSucceeds, ConnectFails, TimerDue,
         TimerNotDue, notCommand
  <2>3. User \/ ServerDies \/ ServerSends \/ Exited \/ UNCHANGED vars => UNCHANGED missed
    BY DEF User, RetryConnection, UserEffect, SubmitLogin, Quit, notUser,
         ServerDies, ServerSends, notServer, Exited, vars
  <2> QED
    BY <2>1, <2>2, <2>3 DEF Next
<1> QED
  BY <1>1, <1>2 DEF Excused

(* The stream grows by actions of some kinds, or not at all. *)
Grows(kinds) ==
    \E x \in Seq(Actions) : Stream' = Stream \o x /\ \A i \in DOMAIN x : x[i].kind \in kinds
Harmless == {"item", "note", "retryScheduled", "retryStarted"}

LEMMA KeptGrows == ASSUME Types, Stream' = Stream, NEW kinds PROVE Grows(kinds)
<1>1. <<>> \in Seq(Actions) /\ Stream \o <<>> = Stream /\ DOMAIN <<>> = {}
  BY StreamParts, ConcatEmptySeq
<1> QED
  BY <1>1 DEF Grows

LEMMA SaysGrows ==
  ASSUME Types, NEW a \in Actions, Stream' = Stream \o <<a>>
  PROVE  Grows({a.kind})
<1>1. <<a>> \in Seq(Actions) /\ DOMAIN <<a>> = {1} /\ <<a>>[1] = a
  OBVIOUS
<1> QED
  BY <1>1 DEF Grows

LEMMA GrowsMore == ASSUME NEW kinds, NEW more, kinds \subseteq more, Grows(kinds) PROVE Grows(more)
  BY DEF Grows

(* What is coming is still coming, and nothing new of other kinds.           *)
LEMMA GrowsCarries ==
  ASSUME Types, NEW kinds, Grows(kinds), NEW others
  PROVE  /\ Comes(others) => Comes(others)'
         /\ kinds \cap others = {} => (Comes(others)' => Comes(others))
<1>1. PICK x \in Seq(Actions) : Stream' = Stream \o x /\ \A i \in DOMAIN x : x[i].kind \in kinds
  BY DEF Grows
<1>2. Carries(Stream', others) <=> Carries(Stream, others) \/ Carries(x, others)
  BY <1>1, StreamParts, MoreCarries
<1>3. kinds \cap others = {} => ~Carries(x, others)
  BY <1>1 DEF Carries
<1> QED
  BY <1>2, <1>3 DEF Comes

LEMMA MoreEnds ==
  ASSUME NEW s \in Seq(Actions), NEW x \in Seq(Actions), NEW i \in 0..Len(s), NEW before, NEW now,
         Ends(s, i, before), before => now, ~Carries(x, {"lost", "account"}) \/ ~before
  PROVE  Ends(s \o x, i, now)
<1>1. CASE Settles(s, i)
  BY <1>1, MoreSettles DEF Ends
<1>2. CASE before /\ CalmAfter(s, i)
  <2>1. CalmAfter(s \o x, i)
    BY <1>2, MoreCalm
  <2> QED
    BY <1>2, <2>1 DEF Ends
<1> QED
  BY <1>1, <1>2 DEF Ends

LEMMA GrowsEnds ==
  ASSUME Types, NEW kinds, Grows(kinds), RestartingNow => RestartingNow',
         kinds \cap {"lost", "account"} = {} \/ ~RestartingNow
  PROVE  /\ Ends(Stream, 0, RestartingNow) => Ends(Stream, 0, RestartingNow)'
         /\ "loginAccepted" \notin kinds /\ SignInsDone => SignInsDone'
<1>1. PICK x \in Seq(Actions) : Stream' = Stream \o x /\ \A i \in DOMAIN x : x[i].kind \in kinds
  BY DEF Grows
<1>2. Stream \in Seq(Actions) /\ Len(Stream) \in Nat
  BY StreamParts, LenProperties
<1>3. ~Carries(x, {"lost", "account"}) \/ ~RestartingNow
  BY <1>1 DEF Carries
<1>4. ASSUME NEW i \in 0..Len(Stream), Ends(Stream, i, RestartingNow)
      PROVE  Ends(Stream \o x, i, RestartingNow')
  BY <1>2, <1>3, <1>4, MoreEnds
<1>5. Ends(Stream, 0, RestartingNow) => Ends(Stream', 0, RestartingNow')
  BY <1>1, <1>2, <1>4
<1>6. ASSUME "loginAccepted" \notin kinds, SignInsEnd(Stream, RestartingNow)
      PROVE  SignInsEnd(Stream', RestartingNow')
  <2>1. ~Carries(x, {"loginAccepted"})
    BY <1>1, <1>6 DEF Carries
  <2>2. SignInsEnd(Stream \o x, RestartingNow')
    BY <1>2, <1>4, <1>6, <2>1, MoreSignIns
  <2> QED
    BY <1>1, <2>2
<1> QED
  BY <1>5, <1>6 DEF SignInsDone

LEMMA GrowsMadeGood ==
  ASSUME Types, NEW kinds, Grows(kinds), kinds \cap {"lost", "restartFailed"} = {},
         MadeGood(Stream)
  PROVE  MadeGood(Stream)'
<1>1. PICK x \in Seq(Actions) : Stream' = Stream \o x /\ \A i \in DOMAIN x : x[i].kind \in kinds
  BY DEF Grows
<1>2. ~Carries(x, {"lost", "restartFailed"})
  BY <1>1 DEF Carries
<1>3. MadeGood(Stream \o x)
  BY <1>1, <1>2, StreamParts, MoreMadeGood
<1> QED
  BY <1>1, <1>3

LEMMA GrowsAnswers ==
  ASSUME Types, NEW kinds, Grows(kinds), kinds \cap Answers = {}, AtMostOneAnswer(Stream)
  PROVE  AtMostOneAnswer(Stream)'
<1>1. PICK x \in Seq(Actions) : Stream' = Stream \o x /\ \A i \in DOMAIN x : x[i].kind \in kinds
  BY DEF Grows
<1>2. ~Carries(x, Answers)
  BY <1>1 DEF Carries
<1>3. AtMostOneAnswer(Stream \o x)
  BY <1>1, <1>2, StreamParts, MoreAnswers
<1> QED
  BY <1>1, <1>3
-----------------------------------------------------------------------------
(* What keeps each part, whatever the step.                                  *)
LEMMA HealedKept ==
  ASSUME Types, NEW kinds, Grows(kinds), kinds \cap {"lost", "restartFailed"} = {},
         connection' = "up" => connection = "up", Healed
  PROVE  Healed'
<1> SUFFICES ASSUME connection' = "up" PROVE MadeGood(Stream)'
  BY DEF Healed
<1>1. MadeGood(Stream)
  BY DEF Healed
<1> QED
  BY <1>1, GrowsMadeGood

LEMMA ConnectingKept ==
  ASSUME Types, NEW kinds, Grows(kinds), RestartingNow => RestartingNow',
         kinds \cap {"lost", "account"} = {} \/ ~RestartingNow,
         UNCHANGED <<status, auth>>,
         Dialing => Dialing' \/ Comes({"connected", "failed"})',
         ConnectingComes
  PROVE  ConnectingComes'
<1>1. Comes({"connected", "failed"}) => Comes({"connected", "failed"})'
  BY GrowsCarries
<1>2. Ends(Stream, 0, RestartingNow) => Ends(Stream, 0, RestartingNow)'
  BY GrowsEnds
<1> QED
  BY <1>1, <1>2 DEF ConnectingComes

LEMMA RecoveryKept ==
  ASSUME Types, NEW kinds, Grows(kinds), UNCHANGED status,
         Retrying => Retrying' \/ Comes({"connected"})',
         FollowedBy(commands, "connect", "schedule") => FollowedBy(commands, "connect", "schedule")',
         backend' = "connect" /\ why' # "timer" =>
             /\ backend = "connect" /\ why # "timer"
             /\ Waits(commands, "schedule") => Waits(commands, "schedule")',
         RecoveryComes
  PROVE  RecoveryComes'
<1>1. Comes({"connected"}) => Comes({"connected"})'
  BY GrowsCarries
<1> QED
  BY <1>1 DEF RecoveryComes

LEMMA AnswersKept ==
  ASSUME Types, NEW kinds, Grows(kinds), kinds \cap Answers = {},
         count'.logins = count.logins,
         Waits(commands, "login")' => Waits(commands, "login"),
         AtMostOnce(commands, "login") => AtMostOnce(commands, "login")',
         OneAnswer
  PROVE  OneAnswer'
<1>1. Comes(Answers)' => Comes(Answers)
  BY GrowsCarries
<1>2. AtMostOneAnswer(Stream) => AtMostOneAnswer(Stream)'
  BY GrowsAnswers
<1> QED
  BY <1>1, <1>2 DEF OneAnswer

LEMMA LossKept ==
  ASSUME Types, NEW kinds, Grows(kinds),
         UNCHANGED <<status, auth, profile>>, count'.logins = count.logins,
         Waits(commands, "load") => Waits(commands, "load")' \/ Comes({"lost"})',
         FollowedBy(commands, "login", "load") => FollowedBy(commands, "login", "load")',
         connection' = "none" \/ Restarting' => connection = "none" \/ Restarting \/ dropRequested,
         dropRequested' => dropRequested,
         LossComes
  PROVE  LossComes'
<1>1. /\ Comes({"lost"}) => Comes({"lost"})'
      /\ Comes({"loginAccepted"}) => Comes({"loginAccepted"})'
  BY GrowsCarries
<1>2. Hope => Hope'
  BY <1>1 DEF Hope
<1>3. SignInMayBeForgotten => SignInMayBeForgotten'
  BY DEF SignInMayBeForgotten
<1> QED
  BY <1>1, <1>2, <1>3 DEF LossComes

LEMMA StandingInit == Init => Standing
  BY DEF Init, Standing, Restarting

LEMMA StandingStep == Types /\ Standing /\ [Next]_vars => Standing'
<1> SUFFICES ASSUME Types, Standing, [Next]_vars PROVE Standing'
  OBVIOUS
<1>0. /\ connection \in {"none", "up"} /\ after \in {"top", "closed", "timer", "restart", "connect"}
      /\ why \in {"command", "login", "timer"}
      /\ dropRequested \in BOOLEAN
  BY DEF Types, Scalars, Flags
<1> USE DEF Standing, Restarting, uiVars, schedulerVars, linkVars, signalVars, notBackend,
            notCommand, notUi, notReducer, notUser, notServer
<1>1. CASE Emit
  BY <1>0, <1>1 DEF Emit, EmitQueued, EmitTimedOut
<1>2. CASE TopStep
  BY <1>0, <1>2 DEF TopStep, DropConnection, Goto
<1>3. CASE PollLossy \/ PollSemantic
  BY <1>0, <1>3 DEF PollLossy, PollSemantic
<1>4. CASE PollOverload \/ PollDisconnected \/ SignalClosed
  BY <1>0, <1>4 DEF PollOverload, PollDisconnected, SignalClosed, DropConnection, Goto
<1>5. CASE PollClosed \/ PollEmpty
  BY <1>0, <1>5 DEF PollClosed, PollEmpty, EmitThen, Goto
<1>6. CASE NoCommand \/ StopBackend
  BY <1>0, <1>6 DEF NoCommand, StopBackend, DropConnection, Goto
<1>7. CASE RunConnect
  BY <1>0, <1>7 DEF RunConnect, Goto
<1>8. CASE RunSchedule
  BY <1>0, <1>8 DEF RunSchedule, EmitThen, Goto
<1>9. CASE RunLoad \/ RunLocal \/ RunLogin
  BY <1>0, <1>9 DEF RunLoad, RunLocal, RunLogin, EmitThen
<1>10. CASE Restart
  BY <1>0, <1>10 DEF Restart, DropConnection, EmitThen, Goto
<1>11. CASE ConnectSucceeds
  BY <1>0, <1>11 DEF ConnectSucceeds, AfterConnect, EmitThen
<1>12. CASE ConnectFails
  <2>1. /\ backend' = "emit" /\ after' \in {"timer", "top"} /\ inbox' = inbox /\ connection' = connection
        /\ dropRequested' = dropRequested
    BY <1>0, <1>12 DEF ConnectFails, EmitThen
  <2> QED
    BY <1>0, <1>12, <2>1 DEF ConnectFails
<1>13. CASE TimerDue \/ TimerNotDue
  BY <1>0, <1>13 DEF TimerDue, TimerNotDue, EmitThen, Goto
<1>14. CASE Tick \/ CollectLoss \/ CollectEvent \/ CollectDone
  BY <1>0, <1>14 DEF Tick, CollectLoss, CollectEvent, CollectDone
<1>15. CASE Reduce
  BY <1>0, <1>15, ReduceTakes
<1>16. CASE User
  BY <1>0, <1>16 DEF User, RetryConnection, UserEffect, SubmitLogin, Quit
<1>17. CASE ServerDies \/ ServerSends
  BY <1>0, <1>17 DEF ServerDies, ServerSends
<1>18. CASE UNCHANGED vars \/ Exited
  BY <1>0, <1>18 DEF Exited, vars
<1> QED
  BY <1>1, <1>2, <1>3, <1>4, <1>5, <1>6, <1>7, <1>8, <1>9, <1>10, <1>11, <1>12, <1>13, <1>14,
     <1>15, <1>16, <1>17, <1>18 DEF Next, Backend, UI

LEMMA RealInit == Init => RealInv
<1> SUFFICES ASSUME Init PROVE RealInv
  OBVIOUS
<1>1. Types /\ Standing
  BY TypesInit, StandingInit
<1>2. Stream = <<>>
  <2>1. batch = <<>> /\ Loss = <<>> /\ events = <<>> /\ Leaving = <<>>
    BY DEF Init, Loss, Leaving
  <2>2. <<>> \o <<>> = <<>>
    BY <1>1, StreamParts, ConcatEmptySeq
  <2> QED
    BY <2>1, <2>2 DEF Stream, Line
<1>3. \A kinds : ~Comes(kinds)
  BY <1>2 DEF Comes, Carries
<1>4. Healed /\ SignInsDone /\ AtMostOneAnswer(Stream)
  BY <1>2 DEF Healed, SignInsDone, MadeGood, SignInsEnd, AtMostOneAnswer
<1>5. status = "connecting" /\ count.logins = 0 /\ commands = <<"connect">>
  BY DEF Init
<1>6. Dialing /\ ~Waits(commands, "login") /\ AtMostOnce(commands, "login")
  BY <1>5 DEF Dialing, Waits, AtMostOnce
<1>7. ConnectingComes /\ RecoveryComes /\ LossComes
  BY <1>5, <1>6 DEF ConnectingComes, RecoveryComes, LossComes
<1>8. OneAnswer
  BY <1>3, <1>4, <1>6 DEF OneAnswer
<1> QED
  BY <1>1, <1>4, <1>7, <1>8 DEF RealInv, Real
-----------------------------------------------------------------------------
(* Steps that say nothing that matters. *)
Steady ==
    /\ UNCHANGED <<status, auth, profile, commands>> /\ count'.logins = count.logins
    /\ RestartingNow => RestartingNow'
    /\ Restarting' => Restarting
    /\ Dialing => Dialing'
    /\ Retrying => Retrying'
    /\ backend' = "connect" /\ why' # "timer" => backend = "connect" /\ why # "timer"
    /\ connection' = "up" => connection = "up"
    /\ connection' = "none" => connection = "none" \/ dropRequested
    /\ dropRequested' => dropRequested

LEMMA SteadyStep == ASSUME Types, Real, Grows(Harmless), Steady PROVE Real'
<1>1. Healed'
  BY HealedKept DEF Real, Steady, Harmless
<1>2. SignInsDone'
  BY GrowsEnds DEF Real, Steady, Harmless
<1>3. ConnectingComes'
  BY ConnectingKept DEF Real, Steady, Harmless
<1>4. RecoveryComes'
  BY RecoveryKept DEF Real, Steady, Harmless
<1>5. OneAnswer'
  BY AnswersKept DEF Real, Steady, Harmless, Answers
<1>6. LossComes'
  BY LossKept DEF Real, Steady, Harmless
<1> QED
  BY <1>1, <1>2, <1>3, <1>4, <1>5, <1>6 DEF Real

(* Something is said that is not the news of a connection.                   *)
LEMMA Said ==
  ASSUME Types, UNCHANGED <<batch, lossPending, events>>, backend # "emit",
         NEW a \in Actions, NEW pc, EmitThen(<<a>>, pc)
  PROVE  Stream' = Stream \o <<a>> /\ Grows({a.kind})
<1>1. <<a>> \in Seq(Actions)
  OBVIOUS
<1> QED
  BY <1>1, StreamGrows, SaysGrows

LEMMA QuietSteps ==
  ASSUME Types, Standing, Real,
         \/ Emit /\ EmitQueued
         \/ TopStep \/ PollLossy \/ PollSemantic \/ PollClosed \/ PollEmpty \/ NoCommand
         \/ TimerDue \/ TimerNotDue
         \/ Tick \/ CollectLoss \/ CollectEvent \/ CollectDone
         \/ ServerDies \/ ServerSends \/ Exited \/ UNCHANGED vars
  PROVE  Real'
<1>0. /\ connection \in {"none", "up"} /\ why \in {"command", "login", "timer"}
      /\ after \in {"top", "closed", "timer", "restart", "connect"}
      /\ dropRequested \in BOOLEAN /\ pending \in Nat /\ count \in [Counters -> Nat]
  BY DEF Types, Scalars, Flags
<1> USE DEF uiVars, schedulerVars, linkVars, signalVars, notBackend, notCommand, notUi,
            notReducer, notUser, notServer
<1>s. Stream' = Stream => Grows(Harmless)
  BY KeptGrows
<1>1. CASE Emit /\ EmitQueued
  <2>1. Stream' = Stream
    BY <1>1, StreamEmits DEF Emit
  <2>2. /\ UNCHANGED <<status, auth, profile, commands, count, after, why, connection, pending,
                       dropRequested>>
        /\ backend = "emit" /\ (backend' = after \/ backend' = "emit")
    BY <1>1 DEF Emit, EmitQueued
  <2>3. Steady
    BY <1>0, <2>2 DEF Steady, Standing, RestartingNow, Restarting, Dialing, Retrying, Connecting
  <2> QED
    BY <1>s, <2>1, <2>3, SteadyStep
<1>2. CASE TopStep \/ PollEmpty \/ NoCommand \/ TimerNotDue
  <2>1. /\ backend \in {"top", "poll", "command", "timer"}
        /\ backend' \in {"top", "poll", "command", "timer"}
        /\ UNCHANGED <<batch, lossPending, events, status, auth, profile, commands, count, pending>>
        /\ connection' = connection \/ (connection' = "none" /\ dropRequested)
        /\ dropRequested' => dropRequested
    BY <1>2 DEF TopStep, PollEmpty, NoCommand, TimerNotDue, DropConnection, Goto
  <2>2. Stream' = Stream
    BY <2>1, StreamKept
  <2>3. Steady
    BY <1>0, <2>1 DEF Steady, RestartingNow, Restarting, Dialing, Retrying, Connecting
  <2> QED
    BY <1>s, <2>2, <2>3, SteadyStep
<1>3. CASE PollLossy \/ PollSemantic
  <2>1. /\ backend = "poll" /\ backend' = "poll"
        /\ UNCHANGED <<batch, lossPending, out, status, auth, profile, commands, count, pending,
                       connection, dropRequested, why>>
        /\ events' = events \/ events' = Append(events, Plain("item"))
    BY <1>3 DEF PollLossy, PollSemantic
  <2>2. Plain("item") \in Actions /\ Plain("item").kind = "item"
    BY PlainType DEF ActionKinds
  <2>3. Grows(Harmless)
    <3>1. CASE events' = events
      BY <1>s, <2>1, <3>1, StreamKept
    <3>2. CASE events' = Append(events, Plain("item"))
      <4>1. Stream' = Stream \o <<Plain("item")>>
        BY <2>1, <2>2, <3>2, StreamQueues
      <4>2. Grows({"item"})
        BY <2>2, <4>1, SaysGrows
      <4> QED
        BY <4>2, GrowsMore DEF Harmless
    <3> QED
      BY <2>1, <3>1, <3>2
  <2>4. Steady
    BY <1>0, <2>1 DEF Steady, RestartingNow, Restarting, Dialing, Retrying, Connecting
  <2> QED
    BY <2>3, <2>4, SteadyStep
<1>4. CASE PollClosed
  <2>1. /\ backend = "poll" /\ backend' = "emit" /\ after' = "closed"
        /\ UNCHANGED <<batch, lossPending, events, status, auth, profile, commands, count,
                       pending, connection, dropRequested, why>>
        /\ EmitThen(<<Plain("note")>>, "closed")
    BY <1>4 DEF PollClosed, EmitThen
  <2>2. Plain("note") \in Actions /\ Plain("note").kind = "note"
    BY PlainType DEF ActionKinds
  <2>3. Grows({"note"})
    BY <2>1, <2>2, Said
  <2>4. Steady
    BY <1>0, <2>1 DEF Steady, RestartingNow, Restarting, Dialing, Retrying, Connecting
  <2> QED
    BY <2>3, <2>4, GrowsMore, SteadyStep DEF Harmless
<1>5. CASE TimerDue
  <2>1. /\ backend = "timer" /\ backend' = "emit" /\ after' = "connect" /\ why' = "timer"
        /\ UNCHANGED <<batch, lossPending, events, status, auth, profile, commands, count,
                       connection, dropRequested>>
        /\ EmitThen(<<Act("retryStarted", pending, 0)>>, "connect")
    BY <1>5 DEF TimerDue, EmitThen
  <2>2. /\ Act("retryStarted", pending, 0) \in Actions
        /\ Act("retryStarted", pending, 0).kind = "retryStarted"
    BY <1>0, Constants DEF Act, Actions, ActionKinds
  <2>3. Grows({"retryStarted"})
    BY <2>1, <2>2, Said
  <2>4. Steady
    BY <1>0, <2>1 DEF Steady, RestartingNow, Restarting, Dialing, Retrying, Connecting
  <2> QED
    BY <2>3, <2>4, GrowsMore, SteadyStep DEF Harmless
<1>6. CASE \/ Tick \/ CollectLoss \/ CollectEvent \/ CollectDone
           \/ ServerDies \/ ServerSends \/ Exited \/ UNCHANGED vars
  <2>1. /\ UNCHANGED <<status, auth, profile, commands, pending, connection, dropRequested,
                       why, backend, after, out>>
        /\ count'.logins = count.logins
    <3>1. CASE ServerDies \/ ServerSends
      <4>1. count'.logins = count.logins
        BY <1>0, <3>1 DEF ServerDies, ServerSends, Counted, Extra, Counters
      <4> QED
        BY <3>1, <4>1 DEF ServerDies, ServerSends
    <3>2. CASE ~(ServerDies \/ ServerSends)
      BY <1>6, <3>2 DEF Tick, CollectLoss, CollectEvent, CollectDone, Exited, vars
    <3> QED
      BY <3>1, <3>2
  <2>2. Stream' = Stream
    <3>1. CASE CollectLoss \/ CollectEvent
      BY <3>1, StreamCollects
    <3>2. CASE ~(CollectLoss \/ CollectEvent)
      <4>1. UNCHANGED <<batch, lossPending, events>>
        BY <1>6, <3>2 DEF Tick, CollectDone, ServerDies, ServerSends, Exited, vars
      <4> QED
        BY <2>1, <4>1, StreamKept
    <3> QED
      BY <3>1, <3>2
  <2>3. Steady
    BY <2>1 DEF Steady, RestartingNow, Restarting, Dialing, Retrying, Connecting
  <2> QED
    BY <1>s, <2>2, <2>3, SteadyStep
<1> QED
  BY <1>1, <1>2, <1>3, <1>4, <1>5, <1>6

(* The connection is found to be gone, and told. *)
LEMMA LossTold ==
  ASSUME Types, PollOverload \/ PollDisconnected \/ SignalClosed, MadeGood(Stream),
         backend # "emit", ~RestartingNow
  PROVE  /\ Comes({"lost"})'
         /\ \A kinds : Comes(kinds) => Comes(kinds)'
         /\ Comes(Answers)' => Comes(Answers)
         /\ AtMostOneAnswer(Stream) => AtMostOneAnswer(Stream)'
         /\ \A now : SignInsEnd(Stream, RestartingNow) => SignInsEnd(Stream', now)
<1> USE DEF notBackend, uiVars
<1>1. /\ backend' # "emit" /\ UNCHANGED batch
      /\ \/ UNCHANGED events /\ lossPending' = TRUE
         \/ UNCHANGED lossPending /\ events' = Append(events, LostAction)
  BY DEF PollOverload, PollDisconnected, SignalClosed, Goto, LostAction, signalVars
<1>2. LostAction \in Actions /\ LostAction.kind = "lost"
  BY StreamParts
<1>3. CASE \E l, r \in Seq(Actions) : Stream = l \o r /\ Stream' = l \o (<<LostAction>> \o r)
  <2>1. PICK l, r \in Seq(Actions) : Stream = l \o r /\ Stream' = l \o (<<LostAction>> \o r)
    BY <1>3
  <2>2. \A kinds : Carries(Stream', kinds) <=> Carries(Stream, kinds) \/ "lost" \in kinds
    BY <1>2, <2>1, SlipCarries
  <2>3. AtMostOneAnswer(Stream) => AtMostOneAnswer(Stream')
    BY <1>2, <2>1, SlipAnswers DEF Answers
  <2>4. \A now : SignInsEnd(Stream, RestartingNow) => SignInsEnd(Stream', now)
    <3>1. MadeGood(l \o r)
      BY <2>1
    <3>2. LostAction.kind # "loginAccepted"
      BY <1>2
    <3>3. ASSUME NEW now, NEW before, ~before, SignInsEnd(l \o r, before)
          PROVE  SignInsEnd(l \o (<<LostAction>> \o r), now)
      BY <1>2, <3>1, <3>2, <3>3, SlipSignIns
    <3> TAKE now
    <3> HAVE SignInsEnd(Stream, RestartingNow)
    <3>4. SignInsEnd(l \o r, RestartingNow) /\ ~RestartingNow
      BY <2>1
    <3>5. SignInsEnd(l \o (<<LostAction>> \o r), now)
      BY <3>3, <3>4
    <3> QED
      BY <2>1, <3>5
  <2> QED
    BY <2>2, <2>3, <2>4 DEF Comes, Answers
<1>4. CASE Stream' = Stream \o <<LostAction>>
  <2>0. Stream \in Seq(Actions) /\ <<LostAction>> \in Seq(Actions)
    BY <1>2, StreamParts
  <2>1. Carries(<<LostAction>>, {"lost"}) /\ \A kinds : Carries(<<LostAction>>, kinds) => "lost" \in kinds
    BY <1>2 DEF Carries
  <2>2. \A kinds : Carries(Stream', kinds) <=> Carries(Stream, kinds) \/ Carries(<<LostAction>>, kinds)
    BY <1>4, <2>0, MoreCarries
  <2>3. AtMostOneAnswer(Stream) => AtMostOneAnswer(Stream')
    BY <1>4, <2>0, <2>1, MoreAnswers DEF Answers
  <2>4. ASSUME NEW now, SignInsEnd(Stream, RestartingNow) PROVE SignInsEnd(Stream', now)
    <3>1. ASSUME NEW i \in 0..Len(Stream), Ends(Stream, i, RestartingNow)
          PROVE  Ends(Stream \o <<LostAction>>, i, now)
      <4>1. Settles(Stream, i)
        BY <3>1 DEF Ends
      <4>2. Settles(Stream \o <<LostAction>>, i)
        BY <2>0, <4>1, MoreSettles
      <4> QED
        BY <4>2 DEF Ends
    <3>2. ~Carries(<<LostAction>>, {"loginAccepted"})
      BY <2>1
    <3>3. SignInsEnd(Stream \o <<LostAction>>, now)
      BY <2>0, <2>4, <3>1, <3>2, MoreSignIns
    <3> QED
      BY <1>4, <3>3
  <2> QED
    BY <2>1, <2>2, <2>3, <2>4 DEF Comes, Answers
<1>5. CASE Stream' = Stream /\ Carries(Stream, {"lost"})
  <2>1. ASSUME NEW now, SignInsEnd(Stream, RestartingNow) PROVE SignInsEnd(Stream, now)
    BY <2>1 DEF SignInsEnd, Ends
  <2> QED
    BY <1>5, <2>1 DEF Comes
<1> QED
  BY <1>1, <1>2, <1>3, <1>4, <1>5, StreamSlips, StreamQueues

LEMMA LossSteps ==
  ASSUME Types, Standing, Real, PollOverload \/ PollDisconnected \/ SignalClosed
  PROVE  Real'
<1> USE DEF notBackend, uiVars
<1>1. /\ backend \in {"poll", "closed"} /\ backend' = "command"
      /\ UNCHANGED <<status, auth, profile, commands, count>> /\ connection' = "none"
  BY DEF PollOverload, PollDisconnected, SignalClosed, DropConnection, Goto
<1>2. connection = "up"
  BY DEF PollOverload, PollDisconnected, SignalClosed, Standing
<1>3. MadeGood(Stream) /\ ~RestartingNow /\ ~Connecting
  BY <1>1, <1>2 DEF Real, Healed, RestartingNow, Restarting, Connecting
<1>4. /\ Comes({"lost"})'
      /\ \A kinds : Comes(kinds) => Comes(kinds)'
      /\ Comes(Answers)' => Comes(Answers)
      /\ AtMostOneAnswer(Stream) => AtMostOneAnswer(Stream)'
      /\ \A now : SignInsEnd(Stream, RestartingNow) => SignInsEnd(Stream', now)
  BY <1>1, <1>3, LossTold
<1>5. Healed'
  BY <1>1 DEF Healed
<1>6. SignInsDone'
  BY <1>4 DEF Real, SignInsDone
<1>7. ConnectingComes'
  <2>1. Ends(Stream, 0, RestartingNow) => Comes({"connected", "failed"})
    <3> SUFFICES ASSUME Settles(Stream, 0) PROVE Comes({"connected", "failed"})
      BY <1>3 DEF Ends
    <3>1. Stream \in Seq(Actions) /\ 0 \in 0..Len(Stream) /\ DOMAIN Stream = 1..Len(Stream)
      BY StreamParts, LenProperties
    <3>2. \E k \in 1..Len(Stream) : k > 0 /\ Stream[k].kind \in {"connected", "failed"}
      BY <1>3, <3>1, GoodSettles
    <3> QED
      BY <3>1, <3>2 DEF Comes, Carries
  <2>2. Dialing => Dialing'
    BY <1>1 DEF Dialing
  <2> QED
    BY <1>1, <1>4, <2>1, <2>2 DEF Real, ConnectingComes
<1>8. RecoveryComes'
  <2>1. ~Retrying
    BY <1>2, <1>3 DEF Retrying
  <2> QED
    BY <1>1, <1>4, <2>1 DEF Real, RecoveryComes
<1>9. OneAnswer'
  BY <1>1, <1>4 DEF Real, OneAnswer
<1>10. LossComes'
  BY <1>1, <1>4 DEF LossComes, Hope
<1> QED
  BY <1>5, <1>6, <1>7, <1>8, <1>9, <1>10 DEF Real
-----------------------------------------------------------------------------
(* Commands. *)
LEMMA Taken ==
  ASSUME Types, NEW c \in Effects, Take(c)
  PROVE  /\ backend = "command" /\ Waits(commands, c)
         /\ \A d : Waits(commands', d) => Waits(commands, d)
         /\ \A d : d # c /\ Waits(commands, d) => Waits(commands', d)
         /\ \A d, e : FollowedBy(commands, d, e) =>
                FollowedBy(commands', d, e) /\ (d = c => Waits(commands', e))
         /\ AtMostOnce(commands, "login") =>
                AtMostOnce(commands', "login") /\ (c = "login" => ~Waits(commands', "login"))
<1>1. /\ backend = "command" /\ commands # <<>> /\ Head(commands) = c /\ commands' = Tail(commands)
      /\ commands \in Seq(Effects)
  BY DEF Take, Types, Queues
<1> QED
  BY <1>1, TakenCommand

LEMMA NothingElseAtCommand ==
  ASSUME backend = "command" PROVE ~RestartingNow /\ ~Restarting /\ ~Connecting
  BY DEF RestartingNow, Restarting, Connecting

LEMMA LocalStep == ASSUME Types, Real, RunLocal PROVE Real'
<1> USE DEF notCommand, notBackend, uiVars, linkVars, schedulerVars, signalVars
<1>1. /\ UNCHANGED <<batch, lossPending, events, status, auth, profile, count, connection,
                     pending, dropRequested, why>>
      /\ EmitThen(<<Plain("note")>>, "timer") /\ Take("local")
      /\ backend' = "emit" /\ after' = "timer"
  BY DEF RunLocal, EmitThen
<1>2. Plain("note") \in Actions /\ Plain("note").kind = "note" /\ "local" \in Effects
  BY PlainType DEF ActionKinds, Effects
<1>3. /\ backend = "command" /\ Waits(commands, "local")
      /\ \A d : Waits(commands', d) => Waits(commands, d)
      /\ \A d : d # "local" /\ Waits(commands, d) => Waits(commands', d)
      /\ \A d, e : FollowedBy(commands, d, e) => FollowedBy(commands', d, e)
      /\ AtMostOnce(commands, "login") => AtMostOnce(commands', "login")
  BY <1>1, <1>2, Taken
<1>4. Grows({"note"})
  BY <1>1, <1>2, <1>3, Said
<1>5. ~RestartingNow /\ ~Restarting /\ ~Connecting /\ ~Restarting' /\ ~Connecting'
  BY <1>1, <1>3 DEF RestartingNow, Restarting, Connecting
<1>6. Healed' /\ SignInsDone'
  BY <1>1, <1>4, <1>5, HealedKept, GrowsEnds DEF Real
<1>7. ConnectingComes'
  BY <1>1, <1>3, <1>4, <1>5, ConnectingKept DEF Real, Dialing
<1>8. RecoveryComes'
  BY <1>1, <1>3, <1>4, <1>5, RecoveryKept DEF Real, Retrying
<1>9. OneAnswer'
  BY <1>1, <1>3, <1>4, AnswersKept DEF Real, Answers
<1>10. LossComes'
  BY <1>1, <1>3, <1>4, <1>5, LossKept DEF Real
<1> QED
  BY <1>6, <1>7, <1>8, <1>9, <1>10 DEF Real

LEMMA LoadStep == ASSUME Types, Standing, Real, RunLoad PROVE Real'
<1> USE DEF notCommand, notBackend, uiVars, linkVars, schedulerVars, signalVars
<1>1. PICK reply \in Replies : EmitThen(<<Plain(reply)>>, "timer")
  BY DEF RunLoad
<1>2. /\ UNCHANGED <<batch, lossPending, events, status, auth, profile, count, connection,
                     pending, dropRequested, why>>
      /\ Take("load") /\ backend' = "emit" /\ after' = "timer"
  BY <1>1 DEF RunLoad, EmitThen
<1>3. /\ reply \in {"note", "account", "lost"} /\ "load" \in Effects
      /\ connection = "none" <=> reply = "lost"
  BY <1>1 DEF Replies, Effects
<1>4. Plain(reply) \in Actions /\ Plain(reply).kind = reply
  BY <1>3, PlainType DEF ActionKinds
<1>5. /\ backend = "command" /\ Waits(commands, "load")
      /\ \A d : Waits(commands', d) => Waits(commands, d)
      /\ \A d : d # "load" /\ Waits(commands, d) => Waits(commands', d)
      /\ \A d, e : FollowedBy(commands, d, e) => FollowedBy(commands', d, e)
      /\ AtMostOnce(commands, "login") => AtMostOnce(commands', "login")
  BY <1>2, <1>3, Taken
<1>6. Grows({reply}) /\ Stream' = Stream \o <<Plain(reply)>>
  BY <1>1, <1>2, <1>4, <1>5, Said
<1>7. ~RestartingNow /\ ~Restarting /\ ~Connecting /\ ~Restarting' /\ ~Connecting'
  BY <1>2, <1>5 DEF RestartingNow, Restarting, Connecting
<1>8. Healed'
  BY <1>2, <1>3, <1>6, HealedKept DEF Real, Healed
<1>9. SignInsDone'
  BY <1>3, <1>6, <1>7, GrowsEnds DEF Real
<1>10. ConnectingComes'
  BY <1>2, <1>3, <1>5, <1>6, <1>7, ConnectingKept DEF Real, Dialing
<1>11. RecoveryComes'
  BY <1>2, <1>5, <1>6, <1>7, RecoveryKept DEF Real, Retrying
<1>12. OneAnswer'
  BY <1>2, <1>3, <1>5, <1>6, AnswersKept DEF Real, Answers
<1>13. LossComes'
  <2>1. connection = "none" => Comes({"lost"})'
    <3> SUFFICES ASSUME reply = "lost" PROVE Carries(Stream', {"lost"})
      BY <1>3 DEF Comes
    <3>1. Stream \in Seq(Actions) /\ <<Plain(reply)>> \in Seq(Actions)
      BY <1>4, StreamParts
    <3>2. Carries(<<Plain(reply)>>, {"lost"})
      BY <1>4 DEF Carries
    <3> QED
      BY <1>6, <3>1, <3>2, MoreCarries
  <2>2. /\ Comes({"lost"}) => Comes({"lost"})'
    BY <1>6, GrowsCarries
  <2>3. dropRequested => connection = "none"
    BY <1>5 DEF Standing
  <2> QED
    BY <1>2, <1>5, <1>7, <2>1, <2>2, <2>3 DEF Real, LossComes, Hope, SignInMayBeForgotten
<1> QED
  BY <1>8, <1>9, <1>10, <1>11, <1>12, <1>13 DEF Real

LEMMA ScheduleStep == ASSUME Types, Real, RunSchedule PROVE Real'
<1> USE DEF notCommand, notBackend, uiVars, linkVars, signalVars
<1>1. /\ UNCHANGED <<batch, lossPending, events, status, auth, profile, count, connection,
                     dropRequested, why>>
      /\ Take("schedule") /\ "schedule" \in Effects
  BY DEF RunSchedule, Effects
<1>2. /\ backend = "command" /\ Waits(commands, "schedule")
      /\ \A d : Waits(commands', d) => Waits(commands, d)
      /\ \A d : d # "schedule" /\ Waits(commands, d) => Waits(commands', d)
      /\ \A d, e : FollowedBy(commands, d, e) => FollowedBy(commands', d, e)
      /\ AtMostOnce(commands, "login") => AtMostOnce(commands', "login")
  BY <1>1, Taken
<1>3. nextAttempt \in Nat \ {0} /\ pending \in Nat
  BY DEF Types, Scalars
<1>4. /\ backend' = "timer" \/ (backend' = "emit" /\ after' = "timer")
      /\ pending # 0 => pending' # 0
      /\ connection = "none" => pending' # 0
  BY <1>3 DEF RunSchedule, Schedule, EmitThen, Goto, schedulerVars
<1>5. Grows({"retryScheduled"})
  <2>1. CASE EmitThen(<<RetryAnnouncement>>, "timer")
    <3>1. RetryAnnouncement \in Actions /\ RetryAnnouncement.kind = "retryScheduled"
      BY ScheduleType DEF Types, Reports, RetryAnnouncement, Act
    <3> QED
      BY <1>1, <1>2, <2>1, <3>1, Said
  <2>2. CASE Goto("timer")
    <3>1. Stream' = Stream
      BY <1>1, <1>2, <2>2, StreamKept DEF Goto
    <3> QED
      BY <3>1, KeptGrows
  <2> QED
    BY <2>1, <2>2 DEF RunSchedule
<1>6. ~RestartingNow /\ ~Restarting /\ ~Connecting /\ ~Restarting' /\ ~Connecting'
  BY <1>2, <1>4 DEF RestartingNow, Restarting, Connecting
<1>7. Healed' /\ SignInsDone'
  BY <1>1, <1>5, <1>6, HealedKept, GrowsEnds DEF Real
<1>8. ConnectingComes'
  BY <1>1, <1>2, <1>5, <1>6, ConnectingKept DEF Real, Dialing
<1>9. RecoveryComes'
  BY <1>1, <1>2, <1>4, <1>5, <1>6, RecoveryKept DEF Real, Retrying, Connecting
<1>10. OneAnswer'
  BY <1>1, <1>2, <1>5, AnswersKept DEF Real, Answers
<1>11. LossComes'
  BY <1>1, <1>2, <1>5, <1>6, LossKept DEF Real
<1> QED
  BY <1>7, <1>8, <1>9, <1>10, <1>11 DEF Real

LEMMA ConnectStep == ASSUME Types, Real, RunConnect PROVE Real'
<1> USE DEF notCommand, notBackend, uiVars, linkVars, signalVars
<1>1. /\ UNCHANGED <<batch, lossPending, events, status, auth, profile, count, connection,
                     dropRequested>>
      /\ Take("connect") /\ "connect" \in Effects /\ backend' = "connect" /\ why' = "command"
  BY DEF RunConnect, Goto, Effects
<1>2. /\ backend = "command" /\ Waits(commands, "connect")
      /\ \A d : Waits(commands', d) => Waits(commands, d)
      /\ \A d : d # "connect" /\ Waits(commands, d) => Waits(commands', d)
      /\ \A d, e : FollowedBy(commands, d, e) =>
             FollowedBy(commands', d, e) /\ (d = "connect" => Waits(commands', e))
      /\ AtMostOnce(commands, "login") => AtMostOnce(commands', "login")
  BY <1>1, Taken
<1>3. Stream' = Stream
  BY <1>1, <1>2, StreamKept
<1>4. Grows({})
  BY <1>3, KeptGrows
<1>5. ~RestartingNow /\ ~Restarting /\ ~Connecting /\ ~Restarting'
  BY <1>1, <1>2 DEF RestartingNow, Restarting, Connecting
<1>6. Healed' /\ SignInsDone'
  BY <1>1, <1>4, <1>5, HealedKept, GrowsEnds DEF Real
<1>7. ConnectingComes'
  BY <1>1, <1>2, <1>4, <1>5, ConnectingKept DEF Real, Dialing
(* The schedule that stands behind every connect takes over.                 *)
<1>8. RecoveryComes'
  <2>1. Comes({"connected"}) => Comes({"connected"})'
    BY <1>4, GrowsCarries
  <2> QED
    BY <1>1, <1>2, <1>5, <2>1 DEF Real, RecoveryComes, Retrying
<1>9. OneAnswer'
  BY <1>1, <1>2, <1>4, AnswersKept DEF Real
<1>10. LossComes'
  BY <1>1, <1>2, <1>4, <1>5, LossKept DEF Real
<1> QED
  BY <1>6, <1>7, <1>8, <1>9, <1>10 DEF Real

(* A sign-in is answered, once.                                              *)
LEMMA AnswerStep ==
  ASSUME Types, Real, Take("login"), NEW a \in Actions, a.kind \in Answers,
         Stream' = Stream \o <<a>>, count' = count
  PROVE  OneAnswer'
<1>1. Waits(commands, "login") /\ "login" \in Effects
  BY Taken DEF Effects
<1>2. AtMostOnce(commands, "login") => AtMostOnce(commands', "login") /\ ~Waits(commands', "login")
  BY <1>1, Taken
<1>3. Stream \in Seq(Actions)
  BY StreamParts
<1>4. ~Comes(Answers) => AtMostOneAnswer(Stream')
  BY <1>3, FirstAnswer DEF Comes
<1> QED
  BY <1>1, <1>2, <1>4 DEF Real, OneAnswer

LEMMA LoginStep == ASSUME Types, Standing, Real, RunLogin PROVE Real'
<1> USE DEF notCommand, notBackend, uiVars, linkVars, schedulerVars, signalVars
<1>1. /\ UNCHANGED <<batch, lossPending, events, status, auth, profile, count, connection,
                     pending, dropRequested, why>>
      /\ Take("login") /\ "login" \in Effects
  BY DEF RunLogin, Effects
<1>2. /\ backend = "command" /\ Waits(commands, "login")
      /\ \A d : Waits(commands', d) => Waits(commands, d)
      /\ \A d : d # "login" /\ Waits(commands, d) => Waits(commands', d)
      /\ \A d, e : FollowedBy(commands, d, e) =>
             FollowedBy(commands', d, e) /\ (d = "login" => Waits(commands', e))
  BY <1>1, Taken
<1>3. ~RestartingNow /\ ~Restarting /\ ~Connecting
  BY <1>2, NothingElseAtCommand
<1>4. PICK kind \in Answers, pc \in {"timer", "restart"} :
        EmitThen(<<Plain(kind)>>, pc) /\ (kind = "loginAccepted" <=> pc = "restart")
  BY DEF RunLogin, Answers
<1>5. Plain(kind) \in Actions /\ Plain(kind).kind = kind
  BY PlainType DEF ActionKinds, Answers
<1>6. Grows({kind}) /\ Stream' = Stream \o <<Plain(kind)>>
  BY <1>1, <1>2, <1>4, <1>5, Said
<1>7. /\ backend' = "emit" /\ after' = pc /\ ~Connecting'
      /\ Restarting' <=> kind = "loginAccepted"
      /\ RestartingNow' <=> kind = "loginAccepted"
  BY <1>4 DEF EmitThen, Restarting, RestartingNow, Connecting
<1>8. kind \in {"loginAccepted", "loginFailed"}
  BY DEF Answers
<1>9. Healed'
  BY <1>1, <1>6, <1>8, HealedKept DEF Real
<1>10. SignInsDone'
  <2>1. CASE kind = "loginFailed"
    BY <1>3, <1>6, <2>1, GrowsEnds DEF Real
  <2>2. CASE kind = "loginAccepted"
    <3>1. Stream \in Seq(Actions)
      BY StreamParts
    <3>2. ASSUME NEW i \in 0..Len(Stream), Ends(Stream, i, RestartingNow)
          PROVE  Ends(Stream \o <<Plain(kind)>>, i, RestartingNow')
      <4>1. Settles(Stream, i) /\ <<Plain(kind)>> \in Seq(Actions)
        BY <1>3, <1>5, <3>2 DEF Ends
      <4>2. Settles(Stream \o <<Plain(kind)>>, i)
        BY <3>1, <4>1, MoreSettles
      <4> QED
        BY <4>2 DEF Ends
    <3>3. RestartingNow' /\ SignInsEnd(Stream, RestartingNow)
      BY <1>7, <2>2 DEF Real, SignInsDone
    <3>4. SignInsEnd(Stream \o <<Plain(kind)>>, RestartingNow')
      BY <1>5, <2>2, <3>1, <3>2, <3>3, AcceptedSignIn
    <3> QED
      BY <1>6, <3>4 DEF SignInsDone
  <2> QED
    BY <1>8, <2>1, <2>2
<1>11. ConnectingComes'
  BY <1>1, <1>2, <1>3, <1>6, <1>8, ConnectingKept DEF Real, Dialing
<1>12. RecoveryComes'
  BY <1>1, <1>2, <1>3, <1>6, <1>7, RecoveryKept DEF Real, Retrying
<1>13. OneAnswer'
  BY <1>1, <1>5, <1>6, AnswerStep
<1>14. LossComes'
  <2>1. kind = "loginAccepted" => Comes({"loginAccepted"})'
    <3> SUFFICES ASSUME kind = "loginAccepted" PROVE Carries(Stream', {"loginAccepted"})
      BY DEF Comes
    <3>1. Stream \in Seq(Actions) /\ <<Plain(kind)>> \in Seq(Actions)
      BY <1>5, StreamParts
    <3>2. Carries(<<Plain(kind)>>, {"loginAccepted"})
      BY <1>5 DEF Carries
    <3> QED
      BY <1>6, <3>1, <3>2, MoreCarries
  <2>2. /\ Comes({"lost"}) => Comes({"lost"})'
        /\ Comes({"loginAccepted"}) => Comes({"loginAccepted"})'
    BY <1>6, GrowsCarries
  <2>3. Hope => Hope'
    BY <1>2, <2>2 DEF Hope
  <2>4. FollowedBy(commands, "login", "load") => Hope'
    BY <1>2 DEF Hope
  <2>5. SignInMayBeForgotten' = SignInMayBeForgotten
    BY <1>1 DEF SignInMayBeForgotten
  <2> SUFFICES ASSUME status = "online", ~SignInMayBeForgotten
               PROVE /\ connection = "none" \/ Restarting' =>
                            Hope' \/ (auth = "submitting" /\ Comes({"loginAccepted"})')
                     /\ dropRequested => Hope'
                     /\ auth = "submitting" \/ Comes({"lost"})' \/ FollowedBy(commands', "login", "load")
    BY <1>1, <2>5 DEF LossComes
  <2>6. /\ connection = "none" =>
               Hope \/ (auth = "submitting" /\ Comes({"loginAccepted"}))
        /\ dropRequested => Hope
        /\ auth = "submitting" \/ Comes({"lost"}) \/ FollowedBy(commands, "login", "load")
    BY DEF Real, LossComes
  <2>7. Comes({"lost"})' => Hope'
    BY DEF Hope
  <2> QED
    BY <1>2, <1>7, <2>1, <2>2, <2>3, <2>4, <2>6, <2>7
<1> QED
  BY <1>9, <1>10, <1>11, <1>12, <1>13, <1>14 DEF Real
-----------------------------------------------------------------------------
(* A restart, and a connection that is made or not. *)

(* The end of a restart is reported.                                         *)
LEMMA RestartReported ==
  ASSUME Types, NEW a \in Actions, a.kind = "restartFailed", Stream' = Stream \o <<a>>
  PROVE  /\ SignInsDone => SignInsDone'
         /\ Ends(Stream, 0, RestartingNow) => Ends(Stream, 0, RestartingNow)'
<1>1. Stream \in Seq(Actions) /\ <<a>> \in Seq(Actions) /\ 0 \in 0..Len(Stream)
  BY StreamParts
<1>2. ASSUME NEW i \in 0..Len(Stream), Ends(Stream, i, RestartingNow)
      PROVE  Ends(Stream \o <<a>>, i, RestartingNow')
  <2>1. CASE Settles(Stream, i)
    BY <1>1, <2>1, MoreSettles DEF Ends
  <2>2. CASE CalmAfter(Stream, i)
    BY <1>1, <2>2, ReportSettles DEF Ends
  <2> QED
    BY <1>2, <2>1, <2>2 DEF Ends
<1>3. ~Carries(<<a>>, {"loginAccepted"})
  BY DEF Carries
<1>4. ASSUME SignInsDone PROVE SignInsDone'
  <2>1. SignInsEnd(Stream, RestartingNow)
    BY <1>4 DEF SignInsDone
  <2>2. SignInsEnd(Stream \o <<a>>, RestartingNow')
    BY <1>1, <1>2, <1>3, <2>1, MoreSignIns
  <2> QED
    BY <2>2 DEF SignInsDone
<1> QED
  BY <1>1, <1>2, <1>4

LEMMA RestartStep == ASSUME Types, Standing, Real, Restart PROVE Real'
<1> USE DEF notBackend, uiVars, signalVars
<1>1. /\ UNCHANGED <<batch, lossPending, events, status, auth, profile, commands, dropRequested>>
      /\ backend = "restart" /\ connection' = "none" /\ why' = "login"
      /\ count' \in [Counters -> Nat] /\ count'.logins = count.logins
  <2>1. count \in [Counters -> Nat]
    BY DEF Types, Scalars
  <2> QED
    BY <2>1 DEF Restart, DropConnection, Counted, Counters
<1>2. Restarting /\ RestartingNow /\ ~Connecting /\ connection = "up"
  BY <1>1 DEF Restarting, RestartingNow, Connecting, Standing
<1>3. ~Retrying /\ ~(backend = "connect")
  BY <1>1, <1>2 DEF Retrying
<1>4. Dialing => Dialing'
  BY <1>1 DEF Dialing
<1>5. Healed'
  BY <1>1 DEF Healed
<1>6. CASE Goto("connect")
  <2>1. backend' = "connect" /\ out' = out /\ RestartingNow'
    BY <1>1, <1>6 DEF Goto, RestartingNow
  <2>2. Grows({})
    BY <1>1, <2>1, StreamKept, KeptGrows
  <2>3. SignInsDone'
    <3>1. {} \cap {"lost", "account"} = {} /\ "loginAccepted" \notin {} /\ SignInsDone
      BY DEF Real
    <3> QED
      BY <2>1, <2>2, <3>1, GrowsEnds
  <2>4. ConnectingComes'
    BY <1>1, <1>4, <2>1, <2>2, ConnectingKept DEF Real
  <2>5. RecoveryComes'
    <3>1. Comes({"connected"}) => Comes({"connected"})'
      BY <2>2, GrowsCarries
    <3> QED
      BY <1>1, <1>3, <3>1 DEF Real, RecoveryComes
  <2>6. OneAnswer'
    BY <1>1, <2>2, AnswersKept DEF Real
  <2>7. LossComes'
    BY <1>1, <1>2, <2>2, LossKept DEF Real
  <2> QED
    BY <1>5, <2>3, <2>4, <2>5, <2>6, <2>7 DEF Real
<1>7. CASE EmitThen(<<Plain("restartFailed")>>, "timer")
  <2>1. backend' = "emit" /\ after' = "timer"
    BY <1>7 DEF EmitThen
  <2>2. Plain("restartFailed") \in Actions /\ Plain("restartFailed").kind = "restartFailed"
    BY PlainType DEF ActionKinds
  <2>3. Stream' = Stream \o <<Plain("restartFailed")>> /\ Grows({"restartFailed"})
    BY <1>1, <1>7, <2>2, Said
  <2>4. SignInsDone' /\ (Ends(Stream, 0, RestartingNow) => Ends(Stream, 0, RestartingNow)')
    BY <2>2, <2>3, RestartReported DEF Real
  <2>5. /\ Comes({"connected"}) => Comes({"connected"})'
        /\ Comes({"connected", "failed"}) => Comes({"connected", "failed"})'
    BY <2>3, GrowsCarries
  <2>6. ConnectingComes'
    BY <1>1, <1>4, <2>4, <2>5 DEF Real, ConnectingComes
  <2>7. RecoveryComes'
    BY <1>1, <1>3, <2>5 DEF Real, RecoveryComes
  <2>8. OneAnswer'
    BY <1>1, <2>3, AnswersKept DEF Real, Answers
  <2>9. LossComes'
    BY <1>1, <1>2, <2>3, LossKept DEF Real
  <2> QED
    BY <1>5, <2>4, <2>6, <2>7, <2>8, <2>9 DEF Real
<1> QED
  BY <1>6, <1>7 DEF Restart

LEMMA SucceedStep == ASSUME Types, Standing, Real, ConnectSucceeds PROVE Real'
<1> USE DEF notCommand, notBackend, uiVars, signalVars
<1>1. /\ UNCHANGED <<batch, lossPending, events, status, auth, profile, commands, dropRequested,
                     count, why>>
      /\ backend = "connect" /\ connection' = "up"
      /\ backend' = "emit" /\ after' \in {"top", "timer"}
  BY DEF ConnectSucceeds, EmitThen, AfterConnect
<1> DEFINE said == {<<Plain("connected")>>, <<Plain("note"), Plain("connected")>>}
<1>2. PICK x \in said : EmitThen(x, AfterConnect)
  BY DEF ConnectSucceeds
<1>3. /\ x \in Seq(Actions) /\ x # <<>> /\ x[Len(x)].kind = "connected"
      /\ \A i \in DOMAIN x : x[i].kind \in {"note", "connected"}
      /\ Carries(x, {"connected"}) /\ Carries(x, {"connected", "failed"})
  <2>1. /\ Plain("connected") \in Actions /\ Plain("connected").kind = "connected"
        /\ Plain("note") \in Actions /\ Plain("note").kind = "note"
    BY PlainType DEF ActionKinds
  <2>2. CASE x = <<Plain("connected")>>
    BY <2>1, <2>2 DEF Carries
  <2>3. CASE x = <<Plain("note"), Plain("connected")>>
    BY <2>1, <2>3 DEF Carries
  <2> QED
    BY <2>2, <2>3
<1>4. Stream' = Stream \o x
  BY <1>1, <1>2, <1>3, StreamGrows
<1>5. Grows({"note", "connected"})
  BY <1>3, <1>4 DEF Grows
<1>6. Stream \in Seq(Actions)
  BY StreamParts
<1>7. Comes({"connected"})' /\ Comes({"connected", "failed"})'
  BY <1>3, <1>4, <1>6, MoreCarries DEF Comes
<1>8. Healed'
  <2>1. ~Carries(x, {"lost", "restartFailed"})
    BY <1>3 DEF Carries
  <2>2. MadeGood(Stream \o x)
    BY <1>3, <1>6, <2>1, ConnectedMakesGood
  <2> QED
    BY <1>4, <2>2 DEF Healed
<1>9. SignInsDone'
  <2>1. ~Carries(x, {"loginAccepted"})
    BY <1>3 DEF Carries
  <2>2. ASSUME NEW i \in 0..Len(Stream), Ends(Stream, i, RestartingNow)
        PROVE  Ends(Stream \o x, i, RestartingNow')
    BY <1>3, <1>6, ConnectedSettles DEF Ends
  <2>3. SignInsEnd(Stream, RestartingNow)
    BY DEF Real, SignInsDone
  <2>4. SignInsEnd(Stream \o x, RestartingNow')
    BY <1>3, <1>6, <2>1, <2>2, <2>3, MoreSignIns
  <2> QED
    BY <1>4, <2>4 DEF SignInsDone
<1>10. ConnectingComes'
  BY <1>7 DEF ConnectingComes
<1>11. RecoveryComes'
  BY <1>7 DEF RecoveryComes
<1>12. OneAnswer'
  BY <1>1, <1>5, AnswersKept DEF Real, Answers
<1>13. LossComes'
  <2>1. ~Restarting'
    BY <1>1 DEF Restarting
  <2> QED
    BY <1>1, <1>5, <2>1, LossKept DEF Real
<1> QED
  BY <1>8, <1>9, <1>10, <1>11, <1>12, <1>13 DEF Real

LEMMA FailStep == ASSUME Types, Standing, Real, ConnectFails PROVE Real'
<1> USE DEF notBackend, uiVars, signalVars, linkVars
<1>0. /\ count \in [Counters -> Nat] /\ nextAttempt \in Nat \ {0} /\ pending \in Nat
      /\ why \in {"command", "login", "timer"}
  BY DEF Types, Scalars
<1>1. /\ UNCHANGED <<batch, lossPending, events, status, auth, profile, commands, dropRequested,
                     connection, why>>
      /\ backend = "connect" /\ connection = "none"
      /\ backend' = "emit" /\ after' \in {"top", "timer"}
      /\ count'.logins = count.logins
  <2>1. count'.logins = count.logins
    BY <1>0 DEF ConnectFails, Counted, Counters
  <2>2. backend' = "emit" /\ after' \in {"top", "timer"}
    BY <1>0 DEF ConnectFails, EmitThen
  <2> QED
    BY <2>1, <2>2 DEF ConnectFails
<1>2. ~Restarting' /\ ~RestartingNow' /\ ~Connecting' /\ ~Restarting
  BY <1>1 DEF Restarting, RestartingNow, Connecting
<1>3. Healed'
  BY <1>1 DEF Healed
<1>4. RestartingNow <=> why = "login"
  BY <1>1, <1>2 DEF RestartingNow
<1>5. \A kind \in ActionKinds : Plain(kind) \in Actions /\ Plain(kind).kind = kind
  BY PlainType
(* Behind a connection that is made for another reason the schedule waits.   *)
<1>6. ASSUME why # "timer", UNCHANGED schedulerVars, NEW kinds, Grows(kinds) PROVE RecoveryComes'
  <2>1. Comes({"connected"}) => Comes({"connected"})'
    BY <1>6, GrowsCarries
  <2> QED
    BY <1>1, <1>6, <2>1 DEF Real, RecoveryComes, Retrying
<1>7. CASE why = "command"
  <2>1. EmitThen(<<Plain("failed")>>, "timer") /\ UNCHANGED schedulerVars /\ "failed" \in ActionKinds
    BY <1>7 DEF ConnectFails, ActionKinds
  <2>2. Stream' = Stream \o <<Plain("failed")>> /\ Grows({"failed"})
    BY <1>1, <1>5, <2>1, Said
  <2>3. SignInsDone'
    BY <1>4, <1>7, <2>2, GrowsEnds DEF Real
  <2>4. ConnectingComes'
    <3>1. Stream \in Seq(Actions) /\ <<Plain("failed")>> \in Seq(Actions)
      BY <1>5, <2>1, StreamParts
    <3>2. Carries(<<Plain("failed")>>, {"connected", "failed"})
      BY <1>5, <2>1 DEF Carries
    <3>3. Carries(Stream', {"connected", "failed"})
      BY <2>2, <3>1, <3>2, MoreCarries
    <3> QED
      BY <3>3 DEF ConnectingComes, Comes
  <2>5. RecoveryComes'
    BY <1>6, <1>7, <2>1, <2>2
  <2>6. OneAnswer'
    BY <1>1, <2>2, AnswersKept DEF Real, Answers
  <2>7. LossComes'
    BY <1>1, <1>2, <2>2, LossKept DEF Real
  <2> QED
    BY <1>3, <2>3, <2>4, <2>5, <2>6, <2>7 DEF Real
<1>8. CASE why = "login"
  <2>1. /\ EmitThen(<<Plain("restartFailed")>>, "timer") /\ UNCHANGED schedulerVars
        /\ "restartFailed" \in ActionKinds
    BY <1>8 DEF ConnectFails, ActionKinds
  <2>2. Stream' = Stream \o <<Plain("restartFailed")>> /\ Grows({"restartFailed"})
    BY <1>1, <1>5, <2>1, Said
  <2>3. SignInsDone' /\ (Ends(Stream, 0, RestartingNow) => Ends(Stream, 0, RestartingNow)')
    BY <1>5, <2>1, <2>2, RestartReported DEF Real
  <2>4. ConnectingComes'
    <3>1. Comes({"connected", "failed"}) => Comes({"connected", "failed"})'
      BY <2>2, GrowsCarries
    <3>2. Dialing => Dialing'
      BY <1>1, <1>8 DEF Dialing
    <3> QED
      BY <1>1, <2>3, <3>1, <3>2 DEF Real, ConnectingComes
  <2>5. RecoveryComes'
    BY <1>6, <1>8, <2>1, <2>2
  <2>6. OneAnswer'
    BY <1>1, <2>2, AnswersKept DEF Real, Answers
  <2>7. LossComes'
    BY <1>1, <1>2, <2>2, LossKept DEF Real
  <2> QED
    BY <1>3, <2>3, <2>4, <2>5, <2>6, <2>7 DEF Real
<1>9. CASE why = "timer"
  <2>1. EmitThen(<<RetryAnnouncement>>, "top") /\ pending' # 0
    BY <1>0, <1>9 DEF ConnectFails, Schedule
  <2>2. RetryAnnouncement \in Actions /\ RetryAnnouncement.kind = "retryScheduled"
    BY ScheduleType DEF Types, Reports, RetryAnnouncement, Act
  <2>3. Grows({"retryScheduled"})
    BY <1>1, <2>1, <2>2, Said
  <2>4. Retrying'
    BY <1>1, <2>1 DEF Retrying
  <2>5. SignInsDone'
    BY <1>4, <1>9, <2>3, GrowsEnds DEF Real
  <2>6. ConnectingComes'
    BY <1>1, <1>4, <1>9, <2>3, ConnectingKept DEF Real, Dialing
  <2>7. RecoveryComes'
    BY <1>1, <2>3, <2>4, RecoveryKept DEF Real
  <2>8. OneAnswer'
    BY <1>1, <2>3, AnswersKept DEF Real, Answers
  <2>9. LossComes'
    BY <1>1, <1>2, <2>3, LossKept DEF Real
  <2> QED
    BY <1>3, <2>5, <2>6, <2>7, <2>8, <2>9 DEF Real
<1> QED
  BY <1>0, <1>7, <1>8, <1>9
-----------------------------------------------------------------------------
(* The user asks for something. *)
LEMMA Asked ==
  ASSUME Types, NEW c \in Effects, commands' = Append(commands, c)
  PROVE  /\ \A d : Waits(commands', d) <=> Waits(commands, d) \/ d = c
         /\ \A d, e : d # c /\ FollowedBy(commands, d, e) => FollowedBy(commands', d, e)
         /\ \A d : \/ d # c /\ AtMostOnce(commands, d)
                   \/ ~Waits(commands, d)
                => AtMostOnce(commands', d)
<1>1. commands \in Seq(Effects) /\ <<c>> \in Seq(Effects) /\ Len(<<c>>) = 1
  BY DEF Types, Queues
<1>2. commands' = commands \o <<c>>
  BY <1>1
<1>3. \A d : Waits(<<c>>, d) <=> d = c
  BY DEF Waits
<1>4. \A d : Waits(commands \o <<c>>, d) <=> Waits(commands, d) \/ Waits(<<c>>, d)
  BY <1>1, MoreWaits
<1>5. ASSUME NEW d, NEW e, d # c, FollowedBy(commands, d, e)
      PROVE  FollowedBy(commands \o <<c>>, d, e)
  BY <1>1, <1>3, <1>5, MoreFollowed
<1>6. ASSUME NEW d, (d # c /\ AtMostOnce(commands, d)) \/ ~Waits(commands, d)
      PROVE  AtMostOnce(commands \o <<c>>, d)
  BY <1>1, <1>3, <1>6, FirstOnce
<1> QED
  BY <1>2, <1>3, <1>4, <1>5, <1>6

LEMMA UserSteps ==
  ASSUME Types, Real, RetryConnection \/ UserEffect \/ SubmitLogin
  PROVE  Real'
<1> USE DEF notUser, notUi, linkVars, schedulerVars
<1>0. count \in [Counters -> Nat]
  BY DEF Types, Scalars
<1>1. /\ UNCHANGED <<batch, lossPending, events, backend, out, after, why, connection, pending,
                     dropRequested, profile>>
  BY DEF RetryConnection, UserEffect, SubmitLogin
<1>2. Stream' = Stream
  BY <1>1, StreamKept
<1>3. Grows({}) /\ {} \cap {"lost", "account"} = {} /\ "loginAccepted" \notin {}
  BY <1>2, KeptGrows
<1>4. RestartingNow' = RestartingNow /\ Restarting' = Restarting /\ Connecting' = Connecting
  BY <1>1 DEF RestartingNow, Restarting, Connecting
<1>5. Healed' /\ SignInsDone'
  BY <1>1, <1>3, <1>4, HealedKept, GrowsEnds DEF Real
<1>6. CASE RetryConnection
  <2>1. /\ UNCHANGED <<auth, count>> /\ status' = "connecting" /\ commands' = Append(commands, "connect")
    BY <1>6 DEF RetryConnection, Settled
  <2>2. "connect" \in Effects
    BY DEF Effects
  <2>3. /\ Waits(commands', "connect")
        /\ Waits(commands', "login") => Waits(commands, "login")
        /\ AtMostOnce(commands, "login") => AtMostOnce(commands', "login")
    BY <2>1, <2>2, Asked
  <2>4. ConnectingComes'
    BY <2>3 DEF ConnectingComes, Dialing
  <2>5. RecoveryComes' /\ LossComes'
    BY <2>1 DEF RecoveryComes, LossComes
  <2>6. OneAnswer'
    BY <1>3, <2>1, <2>3, AnswersKept DEF Real
  <2> QED
    BY <1>5, <2>4, <2>5, <2>6 DEF Real
<1>7. CASE UserEffect
  <2>1. /\ UNCHANGED <<status, auth>> /\ count'.logins = count.logins
        /\ \E e \in {"load", "local"} : commands' = Append(commands, e)
    <3>1. count'.logins = count.logins
      BY <1>0, <1>7 DEF UserEffect, Extra, Counted, Counters
    <3> QED
      BY <1>7, <3>1 DEF UserEffect, EffectKinds
  <2>2. PICK e \in {"load", "local"} : commands' = Append(commands, e)
    BY <2>1
  <2>3. /\ \A d : Waits(commands', d) <=> Waits(commands, d) \/ d = e
        /\ \A d, f : d # e /\ FollowedBy(commands, d, f) => FollowedBy(commands', d, f)
        /\ AtMostOnce(commands, "login") => AtMostOnce(commands', "login")
    <3>1. e \in Effects
      BY DEF Effects
    <3> QED
      BY <2>2, <3>1, Asked
  <2>4. ConnectingComes'
    BY <1>1, <1>3, <1>4, <2>1, <2>3, ConnectingKept DEF Real, Dialing
  <2>5. RecoveryComes'
    BY <1>1, <1>3, <1>4, <2>1, <2>3, RecoveryKept DEF Real, Retrying
  <2>6. OneAnswer'
    BY <1>3, <2>1, <2>3, AnswersKept DEF Real
  <2>7. LossComes'
    BY <1>1, <1>3, <1>4, <2>1, <2>3, LossKept DEF Real
  <2> QED
    BY <1>5, <2>4, <2>5, <2>6, <2>7 DEF Real
<1>8. CASE SubmitLogin
  <2>1. /\ status' = status /\ auth = "idle" /\ auth' = "submitting"
        /\ commands' = Append(commands, "login") /\ count'.logins = count.logins + 1
        /\ count.logins \in Nat
    BY <1>0, <1>8 DEF SubmitLogin, Extra, Counted, Counters
  <2>2. /\ \A d : Waits(commands', d) <=> Waits(commands, d) \/ d = "login"
        /\ \A d, f : d # "login" /\ FollowedBy(commands, d, f) => FollowedBy(commands', d, f)
        /\ ~Waits(commands, "login") => AtMostOnce(commands', "login")
    <3>1. "login" \in Effects
      BY DEF Effects
    <3> QED
      BY <2>1, <3>1, Asked
  <2>3. \A kinds : Comes(kinds)' <=> Comes(kinds)
    BY <1>2 DEF Comes
  <2>4. ConnectingComes'
    <3>1. Dialing => Dialing'
      BY <1>1, <2>2 DEF Dialing
    <3> QED
      BY <2>1, <2>3, <3>1 DEF Real, ConnectingComes
  <2>5. RecoveryComes'
    BY <1>1, <1>3, <1>4, <2>1, <2>2, RecoveryKept DEF Real, Retrying
(* The first sign-in is the only one. *)
  <2>6. OneAnswer'
    <3>1. count'.logins # 0 /\ (count'.logins <= 1 => count.logins = 0 /\ count.logins <= 1)
      BY <2>1
    <3>2. AtMostOneAnswer(Stream) => AtMostOneAnswer(Stream)'
      BY <1>2
    <3> QED
      BY <2>2, <2>3, <3>1, <3>2 DEF Real, OneAnswer
  <2>7. LossComes'
    <3>1. Hope => Hope'
      BY <2>2, <2>3 DEF Hope
    <3>2. SignInMayBeForgotten => SignInMayBeForgotten'
      BY <1>1, <2>1 DEF SignInMayBeForgotten
    <3> QED
      BY <1>1, <1>4, <2>1, <3>1, <3>2 DEF Real, LossComes
  <2> QED
    BY <1>5, <2>4, <2>5, <2>6, <2>7 DEF Real
<1> QED
  BY <1>6, <1>7, <1>8
-----------------------------------------------------------------------------
(* The reducer takes the first action of the stream. *)

(* What every reduction keeps. *)
LEMMA ReduceKeeps ==
  ASSUME Types, Real, Reduce
  PROVE  /\ Head(batch) \in Actions /\ Stream = <<Head(batch)>> \o Stream' /\ Stream' \in Seq(Actions)
         /\ \A kinds : Comes(kinds) <=> Head(batch).kind \in kinds \/ Comes(kinds)'
         /\ UNCHANGED <<count, connection, pending, dropRequested, why, backend, after>>
         /\ Healed' /\ SignInsDone'
<1>1. /\ Head(batch) \in Actions /\ Stream' \in Seq(Actions)
      /\ Stream = <<Head(batch)>> \o Stream'
  BY StreamTakes
<1>2. UNCHANGED <<count, connection, pending, dropRequested, why, backend, after>>
  BY ReduceTakes DEF notReducer, notUi, linkVars, schedulerVars
<1>3. \A kinds : Comes(kinds) <=> Head(batch).kind \in kinds \/ Comes(kinds)'
  BY <1>1, TakenCarries DEF Comes
<1>4. Healed'
  <2>1. MadeGood(<<Head(batch)>> \o Stream') => MadeGood(Stream')
    BY <1>1, TakenMadeGood
  <2> QED
    BY <1>1, <1>2, <2>1 DEF Real, Healed
<1>5. SignInsDone'
  <2>1. RestartingNow' = RestartingNow
    BY <1>2 DEF RestartingNow, Restarting
  <2>2. SignInsEnd(<<Head(batch)>> \o Stream', RestartingNow)
    BY <1>1 DEF Real, SignInsDone
  <2>3. SignInsEnd(Stream', RestartingNow)
    BY <1>1, <2>2, TakenSignIns
  <2> QED
    BY <2>1, <2>3 DEF SignInsDone
<1> QED
  BY <1>1, <1>2, <1>3, <1>4, <1>5

(* No reduction sends a sign-in. *)
LEMMA ReduceAnswers ==
  ASSUME Types, Real, Reduce,
         NEW x \in Seq(Effects), commands' = commands \o x, ~Waits(x, "login")
  PROVE  OneAnswer'
<1>1. commands \in Seq(Effects)
  BY DEF Types, Queues
<1>2. Waits(commands', "login") => Waits(commands, "login")
  BY <1>1, MoreWaits
<1>3. AtMostOnce(commands, "login") => AtMostOnce(commands', "login")
  BY <1>1, FirstOnce
<1>4. Comes(Answers)' => Comes(Answers)
  BY ReduceKeeps
<1>5. AtMostOneAnswer(Stream) => AtMostOneAnswer(Stream')
  BY ReduceKeeps, TakenAnswers
<1>6. count' = count
  BY ReduceKeeps
<1> QED
  BY <1>2, <1>3, <1>4, <1>5, <1>6 DEF Real, OneAnswer

LEMMA ReduceAnswersQuietly ==
  ASSUME Types, Real, Reduce, commands' = commands PROVE OneAnswer'
<1>1. commands \in Seq(Effects)
  BY DEF Types, Queues
<1>2. <<>> \in Seq(Effects) /\ commands \o <<>> = commands /\ ~Waits(<<>>, "login")
  BY <1>1, ConcatEmptySeq DEF Waits
<1> QED
  BY <1>2, ReduceAnswers

LEMMA ReduceConnectedStep ==
  ASSUME Types, Real, ReduceConnected, ~missed' PROVE Real'
<1> DEFINE loads == [i \in 1..ConnectEffects |-> "load"]
<1>1. Reduce /\ status' = "online" /\ SendEffects(loads)
  BY DEF Reduce, ReduceConnected, Settled
<1>2. loads \in Seq(Effects) /\ Len(loads) = ConnectEffects /\ ConnectEffects \in Nat \ {0}
  BY Loads, Constants
<1>3. /\ loads # <<>> /\ \A i \in 1..Len(loads) : loads[i] = "load"
      /\ Waits(loads, "load") /\ ~Waits(loads, "login")
  <2>1. DOMAIN loads = 1..ConnectEffects /\ 1 \in 1..ConnectEffects
    BY <1>2
  <2>2. loads[1] = "load" /\ 1 \in DOMAIN loads
    BY <2>1
  <2>3. loads # <<>>
    BY <2>1
  <2> QED
    BY <1>2, <2>1, <2>2, <2>3 DEF Waits
<1> HIDE DEF loads
<1>4. commands \in Seq(Effects) /\ Len(commands) <= CommandCapacity
  BY DEF Types, Queues, Bounds
<1>5. commands' = commands \o loads
  BY <1>1, <1>2, <1>4, Sends
<1>6. Waits(commands', "load")
  BY <1>2, <1>3, <1>4, <1>5, MoreWaits
<1>7. FollowedBy(commands', "login", "load")
  BY <1>2, <1>3, <1>4, <1>5, LastFollows
<1>8. OneAnswer'
  BY <1>1, <1>2, <1>3, <1>5, ReduceAnswers
<1>9. ConnectingComes' /\ RecoveryComes'
  BY <1>1 DEF ConnectingComes, RecoveryComes
<1>10. LossComes'
  BY <1>6, <1>7 DEF LossComes, Hope
<1> QED
  BY <1>1, <1>8, <1>9, <1>10, ReduceKeeps DEF Real

(* A restart that the reducer waits for has its end behind what it takes.    *)
LEMMA EndsNext ==
  ASSUME Types, Real, Reduce, Ends(Stream, 0, RestartingNow)
  PROVE  \/ Head(batch).kind \in {"connected", "failed", "restartFailed"}
         \/ Comes({"connected", "failed"})'
         \/ Head(batch).kind \notin {"lost", "account"} /\ Ends(Stream, 0, RestartingNow)'
<1>1. /\ Head(batch) \in Actions /\ Stream' \in Seq(Actions) /\ Stream = <<Head(batch)>> \o Stream'
      /\ UNCHANGED <<backend, after, why>>
  BY ReduceKeeps
<1>2. RestartingNow' = RestartingNow
  BY <1>1 DEF RestartingNow, Restarting
<1>3. Ends(<<Head(batch)>> \o Stream', 0, RestartingNow)
  BY <1>1
<1>4. \/ Head(batch).kind \in {"connected", "failed", "restartFailed"}
      \/ Carries(Stream', {"connected", "failed"})
      \/ Head(batch).kind \notin {"lost", "account"} /\ Ends(Stream', 0, RestartingNow)
  BY <1>1, <1>3, FirstEnds
<1> QED
  BY <1>2, <1>4 DEF Comes

LEMMA ReduceLostStep ==
  ASSUME Types, Real, ReduceConnectionLost, ~missed' PROVE Real'
<1>1. Reduce /\ Head(batch).kind = "lost" /\ auth' = "idle"
  BY DEF Reduce, ReduceConnectionLost, Dispatch
<1>2. /\ \A kinds : Comes(kinds) <=> "lost" \in kinds \/ Comes(kinds)'
      /\ UNCHANGED <<count, connection, pending, dropRequested, why, backend, after>>
      /\ Healed' /\ SignInsDone'
  BY <1>1, ReduceKeeps
<1>3. Connecting' = Connecting
  BY <1>2 DEF Connecting
<1>4. /\ Comes({"connected"})' <=> Comes({"connected"})
      /\ Comes({"connected", "failed"})' <=> Comes({"connected", "failed"})
  BY <1>2
<1>5. CASE status \in {"connecting", "recovering"}
  <2>1. UNCHANGED <<status, commands>>
    BY <1>5 DEF ReduceConnectionLost, NoEffects
  <2>2. Dialing' = Dialing /\ Retrying' = Retrying
    BY <1>2, <1>3, <2>1 DEF Dialing, Retrying
  <2>3. OneAnswer'
    BY <1>1, <2>1, ReduceAnswersQuietly
  <2>4. ConnectingComes'
    <3>1. Ends(Stream, 0, RestartingNow) => Comes({"connected", "failed"})'
      BY <1>1, EndsNext
    <3> QED
      BY <1>4, <2>1, <2>2, <3>1 DEF Real, ConnectingComes
  <2>5. RecoveryComes'
    BY <1>2, <1>4, <2>1, <2>2 DEF Real, RecoveryComes
  <2>6. LossComes'
    BY <1>5, <2>1 DEF LossComes
  <2> QED
    BY <1>2, <2>3, <2>4, <2>5, <2>6 DEF Real
<1>6. CASE status \notin {"connecting", "recovering"}
  <2>1. status' = "recovering" /\ SendEffects(<<"schedule">>)
    BY <1>6 DEF ReduceConnectionLost, Recovering
  <2>2. /\ commands \in Seq(Effects) /\ Len(commands) <= CommandCapacity
        /\ <<"schedule">> \in Seq(Effects)
    BY Loads DEF Types, Queues, Bounds
  <2>3. commands' = commands \o <<"schedule">>
    BY <2>1, <2>2, Sends
  <2>4. /\ Waits(<<"schedule">>, "schedule") /\ ~Waits(<<"schedule">>, "login")
        /\ <<"schedule">> # <<>> /\ \A i \in 1..Len(<<"schedule">>) : <<"schedule">>[i] = "schedule"
    BY DEF Waits
  <2>5. OneAnswer'
    BY <1>1, <2>2, <2>3, <2>4, ReduceAnswers
  <2>6. Waits(commands', "schedule")
    BY <2>2, <2>3, <2>4, MoreWaits
  <2>7. FollowedBy(commands', "connect", "schedule")
    BY <2>2, <2>3, <2>4, LastFollows
  <2>8. connection = "none" \/ connection = "up"
    BY DEF Types, Scalars
(* While the next connection is up already, what says so is behind the loss. *)
  <2>9. connection = "up" => Comes({"connected"})'
    <3> SUFFICES ASSUME MadeGood(Stream) PROVE Comes({"connected"})'
      BY DEF Real, Healed
    <3>1. /\ Head(batch) \in Actions /\ Stream' \in Seq(Actions)
          /\ Stream = <<Head(batch)>> \o Stream'
      BY <1>1, StreamTakes
    <3>2. MadeGood(<<Head(batch)>> \o Stream')
      BY <3>1
    <3>3. Head(batch).kind \in {"lost", "restartFailed"} => Carries(Stream', {"connected"})
      BY <3>1, <3>2, TakenMadeGood
    <3> QED
      BY <1>1, <3>3 DEF Comes
  <2>10. RecoveryComes'
    BY <1>2, <2>6, <2>7, <2>8, <2>9 DEF RecoveryComes, Retrying
  <2>11. ConnectingComes' /\ LossComes'
    BY <2>1 DEF ConnectingComes, LossComes
  <2> QED
    BY <1>2, <2>5, <2>10, <2>11 DEF Real
<1> QED
  BY <1>5, <1>6

(* The other actions change what the reducer shows, and send nothing.        *)
LEMMA ReduceQuietStep ==
  ASSUME Types, Real, Reduce, UNCHANGED commands,
         status' = "connecting" =>
             \/ status = "connecting" /\ (auth = "restarting" => auth' = "restarting" \/
                    Dialing' \/ Comes({"connected", "failed"})')
             \/ auth' = "restarting" /\ Ends(Stream, 0, RestartingNow)',
         status' = "connecting" /\ status = "connecting" =>
             Head(batch).kind \notin {"connected", "failed"}
                 /\ (auth = "restarting" => Head(batch).kind # "restartFailed"),
         status' = "recovering" => status = "recovering" /\ Head(batch).kind # "connected",
         LossComes'
  PROVE  Real'
<1>1. /\ \A kinds : Comes(kinds) <=> Head(batch).kind \in kinds \/ Comes(kinds)'
      /\ UNCHANGED <<count, connection, pending, dropRequested, why, backend, after>>
      /\ Healed' /\ SignInsDone'
  BY ReduceKeeps
<1>2. OneAnswer'
  BY ReduceAnswersQuietly
<1>3. Dialing' = Dialing /\ Retrying' = Retrying
  BY <1>1 DEF Dialing, Retrying, Connecting
<1>4. ConnectingComes'
  <2> SUFFICES ASSUME status' = "connecting", status = "connecting",
                      auth = "restarting" =>
                          auth' = "restarting" \/ Dialing' \/ Comes({"connected", "failed"})'
               PROVE  Dialing' \/ Comes({"connected", "failed"})'
                      \/ (auth' = "restarting" /\ Ends(Stream, 0, RestartingNow)')
    BY DEF ConnectingComes
  <2>1. Comes({"connected", "failed"}) => Comes({"connected", "failed"})'
    BY <1>1
  <2>2. auth = "restarting" /\ Ends(Stream, 0, RestartingNow) =>
            Comes({"connected", "failed"})' \/ Ends(Stream, 0, RestartingNow)'
    BY EndsNext
  <2> QED
    BY <1>3, <2>1, <2>2 DEF Real, ConnectingComes
<1>5. RecoveryComes'
  <2> SUFFICES ASSUME status' = "recovering" PROVE RecoveryComes'
    BY DEF RecoveryComes
  <2>1. Comes({"connected"}) => Comes({"connected"})'
    BY <1>1
  <2> QED
    BY <1>1, <1>3, <2>1 DEF Real, RecoveryComes
<1> QED
  BY <1>1, <1>2, <1>4, <1>5 DEF Real

(* What the UI will be told of a loss is still to come. *)
LEMMA LossStillComes ==
  ASSUME Types, Real, Reduce, UNCHANGED <<commands, auth, profile, status>>,
         Head(batch).kind # "lost", auth = "submitting" => Head(batch).kind # "loginAccepted"
  PROVE  LossComes'
<1>1. /\ \A kinds : Comes(kinds) <=> Head(batch).kind \in kinds \/ Comes(kinds)'
      /\ UNCHANGED <<count, connection, pending, dropRequested, why, backend, after>>
  BY ReduceKeeps
<1>2. /\ Comes({"lost"})' <=> Comes({"lost"})
      /\ auth = "submitting" => (Comes({"loginAccepted"})' <=> Comes({"loginAccepted"}))
  BY <1>1
<1>3. Hope <=> Hope'
  BY <1>2 DEF Hope
<1>4. Restarting' = Restarting /\ SignInMayBeForgotten' = SignInMayBeForgotten
  BY <1>1 DEF Restarting, SignInMayBeForgotten
<1> QED
  BY <1>1, <1>2, <1>3, <1>4 DEF Real, LossComes, Hope

LEMMA ReduceOtherSteps ==
  ASSUME Types, Real,
         \/ ReduceRetryScheduled \/ ReduceRetryStarted \/ ReduceConnectionFailed
         \/ ReduceLoginAccepted \/ ReduceLoginFailed \/ ReduceRestartFailed
         \/ ReduceAccountLoaded \/ ReduceOther
  PROVE  Real'
<1>0. Reduce /\ UNCHANGED commands
  BY DEF Reduce, ReduceRetryScheduled, ReduceRetryStarted, ReduceConnectionFailed,
     ReduceLoginAccepted, ReduceLoginFailed, ReduceRestartFailed, ReduceAccountLoaded,
     ReduceOther, NoEffects
<1>1. CASE ReduceRetryScheduled \/ ReduceRetryStarted \/ ReduceOther
  <2>1. /\ UNCHANGED <<status, auth, profile>>
        /\ Head(batch).kind \in {"retryScheduled", "retryStarted", "note", "item"}
    BY <1>1 DEF ReduceRetryScheduled, ReduceRetryStarted, ReduceOther, Dispatch, Recovering
  <2>2. LossComes'
    BY <1>0, <2>1, LossStillComes
  <2> QED
    BY <1>0, <2>1, <2>2, ReduceQuietStep
<1>2. CASE ReduceConnectionFailed
  <2>1. status' = "failed"
    BY <1>2 DEF ReduceConnectionFailed, Settled
  <2>2. LossComes'
    BY <2>1 DEF LossComes
  <2> QED
    BY <1>0, <2>1, <2>2, ReduceQuietStep
<1>3. CASE ReduceLoginAccepted
  <2>0. Head(batch).kind = "loginAccepted"
    BY <1>3 DEF ReduceLoginAccepted, Dispatch
  <2>1. CASE auth = "submitting"
    <3>1. status' = "connecting" /\ auth' = "restarting"
      BY <1>3, <2>1 DEF ReduceLoginAccepted, Settled
    <3>2. Ends(Stream, 0, RestartingNow)'
      <4>1. /\ Head(batch) \in Actions /\ Stream' \in Seq(Actions)
            /\ Stream = <<Head(batch)>> \o Stream'
            /\ UNCHANGED <<backend, after, why>>
        BY <1>0, ReduceKeeps
      <4>2. RestartingNow' = RestartingNow
        BY <4>1 DEF RestartingNow, Restarting
      <4>3. SignInsEnd(<<Head(batch)>> \o Stream', RestartingNow)
        BY <4>1 DEF Real, SignInsDone
      <4>4. Ends(Stream', 0, RestartingNow)
        BY <2>0, <4>1, <4>3, TakenSignIns
      <4> QED
        BY <4>2, <4>4
    <3>3. LossComes'
      BY <3>1 DEF LossComes
    <3> QED
      BY <1>0, <2>0, <2>1, <3>1, <3>2, <3>3, ReduceQuietStep
  <2>2. CASE auth # "submitting"
    <3>1. UNCHANGED <<status, auth, profile>>
      BY <1>3, <2>2 DEF ReduceLoginAccepted
    <3>2. LossComes'
      BY <1>0, <2>0, <2>2, <3>1, LossStillComes
    <3> QED
      BY <1>0, <2>0, <3>1, <3>2, ReduceQuietStep
  <2> QED
    BY <2>1, <2>2
<1>4. CASE ReduceLoginFailed
  <2>1. /\ Head(batch).kind = "loginFailed" /\ UNCHANGED <<status, profile>>
        /\ auth' = IF auth = "submitting" THEN "idle" ELSE auth
    BY <1>4 DEF ReduceLoginFailed, Dispatch
  <2>2. CASE auth = "submitting"
(* It was the only sign-in, so none is left to take the connection down.     *)
    <3>1. LossComes'
      <4> SUFFICES ASSUME status' = "online", ~SignInMayBeForgotten'
                   PROVE  /\ connection' = "none" \/ Restarting' => Hope'
                          /\ dropRequested' => Hope'
                          /\ FollowedBy(commands, "login", "load")
        BY <1>0 DEF LossComes
      <4>1. /\ Head(batch) \in Actions /\ Stream' \in Seq(Actions)
            /\ Stream = <<Head(batch)>> \o Stream'
            /\ \A kinds : Comes(kinds) <=> Head(batch).kind \in kinds \/ Comes(kinds)'
            /\ UNCHANGED <<count, connection, dropRequested, why, backend, after>>
        BY <1>0, ReduceKeeps
      <4>2. status = "online" /\ ~SignInMayBeForgotten /\ Restarting' = Restarting
        BY <2>1, <4>1 DEF SignInMayBeForgotten, Restarting
      <4>3. count.logins <= 1
        <5>1. count.logins \in Nat
          BY DEF Types, Scalars, Counters
        <5> QED
          BY <4>2, <5>1 DEF SignInMayBeForgotten
      <4>4. AtMostOneAnswer(Stream) /\ ~(Waits(commands, "login") /\ Comes(Answers))
        BY <4>3 DEF Real, OneAnswer
      <4>5. ~Waits(commands, "login")
        BY <2>1, <4>1, <4>4 DEF Answers
      <4>6. ~Comes({"loginAccepted"})
        <5>1. ~Carries(Stream', Answers)
          BY <2>1, <4>1, <4>4, TakenAnswers DEF Answers
        <5>2. ~Comes({"loginAccepted"})'
          BY <5>1 DEF Comes, Carries, Answers
        <5> QED
          BY <2>1, <4>1, <5>2
      <4>7. Comes({"lost"})' <=> Comes({"lost"})
        BY <2>1, <4>1
      <4>8. Hope => Hope'
        BY <1>0, <4>7 DEF Hope
      <4>9. FollowedBy(commands, "login", "load")
        BY <4>5 DEF FollowedBy, Waits
      <4> QED
        BY <4>1, <4>2, <4>6, <4>8, <4>9 DEF Real, LossComes
    <3> QED
      BY <1>0, <2>1, <2>2, <3>1, ReduceQuietStep
  <2>3. CASE auth # "submitting"
    <3>1. LossComes'
      BY <1>0, <2>1, <2>3, LossStillComes
    <3> QED
      BY <1>0, <2>1, <2>3, <3>1, ReduceQuietStep
  <2> QED
    BY <2>2, <2>3
<1>5. CASE ReduceRestartFailed
  <2>0. Head(batch).kind = "restartFailed"
    BY <1>5 DEF ReduceRestartFailed, Dispatch
  <2>1. CASE auth = "restarting"
    <3>1. status' = "failed"
      BY <1>5, <2>1 DEF ReduceRestartFailed, Settled
    <3>2. LossComes'
      BY <3>1 DEF LossComes
    <3> QED
      BY <1>0, <3>1, <3>2, ReduceQuietStep
  <2>2. CASE auth # "restarting"
    <3>1. UNCHANGED <<status, auth, profile>>
      BY <1>5, <2>2 DEF ReduceRestartFailed
    <3>2. LossComes'
      BY <1>0, <2>0, <3>1, LossStillComes
    <3> QED
      BY <1>0, <2>0, <2>2, <3>1, <3>2, ReduceQuietStep
  <2> QED
    BY <2>1, <2>2
<1>6. CASE ReduceAccountLoaded
  <2>1. /\ Head(batch).kind = "account" /\ status' = status /\ profile' = TRUE /\ auth' = "idle"
    BY <1>6 DEF ReduceAccountLoaded, Dispatch
  <2>2. LossComes'
    BY <2>1 DEF LossComes, SignInMayBeForgotten
(* It may end a restart, but then the connection is what comes next.         *)
  <2>3. status = "connecting" /\ auth = "restarting" => Dialing' \/ Comes({"connected", "failed"})'
    <3>1. Ends(Stream, 0, RestartingNow) => Comes({"connected", "failed"})'
      BY <1>0, <2>1, EndsNext
    <3>2. Comes({"connected", "failed"}) => Comes({"connected", "failed"})'
      BY <1>0, <2>1, ReduceKeeps
    <3>3. Dialing' = Dialing
      <4>1. UNCHANGED <<commands, backend, why>>
        BY <1>0, ReduceKeeps
      <4> QED
        BY <4>1 DEF Dialing
    <3> QED
      BY <3>1, <3>2, <3>3 DEF Real, ConnectingComes
  <2> QED
    BY <1>0, <2>1, <2>2, <2>3, ReduceQuietStep
<1> QED
  BY <1>1, <1>2, <1>3, <1>4, <1>5, <1>6
-----------------------------------------------------------------------------
LEMMA RealStep == RealInv /\ [Next]_vars => RealInv'
<1> SUFFICES ASSUME RealInv, [Next]_vars PROVE RealInv'
  OBVIOUS
<1>1. Types' /\ Standing'
  BY TypesStep, StandingStep DEF RealInv
<1> SUFFICES ASSUME ~Excused' PROVE Real'
  BY <1>1 DEF RealInv
<1>2. Types /\ Standing /\ Real
  BY NoNewExcuse DEF RealInv
<1>3. ~missed' /\ ~quitting'
  BY DEF Excused
<1>4. CASE Backend
  <2>1. CASE Emit
    <3>1. EmitQueued
      BY <1>3, <2>1 DEF Emit, EmitTimedOut
    <3> QED
      BY <1>2, <2>1, <3>1, QuietSteps
  <2>2. CASE TopStep \/ PollLossy \/ PollSemantic \/ PollClosed \/ PollEmpty \/ NoCommand
             \/ TimerDue \/ TimerNotDue
    BY <1>2, <2>2, QuietSteps
  <2>3. CASE PollOverload \/ PollDisconnected \/ SignalClosed
    BY <1>2, <2>3, LossSteps
  <2>4. CASE StopBackend
    BY <1>3, <2>4 DEF StopBackend, notCommand, notBackend
  <2>5. CASE RunConnect \/ RunSchedule \/ RunLoad \/ RunLocal \/ RunLogin
    BY <1>2, <2>5, ConnectStep, ScheduleStep, LoadStep, LocalStep, LoginStep
  <2>6. CASE Restart \/ ConnectSucceeds \/ ConnectFails
    BY <1>2, <2>6, RestartStep, SucceedStep, FailStep
  <2> QED
    BY <1>4, <2>1, <2>2, <2>3, <2>4, <2>5, <2>6 DEF Backend
<1>5. CASE Tick \/ CollectLoss \/ CollectEvent \/ CollectDone
  BY <1>2, <1>5, QuietSteps
<1>6. CASE Reduce
  BY <1>2, <1>3, <1>6, ReduceConnectedStep, ReduceLostStep, ReduceOtherSteps DEF Reduce
<1>7. CASE User
  BY <1>2, <1>3, <1>7, UserSteps DEF User, Quit
<1>8. CASE ServerDies \/ ServerSends \/ Exited \/ UNCHANGED vars
  BY <1>2, <1>8, QuietSteps
<1> QED
  BY <1>4, <1>5, <1>6, <1>7, <1>8 DEF Next, UI

(* What is in the stream is pending, queued or leaving. *)
LEMMA ComingIs ==
  ASSUME Types, NEW kinds
  PROVE  Comes(kinds) <=> Coming(kinds) \/ (lossPending /\ "lost" \in kinds)
<1>1. /\ batch \in Seq(Actions) /\ Loss \in Seq(Actions) /\ events \in Seq(Actions)
      /\ Leaving \in Seq(Actions) /\ LostAction.kind = "lost"
  BY StreamParts
<1>2. batch \o Loss \in Seq(Actions)
  BY <1>1, ConcatProperties
<1>3. (batch \o Loss) \o events \in Seq(Actions)
  BY <1>1, <1>2, ConcatProperties
<1>4. Carries(batch \o Loss, kinds) <=> Carries(batch, kinds) \/ Carries(Loss, kinds)
  BY <1>1, MoreCarries
<1>5. Carries((batch \o Loss) \o events, kinds) <=> Carries(batch \o Loss, kinds) \/ Carries(events, kinds)
  BY <1>1, <1>2, MoreCarries
<1>6. Comes(kinds) <=> Carries((batch \o Loss) \o events, kinds) \/ Carries(Leaving, kinds)
  <2>1. Stream = ((batch \o Loss) \o events) \o Leaving
    BY DEF Stream, Line
  <2> DEFINE s == (batch \o Loss) \o events
  <2>2. s \in Seq(Actions) /\ Stream = s \o Leaving
    BY <1>3, <2>1
  <2> HIDE DEF s
  <2>3. Carries(s \o Leaving, kinds) <=> Carries(s, kinds) \/ Carries(Leaving, kinds)
    BY <1>1, <2>2, MoreCarries
  <2> QED
    BY <2>2, <2>3 DEF Comes, s
<1>7. Carries(Loss, kinds) <=> lossPending /\ "lost" \in kinds
  <2>1. CASE lossPending
    <3>1. Loss = <<LostAction>>
      BY <2>1 DEF Loss, LostAction
    <3> QED
      BY <1>1, <2>1, <3>1 DEF Carries
  <2>2. CASE ~lossPending
    <3>1. Loss = <<>>
      BY <2>2 DEF Loss
    <3> QED
      BY <2>2, <3>1 DEF Carries
  <2> QED
    BY <2>1, <2>2
<1>8. Carries(Leaving, kinds) <=> backend = "emit" /\ Carries(out, kinds)
  <2>1. CASE backend = "emit"
    BY <2>1 DEF Leaving
  <2>2. CASE backend # "emit"
    <3>1. Leaving = <<>>
      BY <2>2 DEF Leaving
    <3> QED
      BY <2>2, <3>1 DEF Carries
  <2> QED
    BY <2>1, <2>2
<1> QED
  BY <1>4, <1>5, <1>6, <1>7, <1>8 DEF Coming

LEMMA RealIsReal == RealInv => ConnectUnderWay /\ RetryUnderWay /\ LossIsComing
<1> SUFFICES ASSUME RealInv, ~Excused PROVE ConnectUnderWay /\ RetryUnderWay /\ LossIsComing
  BY DEF ConnectUnderWay, RetryUnderWay, LossIsComing
<1>1. Types /\ Standing /\ Real
  BY DEF RealInv
<1>2. /\ Comes({"connected"}) <=> Coming({"connected"})
      /\ Comes({"connected", "failed"}) <=> Coming({"connected", "failed"})
      /\ Comes({"restartFailed"}) <=> Coming({"restartFailed"})
      /\ Comes({"loginAccepted"}) <=> Coming({"loginAccepted"})
      /\ Comes({"lost"}) <=> Coming({"lost"}) \/ lossPending
  BY <1>1, ComingIs
<1>3. \A c : Waits(commands, c) <=> Queued(c)
  BY DEF Waits, Queued
<1>4. ConnectUnderWay
  <2>1. Ends(Stream, 0, RestartingNow) =>
            Comes({"connected", "failed"}) \/ Comes({"restartFailed"}) \/ RestartingNow
    BY DEF Ends, Settles, Comes, Carries
  <2>2. RestartingNow => Restarting \/ Connecting
    BY DEF RestartingNow, Connecting
  <2>3. Dialing => Queued("connect") \/ Connecting
    BY <1>3 DEF Dialing, Connecting
  <2> QED
    BY <1>1, <1>2, <2>1, <2>2, <2>3 DEF ConnectUnderWay, Real, ConnectingComes
<1>5. RetryUnderWay
  <2>1. Retrying => (connection = "none" /\ (Queued("schedule") \/ pending # 0)) \/ Connecting
    BY <1>3 DEF Retrying
  <2> QED
    BY <1>1, <1>2, <2>1 DEF RetryUnderWay, Real, RecoveryComes
<1>6. LossIsComing
  <2>1. Coming({"lost"}) \/ Coming({"loginAccepted"}) => Coming({"lost", "loginAccepted"})
    BY DEF Coming, Carries
  <2>2. Hope => lossPending \/ Coming({"lost"}) \/ Queued("load")
    BY <1>2, <1>3 DEF Hope
  <2> QED
    BY <1>1, <1>2, <2>1, <2>2 DEF LossIsComing, Real, LossComes
<1> QED
  BY <1>4, <1>5, <1>6
-----------------------------------------------------------------------------
(* Powers of two.  What ^ means is known to the library of finite sets only, *)
(* by the number of the subsets of a set: a new element doubles them.        *)
Lower(n) == SUBSET (1..n)
Upper(n) == {B \in SUBSET (1..(n + 1)) : n + 1 \in B}

LEMMA Subsets ==
  ASSUME NEW n \in Nat
  PROVE  /\ IsFiniteSet(Lower(n)) /\ Cardinality(Lower(n)) \in Nat
         /\ Cardinality(Lower(n)) = 2 ^ n
<1>1. IsFiniteSet(1..n) /\ Cardinality(1..n) = n
  BY FS_Interval
<1>2. IsFiniteSet(SUBSET (1..n)) /\ Cardinality(SUBSET (1..n)) = 2 ^ Cardinality(1..n)
  BY <1>1, FS_SUBSET
<1> QED
  BY <1>1, <1>2, FS_CardinalityType DEF Lower

LEMMA SubsetsWithTheLast ==
  ASSUME NEW n \in Nat
  PROVE  /\ IsFiniteSet(Upper(n))
         /\ Cardinality(Upper(n)) = Cardinality(Lower(n))
<1> DEFINE with == [A \in Lower(n) |-> A \cup {n + 1}]
<1>1. ASSUME NEW A \in Lower(n) PROVE A \cup {n + 1} \in Upper(n)
  BY DEF Lower, Upper
<1>2. with \in [Lower(n) -> Upper(n)]
  BY <1>1
<1>3. ASSUME NEW A \in Lower(n) PROVE n + 1 \notin A
  BY DEF Lower
<1>4. ASSUME NEW A \in Lower(n), NEW B \in Lower(n), with[A] = with[B] PROVE A = B
  <2>1. A \cup {n + 1} = B \cup {n + 1} /\ n + 1 \notin A /\ n + 1 \notin B
    BY <1>3, <1>4
  <2> QED
    BY <2>1
<1>5. ASSUME NEW B \in Upper(n) PROVE \E A \in Lower(n) : with[A] = B
  <2>1. B \ {n + 1} \in Lower(n)
    BY DEF Lower, Upper
  <2>2. (B \ {n + 1}) \cup {n + 1} = B
    BY DEF Upper
  <2> QED
    BY <2>1, <2>2
<1> HIDE DEF with
<1>6. with \in Bijection(Lower(n), Upper(n))
  BY <1>2, <1>4, <1>5, Fun_IsBij
<1> QED
  BY <1>6, Subsets, FS_Bijection DEF ExistsBijection

LEMMA Power ==
  ASSUME NEW n \in Nat
  PROVE  2 ^ n \in Nat /\ 2 ^ (n + 1) = 2 * 2 ^ n
<1>1. Lower(n + 1) = Lower(n) \cup Upper(n) /\ Lower(n) \cap Upper(n) = {}
  <2>1. ASSUME NEW B \in Lower(n + 1), n + 1 \notin B PROVE B \in Lower(n)
    BY <2>1 DEF Lower
  <2>2. Lower(n) \subseteq Lower(n + 1) /\ Upper(n) \subseteq Lower(n + 1)
    BY DEF Lower, Upper
  <2>3. \A B \in Lower(n) : n + 1 \notin B
    BY DEF Lower
  <2>4. \A B \in Lower(n + 1) : n + 1 \in B => B \in Upper(n)
    BY DEF Lower, Upper
  <2> QED
    BY <2>1, <2>2, <2>3, <2>4 DEF Upper
<1>2. Cardinality(Lower(n + 1)) = Cardinality(Lower(n)) + Cardinality(Upper(n)) - 0
  <2>1. IsFiniteSet(Lower(n)) /\ IsFiniteSet(Upper(n))
    BY Subsets, SubsetsWithTheLast
  <2>2. Cardinality(Lower(n) \cup Upper(n))
            = Cardinality(Lower(n)) + Cardinality(Upper(n)) - Cardinality(Lower(n) \cap Upper(n))
    BY <2>1, FS_Union
  <2>3. Cardinality(Lower(n) \cap Upper(n)) = 0
    BY <1>1, FS_EmptySet
  <2> QED
    BY <1>1, <2>2, <2>3
<1>3. /\ Cardinality(Lower(n)) \in Nat /\ Cardinality(Lower(n)) = 2 ^ n
      /\ Cardinality(Lower(n + 1)) = 2 ^ (n + 1)
  BY Subsets
<1> QED
  BY <1>2, <1>3, SubsetsWithTheLast

LEMMA PowerOfZero == 2 ^ 0 = 1
  OBVIOUS

(* The delay of each attempt is that of the one before it, doubled.          *)
LEMMA FirstBackoff == BackoffOf(1) = InitialDelay
<1>1. 2 ^ (1 - 1) = 1
  BY PowerOfZero
<1> QED
  BY <1>1, Constants DEF BackoffOf, InitialDelay

LEMMA NextBackoff ==
  ASSUME NEW n \in Nat \ {0}
  PROVE  BackoffOf(n + 1) = Doubled(BackoffOf(n))
<1>1. n - 1 \in Nat /\ (n - 1) + 1 = n /\ (n + 1) - 1 = n
  OBVIOUS
<1> DEFINE p == 2 ^ (n - 1)
<1>2. p \in Nat /\ 2 ^ n = 2 * p
  BY <1>1, Power
<1>3. 2 ^ ((n + 1) - 1) = 2 * p
  BY <1>1, <1>2
<1> HIDE DEF p
<1>4. BackoffOf(n + 1) = IF 2 * p < MaxDelay THEN 2 * p ELSE MaxDelay
  BY <1>3 DEF BackoffOf
<1>5. BackoffOf(n) = IF p < MaxDelay THEN p ELSE MaxDelay
  BY DEF BackoffOf, p
<1> QED
  BY <1>2, <1>4, <1>5, Constants DEF Doubled
-----------------------------------------------------------------------------
(* The delays that are told, wherever they are on their way.                 *)
ToldRight(a) == a.kind = "retryScheduled" => a.delay = BackoffOf(a.attempt)
AllToldRight(s) == \A i \in DOMAIN s : ToldRight(s[i])

BackoffInv ==
    /\ BackoffSchedule
    /\ AllToldRight(out) /\ AllToldRight(events) /\ AllToldRight(batch)

LEMMA ToldAppend ==
  ASSUME NEW S, NEW s \in Seq(S), NEW a \in S, AllToldRight(s), ToldRight(a)
  PROVE  AllToldRight(Append(s, a))
<1>1. /\ DOMAIN s = 1..Len(s) /\ Len(s) \in Nat /\ DOMAIN Append(s, a) = 1..(Len(s) + 1)
      /\ \A i \in 1..Len(s) : Append(s, a)[i] = s[i]
      /\ Append(s, a)[Len(s) + 1] = a
  BY AppendProperties, LenProperties
<1> SUFFICES ASSUME NEW i \in DOMAIN Append(s, a) PROVE ToldRight(Append(s, a)[i])
  BY DEF AllToldRight
<1>2. CASE i = Len(s) + 1
  BY <1>1, <1>2
<1>3. CASE i # Len(s) + 1
  <2>1. i \in 1..Len(s)
    BY <1>1, <1>3
  <2> QED
    BY <1>1, <2>1 DEF AllToldRight
<1> QED
  BY <1>2, <1>3

LEMMA ToldTail ==
  ASSUME NEW S, NEW s \in Seq(S), s # <<>>, AllToldRight(s)
  PROVE  ToldRight(Head(s)) /\ AllToldRight(Tail(s))
<1>1. /\ Len(s) \in Nat \ {0} /\ Len(Tail(s)) = Len(s) - 1 /\ Tail(s) \in Seq(S)
      /\ \A i \in 1..Len(Tail(s)) : Tail(s)[i] = s[i + 1]
      /\ Head(s) = s[1] /\ DOMAIN s = 1..Len(s)
  BY HeadTailProperties, EmptySeq, LenProperties
<1>2. DOMAIN Tail(s) = 1..(Len(s) - 1)
  BY <1>1, LenProperties
<1>3. ASSUME NEW i \in DOMAIN Tail(s) PROVE ToldRight(Tail(s)[i])
  <2>1. i + 1 \in DOMAIN s /\ Tail(s)[i] = s[i + 1]
    BY <1>1, <1>2
  <2> QED
    BY <2>1 DEF AllToldRight
<1>4. 1 \in DOMAIN s
  BY <1>1
<1> QED
  BY <1>1, <1>3, <1>4 DEF AllToldRight

LEMMA ToldPlainly ==
  ASSUME NEW a, ToldRight(a)
  PROVE  AllToldRight(<<a>>)
  BY DEF AllToldRight

LEMMA PlainIsRight == \A kind : kind # "retryScheduled" => ToldRight(Plain(kind))
  BY DEF ToldRight, Plain, Act

LEMMA ScheduleIsRight ==
  ASSUME Types, BackoffSchedule
  PROVE  /\ ToldRight(RetryAnnouncement)
         /\ Schedule => nextDelay' = BackoffOf(nextAttempt')
<1>1. nextAttempt \in Nat \ {0} /\ nextDelay = BackoffOf(nextAttempt)
  BY DEF Types, Scalars, BackoffSchedule
<1> QED
  BY <1>1, NextBackoff DEF ToldRight, RetryAnnouncement, Act, Schedule

LEMMA BackoffInit == Init => BackoffInv
  BY FirstBackoff DEF Init, BackoffInv, BackoffSchedule, AllToldRight, InitialDelay

(* What the scheduler does next, and what is said of it.                     *)
SchedulerRight == nextDelay' = BackoffOf(nextAttempt')
LEMMA SchedulerStep ==
  ASSUME Types, BackoffInv, UNCHANGED schedulerVars \/ ResetScheduler \/ Schedule
         \/ UNCHANGED <<nextAttempt, nextDelay>>
  PROVE  SchedulerRight
<1>1. BackoffSchedule
  BY DEF BackoffInv
<1>2. CASE Schedule
  BY <1>1, <1>2, ScheduleIsRight DEF SchedulerRight
<1>3. CASE ResetScheduler
  BY <1>3, FirstBackoff DEF SchedulerRight, ResetScheduler
<1>4. CASE UNCHANGED <<nextAttempt, nextDelay>>
  BY <1>1, <1>4 DEF SchedulerRight, BackoffSchedule
<1> QED
  BY <1>2, <1>3, <1>4 DEF schedulerVars

(* The backend says what is right.                                           *)
LEMMA BackendBackoff ==
  ASSUME Types, BackoffInv, Backend
  PROVE  SchedulerRight /\ AllToldRight(out') /\ AllToldRight(events')
<1>0. /\ AllToldRight(out) /\ AllToldRight(events) /\ BackoffSchedule
      /\ events \in Seq(Actions) /\ out \in Seq(Actions)
  BY StreamParts DEF BackoffInv
<1>a. \A a \in Actions : ToldRight(a) => AllToldRight(Append(events, a))
  BY <1>0, ToldAppend
<1>b. \A kind \in ActionKinds : kind # "retryScheduled" => AllToldRight(Append(events, Plain(kind)))
  BY <1>a, PlainIsRight, PlainType
<1>c. \A kind : kind # "retryScheduled" => AllToldRight(<<Plain(kind)>>)
  BY PlainIsRight, ToldPlainly
<1>d. AllToldRight(<<RetryAnnouncement>>)
  BY <1>0, ScheduleIsRight, ToldPlainly
<1>1. SchedulerRight
  <2>1. UNCHANGED schedulerVars \/ ResetScheduler \/ Schedule \/ UNCHANGED <<nextAttempt, nextDelay>>
    BY DEF Backend, Emit, TopStep, PollLossy, PollSemantic, PollOverload, PollDisconnected,
       PollClosed, SignalClosed, PollEmpty, NoCommand, StopBackend, RunConnect, RunSchedule,
       RunLoad, RunLocal, RunLogin, Restart, ConnectSucceeds, ConnectFails, TimerDue, TimerNotDue
  <2> QED
    BY <2>1, SchedulerStep
<1>2. CASE Emit
  <2>1. out # <<>> /\ out' = Tail(out) /\ events' \in {events, Append(events, Head(out))}
    BY <1>2 DEF Emit, EmitQueued, EmitTimedOut, Types, Busy
  <2>2. ToldRight(Head(out)) /\ AllToldRight(Tail(out)) /\ Head(out) \in Actions
    BY <1>0, <2>1, ToldTail, HeadTailProperties
  <2> QED
    BY <1>0, <1>1, <1>a, <2>1, <2>2
<1>3. CASE TopStep \/ PollLossy \/ PollSemantic \/ PollOverload \/ PollDisconnected \/ SignalClosed
           \/ PollEmpty
  <2>1. out' = out
    BY <1>3 DEF TopStep, PollLossy, PollSemantic, PollOverload, PollDisconnected, SignalClosed,
       PollEmpty, Goto
  <2>2. events' \in {events, Append(events, Plain("item")), Append(events, Plain("lost"))}
    BY <1>3 DEF TopStep, PollLossy, PollSemantic, PollOverload, PollDisconnected, SignalClosed,
       PollEmpty
  <2>3. AllToldRight(events')
    BY <1>0, <1>b, <2>2 DEF ActionKinds
  <2> QED
    BY <1>0, <1>1, <2>1, <2>3
<1>4. CASE PollClosed \/ NoCommand \/ StopBackend \/ RunConnect \/ RunLoad \/ RunLocal \/ RunLogin
           \/ Restart \/ TimerNotDue
  <2>1. events' = events
    BY <1>4 DEF PollClosed, NoCommand, StopBackend, RunConnect, RunLoad, RunLocal, RunLogin,
       Restart, TimerNotDue, notCommand
  <2>2. out' = out \/ \E kind : kind # "retryScheduled" /\ out' = <<Plain(kind)>>
    BY <1>4 DEF PollClosed, NoCommand, StopBackend, RunConnect, RunLoad, RunLocal, RunLogin,
       Restart, TimerNotDue, EmitThen, Goto, Replies
  <2> QED
    BY <1>0, <1>1, <1>c, <2>1, <2>2
<1>5. CASE RunSchedule \/ ConnectFails
  <2>1. events' = events
    BY <1>5 DEF RunSchedule, ConnectFails, notCommand
  <2>2. \/ out' = out \/ out' = <<RetryAnnouncement>>
        \/ \E kind : kind # "retryScheduled" /\ out' = <<Plain(kind)>>
    <3>1. why \in {"command", "login", "timer"}
      BY DEF Types, Scalars
    <3> QED
      BY <1>5, <3>1 DEF RunSchedule, ConnectFails, EmitThen, Goto
  <2> QED
    BY <1>0, <1>1, <1>c, <1>d, <2>1, <2>2
<1>6. CASE ConnectSucceeds
  <2>1. events' = events /\ (out' = <<Plain("connected")>> \/ out' = <<Plain("note"), Plain("connected")>>)
    BY <1>6 DEF ConnectSucceeds, EmitThen, notCommand
  <2>2. AllToldRight(<<Plain("note"), Plain("connected")>>)
    BY PlainIsRight DEF AllToldRight
  <2> QED
    BY <1>0, <1>1, <1>c, <2>1, <2>2
<1>7. CASE TimerDue
  <2>1. events' = events /\ out' = <<Act("retryStarted", pending, 0)>>
    BY <1>7 DEF TimerDue, EmitThen, notCommand
  <2>2. ToldRight(Act("retryStarted", pending, 0))
    BY DEF ToldRight, Act
  <2> QED
    BY <1>0, <1>1, <2>1, <2>2, ToldPlainly
<1> QED
  BY <1>2, <1>3, <1>4, <1>5, <1>6, <1>7 DEF Backend

(* The UI shows what it is told.                                             *)
LEMMA UIBackoff ==
  ASSUME Types, BackoffInv, UI
  PROVE  BackoffInv'
<1>0. /\ AllToldRight(out) /\ AllToldRight(events) /\ AllToldRight(batch) /\ BackoffSchedule
      /\ events \in Seq(Actions) /\ out \in Seq(Actions) /\ batch \in Seq(Actions)
      /\ LostAction \in Actions
  BY StreamParts DEF BackoffInv
<1>1. CASE Tick \/ CollectDone
  <2>1. UNCHANGED <<nextDelay, nextAttempt, shown, out, events, batch>>
    BY <1>1 DEF Tick, CollectDone, notReducer, notUi, schedulerVars
  <2> QED
    BY <2>1 DEF BackoffInv, BackoffSchedule
<1>2. CASE CollectLoss
  <2>1. UNCHANGED <<nextDelay, nextAttempt, shown, out, events>> /\ batch' = Append(batch, LostAction)
    BY <1>2 DEF CollectLoss, notUi, schedulerVars, LostAction
  <2>2. ToldRight(LostAction)
    BY PlainIsRight DEF LostAction
  <2>3. AllToldRight(batch')
    BY <1>0, <2>1, <2>2, ToldAppend
  <2> QED
    BY <1>0, <2>1, <2>3 DEF BackoffInv, BackoffSchedule
<1>3. CASE CollectEvent
  <2>1. /\ UNCHANGED <<nextDelay, nextAttempt, shown, out>> /\ batch' = Append(batch, Head(events))
        /\ events' = Tail(events) /\ events # <<>>
    BY <1>3 DEF CollectEvent, notUi, schedulerVars
  <2>2. ToldRight(Head(events)) /\ AllToldRight(Tail(events)) /\ Head(events) \in Actions
    BY <1>0, <2>1, ToldTail, HeadTailProperties
  <2>3. AllToldRight(batch')
    BY <1>0, <2>1, <2>2, ToldAppend
  <2> QED
    BY <1>0, <2>1, <2>2, <2>3 DEF BackoffInv, BackoffSchedule
<1>4. CASE Reduce
  <2>1. /\ batch # <<>> /\ batch' = Tail(batch)
        /\ UNCHANGED <<nextDelay, nextAttempt, out, events>>
    BY <1>4, ReduceTakes DEF notReducer, notUi, schedulerVars, Types, Busy
  <2>2. ToldRight(Head(batch)) /\ AllToldRight(Tail(batch))
    BY <1>0, <2>1, ToldTail
  <2>3. shown'.delay # 0 => shown'.delay = BackoffOf(shown'.attempt)
    <3>1. \/ shown' = shown \/ shown'.delay = 0
          \/ /\ Head(batch).kind = "retryScheduled"
             /\ shown' = [attempt |-> Head(batch).attempt, delay |-> Head(batch).delay]
      BY <1>4 DEF Reduce, ReduceConnected, ReduceConnectionLost, ReduceRetryScheduled,
       ReduceRetryStarted, ReduceConnectionFailed, ReduceLoginAccepted, ReduceLoginFailed,
       ReduceRestartFailed, ReduceAccountLoaded, ReduceOther, Recovering, Settled, Dispatch
    <3> QED
      BY <1>0, <2>2, <3>1 DEF BackoffSchedule, ToldRight
  <2> QED
    BY <1>0, <2>1, <2>2, <2>3 DEF BackoffInv, BackoffSchedule
<1> QED
  BY <1>1, <1>2, <1>3, <1>4 DEF UI

LEMMA BackoffStep == Types /\ BackoffInv /\ [Next]_vars => BackoffInv'
<1> SUFFICES ASSUME Types, BackoffInv, [Next]_vars PROVE BackoffInv'
  OBVIOUS
<1>1. CASE Backend
  <2>1. UNCHANGED <<shown, batch>>
    BY <1>1 DEF Backend, Emit, TopStep, PollLossy, PollSemantic, PollOverload, PollDisconnected,
       PollClosed, SignalClosed, PollEmpty, NoCommand, StopBackend, RunConnect, RunSchedule,
       RunLoad, RunLocal, RunLogin, Restart, ConnectSucceeds, ConnectFails, TimerDue, TimerNotDue,
       notCommand, notBackend, uiVars
  <2>2. SchedulerRight /\ AllToldRight(out') /\ AllToldRight(events')
    BY <1>1, BackendBackoff
  <2> QED
    BY <2>1, <2>2 DEF BackoffInv, BackoffSchedule, SchedulerRight
<1>2. CASE UI
  BY <1>2, UIBackoff
<1>3. CASE User \/ ServerDies \/ ServerSends \/ Exited \/ UNCHANGED vars
  <2>1. UNCHANGED <<nextDelay, nextAttempt, out, events, batch>>
    BY <1>3 DEF User, RetryConnection, UserEffect, SubmitLogin, Quit, ServerDies, ServerSends, Exited,
       notUser, notUi, notServer, vars, uiVars, schedulerVars
  <2>2. shown' = shown \/ shown'.delay = 0
    BY <1>3 DEF User, RetryConnection, UserEffect, SubmitLogin, Quit, ServerDies, ServerSends, Exited,
       notUser, notUi, notServer, vars, uiVars, Settled
  <2> QED
    BY <2>1, <2>2 DEF BackoffInv, BackoffSchedule
<1> QED
  BY <1>1, <1>2, <1>3 DEF Next

-----------------------------------------------------------------------------
(* Where the progression starts over.  A connection, and the one who is      *)
(* making one for the user or for a sign-in, have nothing to start over;     *)
(* hence neither has the restart, which takes down a connection that is up.  *)
(* The timer has one, whether it runs or is due.                             *)
FreshInv ==
    /\ connection = "up" => nextAttempt = 1
    /\ Connecting /\ why # "timer" => nextAttempt = 1
    /\ pending # 0 \/ (Connecting /\ why = "timer") => nextAttempt > 1

LEMMA FreshInit == Init => FreshInv
  BY DEF Init, FreshInv

LEMMA FreshStep == Types /\ Standing /\ FreshInv /\ [Next]_vars => FreshInv'
<1> SUFFICES ASSUME Types, Standing, FreshInv, [Next]_vars PROVE FreshInv'
  OBVIOUS
<1>0. /\ connection \in {"none", "up"} /\ why \in {"command", "login", "timer"}
      /\ after \in {"top", "closed", "timer", "restart", "connect"}
      /\ nextAttempt \in Nat \ {0}
      /\ backend = "emit" /\ after = "connect" => why = "timer"
  BY DEF Types, Scalars, Standing
<1> USE DEF FreshInv, Connecting, linkVars, schedulerVars
<1>1. CASE Emit
  BY <1>0, <1>1 DEF Emit, EmitQueued, EmitTimedOut
<1>12. CASE TopStep
  BY <1>0, <1>12 DEF TopStep, DropConnection, Goto
<1>2. CASE PollLossy \/ PollSemantic \/ PollOverload \/ PollDisconnected \/ SignalClosed
  BY <1>0, <1>2 DEF PollLossy, PollSemantic, PollOverload, PollDisconnected, SignalClosed,
     DropConnection, Goto
<1>3. CASE PollClosed \/ PollEmpty \/ NoCommand \/ StopBackend \/ TimerNotDue
  BY <1>0, <1>3 DEF PollClosed, PollEmpty, NoCommand, StopBackend, TimerNotDue, DropConnection,
     EmitThen, Goto
<1>4. CASE RunConnect
  BY <1>4 DEF RunConnect, ResetScheduler
<1>5. CASE RunSchedule
  BY <1>0, <1>5 DEF RunSchedule, Schedule, Take, EmitThen, Goto
<1>6. CASE RunLoad \/ RunLocal \/ RunLogin
  BY <1>0, <1>6 DEF RunLoad, RunLocal, RunLogin, EmitThen
<1>7. CASE Restart
  BY <1>7 DEF Restart, ResetScheduler
<1>8. CASE ConnectSucceeds
  BY <1>0, <1>8 DEF ConnectSucceeds, AfterConnect, EmitThen, ResetScheduler
<1>9. CASE ConnectFails
  BY <1>0, <1>9 DEF ConnectFails, Schedule, EmitThen
<1>10. CASE TimerDue
  BY <1>0, <1>10 DEF TimerDue, EmitThen
<1>11. CASE UI \/ User \/ ServerDies \/ ServerSends \/ Exited \/ UNCHANGED vars
  <2>1. UNCHANGED <<backend, after, why, nextAttempt, connection, pending>>
    BY <1>11 DEF UI, Tick, CollectLoss, CollectEvent, CollectDone, Reduce,
         ReduceConnected, ReduceConnectionLost, ReduceRetryScheduled, ReduceRetryStarted,
         ReduceConnectionFailed, ReduceLoginAccepted, ReduceLoginFailed,
         ReduceRestartFailed, ReduceAccountLoaded, ReduceOther,
         User, RetryConnection, UserEffect, SubmitLogin, Quit,
         ServerDies, ServerSends, Exited, notReducer, notUi, notUser, notServer, vars
  <2> QED
    BY <2>1
<1> QED
  BY <1>1, <1>2, <1>3, <1>4, <1>5, <1>6, <1>7, <1>8, <1>9, <1>10, <1>11, <1>12 DEF Next, Backend
-----------------------------------------------------------------------------
(* Of two kinds of actions on their way, one is never behind the other.      *)
NoneAfter(s, a, b) ==
    \A i, j \in DOMAIN s : s[i].kind = a /\ s[j].kind = b => j <= i

LEMMA MoreNone ==
  ASSUME NEW s \in Seq(Actions), NEW x \in Seq(Actions), NEW a, NEW b, NoneAfter(s, a, b),
         \/ ~Carries(x, {b})
         \/ ~Carries(s, {a}) /\ Len(x) = 1
         \/ ~Carries(s, {a}) /\ ~Carries(x, {a})
  PROVE  NoneAfter(s \o x, a, b)
<1>1. /\ Len(s) \in Nat /\ Len(x) \in Nat /\ DOMAIN (s \o x) = 1..(Len(s) + Len(x))
      /\ DOMAIN s = 1..Len(s) /\ DOMAIN x = 1..Len(x)
      /\ \A i \in 1..Len(s) : (s \o x)[i] = s[i]
      /\ \A i \in 1..Len(x) : (s \o x)[Len(s) + i] = x[i]
  BY Behind
<1> DEFINE t == s \o x
<1>2. ASSUME NEW i \in DOMAIN t, i > Len(s) PROVE i - Len(s) \in DOMAIN x /\ t[i] = x[i - Len(s)]
  <2>1. i - Len(s) \in 1..Len(x) /\ i = Len(s) + (i - Len(s))
    BY <1>1, <1>2
  <2> QED
    BY <1>1, <2>1
<1>3. \A i \in DOMAIN t : i <= Len(s) => i \in DOMAIN s /\ t[i] = s[i]
  BY <1>1
<1> SUFFICES ASSUME NEW i \in DOMAIN t, NEW j \in DOMAIN t, t[i].kind = a, t[j].kind = b
             PROVE  j <= i
  BY DEF NoneAfter
<1>4. i \in 1..(Len(s) + Len(x)) /\ j \in 1..(Len(s) + Len(x))
  BY <1>1
<1> HIDE DEF t
<1>5. CASE i <= Len(s) /\ j <= Len(s)
  BY <1>3, <1>5 DEF NoneAfter
<1>6. CASE j <= Len(s) /\ i > Len(s)
  BY <1>1, <1>4, <1>6
<1>7. CASE j > Len(s)
  <2>1. Carries(x, {b})
    BY <1>2, <1>7 DEF Carries
  <2>2. ~Carries(s, {a})
    BY <2>1
  <2>3. i > Len(s)
    <3>1. ~(i <= Len(s))
      BY <1>3, <2>2 DEF Carries
    <3> QED
      BY <1>1, <1>4, <3>1
  <2>4. Carries(x, {a})
    BY <1>2, <2>3 DEF Carries
  <2>5. Len(x) = 1
    BY <2>1, <2>4
  <2> QED
    BY <1>1, <1>4, <1>7, <2>3, <2>5
<1> QED
  BY <1>1, <1>4, <1>5, <1>6, <1>7

LEMMA TakenNone ==
  ASSUME NEW h \in Actions, NEW s \in Seq(Actions), NEW a, NEW b, NoneAfter(<<h>> \o s, a, b)
  PROVE  NoneAfter(s, a, b) /\ (h.kind = a => ~Carries(s, {b}))
<1> DEFINE t == <<h>> \o s
<1>1. /\ Len(s) \in Nat /\ DOMAIN t = 1..(Len(s) + 1) /\ DOMAIN s = 1..Len(s)
      /\ t[1] = h /\ \A j \in 1..Len(s) : t[j + 1] = s[j]
  BY Before
<1>2. \A i, j \in DOMAIN t : t[i].kind = a /\ t[j].kind = b => j <= i
  BY DEF NoneAfter
<1> HIDE DEF t
<1>3. \A i \in DOMAIN s : i + 1 \in DOMAIN t /\ t[i + 1] = s[i] /\ i \in Nat \ {0}
  BY <1>1
<1>4. ASSUME NEW i \in DOMAIN s, NEW j \in DOMAIN s, s[i].kind = a, s[j].kind = b PROVE j <= i
  <2>1. j + 1 <= i + 1
    BY <1>2, <1>3, <1>4
  <2> QED
    BY <1>3, <2>1
<1>5. ASSUME h.kind = a, NEW j \in DOMAIN s, s[j].kind = b PROVE FALSE
  <2>1. j + 1 <= 1
    <3>1. 1 \in DOMAIN t
      BY <1>1
    <3> QED
      BY <1>1, <1>2, <1>3, <1>5, <3>1
  <2> QED
    BY <1>3, <2>1
<1> QED
  BY <1>4, <1>5 DEF NoneAfter, Carries

(* One comes in between, or goes. *)
LEMMA SlipNone ==
  ASSUME NEW l \in Seq(Actions), NEW x \in Actions, NEW r \in Seq(Actions), NEW a, NEW b
  PROVE  /\ NoneAfter(l \o r, a, b) /\ x.kind # a /\ x.kind # b =>
                NoneAfter(l \o (<<x>> \o r), a, b)
         /\ NoneAfter(l \o (<<x>> \o r), a, b) => NoneAfter(l \o r, a, b)
<1> DEFINE s == l \o r
           t == l \o (<<x>> \o r)
<1>1. /\ Len(l) \in Nat /\ Len(r) \in Nat /\ Len(s) = Len(l) + Len(r)
      /\ DOMAIN s = 1..Len(s) /\ DOMAIN t = 1..(Len(s) + 1)
      /\ \A i \in 1..Len(l) : t[i] = s[i]
      /\ t[Len(l) + 1] = x
      /\ \A i \in (Len(l) + 1)..Len(s) : t[i + 1] = s[i]
  BY Slip
<1> HIDE DEF s, t
<1> DEFINE old(i) == IF i <= Len(l) THEN i ELSE i - 1
           new(i) == IF i <= Len(l) THEN i ELSE i + 1
<1>2. ASSUME NEW i \in DOMAIN t, i # Len(l) + 1
      PROVE  old(i) \in DOMAIN s /\ t[i] = s[old(i)]
  <2>1. i \in 1..(Len(s) + 1)
    BY <1>1
  <2>2. CASE i <= Len(l)
    BY <1>1, <2>1, <2>2
  <2>3. CASE i > Len(l) + 1
    <3>1. i - 1 \in (Len(l) + 1)..Len(s) /\ (i - 1) + 1 = i
      BY <1>1, <2>1, <2>3
    <3> QED
      BY <1>1, <2>3, <3>1
  <2> QED
    BY <1>1, <1>2, <2>1, <2>2, <2>3
<1>3. ASSUME NEW i \in DOMAIN s PROVE new(i) \in DOMAIN t /\ t[new(i)] = s[i]
  <2>1. i \in 1..Len(s)
    BY <1>1
  <2>2. CASE i <= Len(l)
    BY <1>1, <2>1, <2>2
  <2>3. CASE i > Len(l)
    <3>1. i \in (Len(l) + 1)..Len(s)
      BY <1>1, <2>1, <2>3
    <3> QED
      BY <1>1, <2>3, <3>1
  <2> QED
    BY <1>1, <2>1, <2>2, <2>3
<1>4. ASSUME NoneAfter(s, a, b), x.kind # a, x.kind # b PROVE NoneAfter(t, a, b)
  <2> SUFFICES ASSUME NEW i \in DOMAIN t, NEW j \in DOMAIN t, t[i].kind = a, t[j].kind = b
               PROVE  j <= i
    BY DEF NoneAfter
  <2>1. i # Len(l) + 1 /\ j # Len(l) + 1
    BY <1>1, <1>4
  <2>2. old(j) <= old(i)
    BY <1>2, <1>4, <2>1 DEF NoneAfter
  <2>3. i \in 1..(Len(s) + 1) /\ j \in 1..(Len(s) + 1)
    BY <1>1
  <2> QED
    BY <1>1, <2>1, <2>2, <2>3
<1>5. ASSUME NoneAfter(t, a, b) PROVE NoneAfter(s, a, b)
  <2> SUFFICES ASSUME NEW i \in DOMAIN s, NEW j \in DOMAIN s, s[i].kind = a, s[j].kind = b
               PROVE  j <= i
    BY DEF NoneAfter
  <2>1. new(j) <= new(i)
    BY <1>3, <1>5 DEF NoneAfter
  <2>2. i \in 1..Len(s) /\ j \in 1..Len(s)
    BY <1>1
  <2> QED
    BY <1>1, <2>1, <2>2
<1> QED
  BY <1>4, <1>5 DEF s, t

(* Of the commands, one never stands behind another.                         *)
Leads(s, c, d) == \A i, j \in DOMAIN s : s[i] = c /\ s[j] = d => j < i

LEMMA MoreLeads ==
  ASSUME NEW s \in Seq(Effects), NEW x \in Seq(Effects), NEW c, NEW d, c # d, Leads(s, c, d),
         ~Waits(x, d)
  PROVE  Leads(s \o x, c, d)
<1>1. /\ Len(s) \in Nat /\ Len(x) \in Nat /\ DOMAIN (s \o x) = 1..(Len(s) + Len(x))
      /\ DOMAIN s = 1..Len(s) /\ DOMAIN x = 1..Len(x)
      /\ \A i \in 1..Len(s) : (s \o x)[i] = s[i]
      /\ \A i \in 1..Len(x) : (s \o x)[Len(s) + i] = x[i]
  BY Behind
<1> DEFINE t == s \o x
<1>2. ASSUME NEW j \in DOMAIN t, t[j] = d PROVE j \in 1..Len(s) /\ s[j] = d
  <2>1. j <= Len(s)
    <3> SUFFICES ASSUME j > Len(s) PROVE FALSE
      BY <1>1
    <3>1. j - Len(s) \in 1..Len(x) /\ j = Len(s) + (j - Len(s))
      BY <1>1
    <3>2. x[j - Len(s)] = d
      BY <1>1, <1>2, <3>1
    <3> QED
      BY <1>1, <3>1, <3>2 DEF Waits
  <2> QED
    BY <1>1, <1>2, <2>1
<1> SUFFICES ASSUME NEW i \in DOMAIN t, NEW j \in DOMAIN t, t[i] = c, t[j] = d
             PROVE  j < i
  BY DEF Leads
<1>3. j \in 1..Len(s) /\ s[j] = d /\ i \in 1..(Len(s) + Len(x))
  BY <1>1, <1>2
<1>4. CASE i <= Len(s)
  <2>1. i \in DOMAIN s /\ s[i] = c /\ j \in DOMAIN s
    BY <1>1, <1>3, <1>4
  <2> QED
    BY <1>3, <2>1 DEF Leads
<1>5. CASE i > Len(s)
  BY <1>1, <1>3, <1>5
<1> QED
  BY <1>1, <1>3, <1>4, <1>5

LEMMA TakenLeads ==
  ASSUME NEW s \in Seq(Effects), s # <<>>, NEW c, NEW d, Leads(s, c, d)
  PROVE  Leads(Tail(s), c, d) /\ (Head(s) = c => ~Waits(Tail(s), d))
<1> DEFINE t == Tail(s)
<1>1. /\ Len(s) \in Nat \ {0} /\ DOMAIN s = 1..Len(s) /\ DOMAIN t = 1..(Len(s) - 1)
      /\ \A i \in 1..(Len(s) - 1) : t[i] = s[i + 1]
      /\ Head(s) = s[1]
  BY HeadTailProperties, EmptySeq, LenProperties
<1> HIDE DEF t
<1>2. \A i \in DOMAIN t : i + 1 \in DOMAIN s /\ s[i + 1] = t[i] /\ i \in Nat \ {0}
  BY <1>1
<1>3. ASSUME NEW i \in DOMAIN t, NEW j \in DOMAIN t, t[i] = c, t[j] = d PROVE j < i
  <2>1. j + 1 < i + 1
    BY <1>2, <1>3 DEF Leads
  <2> QED
    BY <1>2, <2>1
<1>4. ASSUME s[1] = c, NEW j \in DOMAIN t, t[j] = d PROVE FALSE
  <2>1. j + 1 < 1
    <3>1. 1 \in DOMAIN s
      BY <1>1
    <3> QED
      BY <1>2, <1>4, <3>1 DEF Leads
  <2> QED
    BY <1>2, <2>1
<1> QED
  BY <1>1, <1>3, <1>4 DEF Leads, Waits, t
-----------------------------------------------------------------------------
(* Nothing more is said of how a connection or a sign-in went, or it was     *)
(* said before.                                                              *)
Says(kind) == Comes({kind})
SaysNoMore ==
    /\ Says("connected")' => Says("connected")
    /\ Says("failed")' => Says("failed")
    /\ Says("loginAccepted")' => Says("loginAccepted")
    /\ Says("restartFailed")' => Says("restartFailed")
    /\ NoneAfter(Stream, "failed", "failed") => NoneAfter(Stream', "failed", "failed")
    /\ NoneAfter(Stream, "restartFailed", "connected") =>
           NoneAfter(Stream', "restartFailed", "connected")

LEMMA KeptSays == ASSUME Stream' = Stream PROVE SaysNoMore
  BY DEF SaysNoMore, Says, Comes

LEMMA GrowsSays ==
  ASSUME Types, NEW kinds, Grows(kinds),
         kinds \cap {"connected", "failed", "loginAccepted", "restartFailed"} = {}
  PROVE  SaysNoMore
<1>1. PICK x \in Seq(Actions) : Stream' = Stream \o x /\ \A i \in DOMAIN x : x[i].kind \in kinds
  BY DEF Grows
<1>2. ~Carries(x, {"connected"}) /\ ~Carries(x, {"failed"})
  BY <1>1 DEF Carries
<1>3. \A a, b : b \in {"connected", "failed"} /\ NoneAfter(Stream, a, b) => NoneAfter(Stream \o x, a, b)
  BY <1>1, <1>2, StreamParts, MoreNone
<1> DEFINE t == Stream \o x
<1>5. Stream' = t /\ \A a, b : b \in {"connected", "failed"} /\ NoneAfter(Stream, a, b) => NoneAfter(t, a, b)
  BY <1>1, <1>3
<1> HIDE DEF t
<1>6. /\ NoneAfter(Stream, "failed", "failed") => NoneAfter(Stream', "failed", "failed")
      /\ NoneAfter(Stream, "restartFailed", "connected") =>
             NoneAfter(Stream', "restartFailed", "connected")
  BY <1>5
<1>4. /\ Says("connected")' => Says("connected")
      /\ Says("failed")' => Says("failed")
      /\ Says("loginAccepted")' => Says("loginAccepted")
      /\ Says("restartFailed")' => Says("restartFailed")
  BY GrowsCarries DEF Says
<1> QED
  BY <1>4, <1>6 DEF SaysNoMore

LEMMA LossSays ==
  ASSUME Types, UNCHANGED <<batch, events>>, backend # "emit", backend' # "emit",
         lossPending' = TRUE
  PROVE  SaysNoMore
<1>1. CASE Stream' = Stream
  BY <1>1, KeptSays
<1>2. CASE Stream' # Stream
  <2>1. PICK l, r \in Seq(Actions) : Stream = l \o r /\ Stream' = l \o (<<LostAction>> \o r)
    BY <1>2, StreamSlips
  <2>2. LostAction \in Actions /\ LostAction.kind = "lost"
    BY StreamParts
  <2>3. \A kinds : Carries(l \o (<<LostAction>> \o r), kinds) <=> Carries(l \o r, kinds) \/ "lost" \in kinds
    BY <2>2, SlipCarries
  <2>4. \A a, b : a # "lost" /\ b # "lost" /\ NoneAfter(l \o r, a, b) =>
            NoneAfter(l \o (<<LostAction>> \o r), a, b)
    BY <2>2, SlipNone
  <2>5. \A kind : kind # "lost" => (Says(kind)' => Says(kind))
    BY <2>1, <2>3 DEF Says, Comes
  <2>6. /\ NoneAfter(Stream, "failed", "failed") => NoneAfter(Stream', "failed", "failed")
        /\ NoneAfter(Stream, "restartFailed", "connected") =>
                NoneAfter(Stream', "restartFailed", "connected")
    BY <2>1, <2>4
  <2> QED
    BY <2>5, <2>6 DEF SaysNoMore
<1> QED
  BY <1>1, <1>2

Forgets(s, t) ==
    \E l, r \in Seq(Actions), x \in Actions : s = l \o (<<x>> \o r) /\ t = l \o r

LEMMA LineForgets ==
  ASSUME NEW b \in Seq(Actions), NEW q \in Seq(Actions), NEW e \in Seq(Actions),
         NEW o \in Seq(Actions), o # <<>>
  PROVE  Forgets(Line(b, q, e, o), Line(b, q, e, Tail(o)))
<1>1. Head(o) \in Actions /\ Tail(o) \in Seq(Actions) /\ o = <<Head(o)>> \o Tail(o)
  BY HeadAndTail
<1>2. b \o q \in Seq(Actions) /\ (b \o q) \o e \in Seq(Actions)
  BY ConcatProperties
<1> DEFINE l == (b \o q) \o e
           x == Head(o)
           r == Tail(o)
<1>3. l \in Seq(Actions) /\ x \in Actions /\ r \in Seq(Actions)
  BY <1>1, <1>2
<1>4. Line(b, q, e, o) = l \o o /\ Line(b, q, e, Tail(o)) = l \o r
  BY DEF Line
<1>5. o = <<x>> \o r
  BY <1>1
<1> HIDE DEF l, x, r
<1>6. Line(b, q, e, o) = l \o (<<x>> \o r)
  BY <1>4, <1>5
<1> QED
  BY <1>3, <1>4, <1>6 DEF Forgets

(* A full queue swallows one.                                                *)
LEMMA TimedOutSays == ASSUME Types, Emit, EmitTimedOut PROVE SaysNoMore
<1>1. /\ backend = "emit" /\ out # <<>> /\ out' = Tail(out) /\ after # "emit"
      /\ backend' = IF Tail(out) = <<>> THEN after ELSE "emit"
      /\ UNCHANGED <<batch, events, lossPending>>
  BY DEF Emit, EmitTimedOut, Types, Busy, Scalars, notBackend, uiVars, signalVars
<1>2. Leaving = out /\ Leaving' = Tail(out) /\ Loss' = Loss
  BY <1>1 DEF Leaving, Loss
<1>3. Stream = Line(batch, Loss, events, out) /\ Stream' = Line(batch, Loss, events, Tail(out))
  BY <1>1, <1>2 DEF Stream
<1>4. PICK l, r \in Seq(Actions), x \in Actions : Stream = l \o (<<x>> \o r) /\ Stream' = l \o r
  <2>1. Forgets(Line(batch, Loss, events, out), Line(batch, Loss, events, Tail(out)))
    BY <1>1, StreamParts, LineForgets
  <2>2. Forgets(Stream, Stream')
    BY <1>3, <2>1
  <2> QED
    BY <2>2 DEF Forgets
<1>5. \A kinds : Carries(l \o r, kinds) => Carries(l \o (<<x>> \o r), kinds)
  BY <1>4, SlipCarries
<1>6. \A a, b : NoneAfter(l \o (<<x>> \o r), a, b) => NoneAfter(l \o r, a, b)
  BY <1>4, SlipNone
<1>7. \A kind : Says(kind)' => Says(kind)
  BY <1>4, <1>5 DEF Says, Comes
<1>8. \A a, b : NoneAfter(Stream, a, b) => NoneAfter(Stream', a, b)
  BY <1>4, <1>6
<1> QED
  BY <1>7, <1>8 DEF SaysNoMore

(* The reducer takes the first.                                              *)
LEMMA TakesSays ==
  ASSUME Types, Reduce
  PROVE  /\ SaysNoMore /\ Says(Head(batch).kind)
         /\ Head(batch).kind = "failed" /\ NoneAfter(Stream, "failed", "failed") => ~Says("failed")'
         /\ Head(batch).kind = "restartFailed" /\ NoneAfter(Stream, "restartFailed", "connected") =>
                ~Says("connected")'
<1>1. /\ Head(batch) \in Actions /\ Stream' \in Seq(Actions)
      /\ Stream = <<Head(batch)>> \o Stream'
  BY StreamTakes
<1> DEFINE h == Head(batch)
           t == Stream'
<1>2. h \in Actions /\ t \in Seq(Actions) /\ Stream = <<h>> \o t
  BY <1>1
<1> HIDE DEF h, t
<1>3. \A kinds : Carries(<<h>> \o t, kinds) <=> h.kind \in kinds \/ Carries(t, kinds)
  BY <1>2, TakenCarries
<1>4. \A a, b : NoneAfter(<<h>> \o t, a, b) =>
          NoneAfter(t, a, b) /\ (h.kind = a => ~Carries(t, {b}))
  BY <1>2, TakenNone
<1>5. \A kind : Says(kind)' <=> Carries(t, {kind})
  BY DEF Says, Comes, t
<1>6. \A kind : Says(kind) <=> h.kind = kind \/ Carries(t, {kind})
  BY <1>2, <1>3 DEF Says, Comes
<1>7. \A a, b : NoneAfter(Stream, a, b) => NoneAfter(Stream', a, b) /\ (h.kind = a => ~Says(b)')
  BY <1>2, <1>4, <1>5 DEF t
<1>8. SaysNoMore
  BY <1>5, <1>6, <1>7 DEF SaysNoMore
<1> QED
  BY <1>6, <1>7, <1>8 DEF h

(* What the backend says of a connection.                                    *)
LEMMA NewsSays ==
  ASSUME Types, UNCHANGED <<batch, lossPending, events>>, backend # "emit",
         NEW kind \in ActionKinds, NEW pc, EmitThen(<<Plain(kind)>>, pc)
  PROVE  /\ \A k : Says(k)' <=> Says(k) \/ k = kind
         /\ \A a, b : NoneAfter(Stream, a, b) /\ (b = kind => ~Says(a)) => NoneAfter(Stream', a, b)
<1> DEFINE x == <<Plain(kind)>>
<1>1. /\ Plain(kind) \in Actions /\ Plain(kind).kind = kind /\ x \in Seq(Actions) /\ Len(x) = 1
      /\ DOMAIN x = {1} /\ x[1].kind = kind
  BY PlainType
<1>2. Stream' = Stream \o x
  BY <1>1, StreamGrows
<1>3. \A kinds : Carries(x, kinds) <=> kind \in kinds
  BY <1>1 DEF Carries
<1> HIDE DEF x
<1>4. \A kinds : Carries(Stream \o x, kinds) <=> Carries(Stream, kinds) \/ kind \in kinds
  BY <1>1, <1>3, StreamParts, MoreCarries
<1>5. ASSUME NEW a, NEW b, NoneAfter(Stream, a, b), b = kind => ~Carries(Stream, {a})
      PROVE  NoneAfter(Stream \o x, a, b)
  <2>1. ~Carries(x, {b}) \/ (~Carries(Stream, {a}) /\ Len(x) = 1)
    BY <1>1, <1>3, <1>5
  <2> QED
    BY <1>1, <1>5, <2>1, StreamParts, MoreNone
<1> QED
  BY <1>2, <1>4, <1>5 DEF Says, Comes
-----------------------------------------------------------------------------
(* Why a retry is alone.  With one sign-in, the reducer takes no answer for  *)
(* that of another.  Whoever waits for a connection then waits for one: who  *)
(* dials, a failure on its way, the retry offered after it and a progression *)
(* of delays exclude each other.                                             *)
OneSignIn == count.logins <= 1

(* The reducer will take no further news of the sign-in.                     *)
SignedOff == auth = "idle" \/ (~Says("loginAccepted") /\ ~Says("restartFailed"))
DialNow == backend = "connect" /\ why = "command"
Still == connection = "none" /\ ~Connecting /\ ~Restarting /\ ~Waits(commands, "connect")
Progress == nextAttempt > 1 \/ Waits(commands, "schedule")

DialsAlone ==
    Dialing =>
        /\ connection = "none" /\ ~RestartingNow /\ SignedOff
        /\ ~Says("connected") /\ ~Says("failed")
        /\ AtMostOnce(commands, "connect")
        /\ DialNow => ~Waits(commands, "connect")

FailsAlone ==
    Says("failed") =>
        /\ Still /\ SignedOff
        /\ ~Says("connected") /\ NoneAfter(Stream, "failed", "failed")

ProgressesAlone == Progress => ~Dialing /\ ~Says("failed") /\ SignedOff

(* A schedule that finds a sign-in under way was queued before it.           *)
SchedulesBefore ==
    Waits(commands, "schedule") /\ auth # "idle" =>
        ~RestartingNow /\ Leads(commands, "login", "schedule")

RestartFailsAlone ==
    auth # "idle" /\ Says("restartFailed") =>
        Still /\ NoneAfter(Stream, "restartFailed", "connected")

Apart == DialsAlone /\ FailsAlone /\ ProgressesAlone /\ SchedulesBefore /\ RestartFailsAlone

(* And the status tells which it is.                                         *)
Told ==
    /\ Dialing \/ Says("failed") => status = "connecting"
    /\ status = "failed" =>
           Still /\ SignedOff /\ ~Progress /\ ~Says("connected") /\ ~Says("failed")

NoSignIn ==
    count.logins = 0 =>
        /\ ~Waits(commands, "login") /\ ~RestartingNow
        /\ ~Says("loginAccepted") /\ ~Says("restartFailed")

Alone == NoSignIn /\ (OneSignIn => Apart /\ Told)

(* No command comes that would change this.                                  *)
CommandsNoMore ==
    /\ Waits(commands, "connect")' => Waits(commands, "connect")
    /\ Waits(commands, "schedule")' => Waits(commands, "schedule")
    /\ Waits(commands, "login")' => Waits(commands, "login")
    /\ AtMostOnce(commands, "connect") => AtMostOnce(commands, "connect")'
    /\ Leads(commands, "login", "schedule") => Leads(commands, "login", "schedule")'

LEMMA CommandsKept == ASSUME commands' = commands PROVE CommandsNoMore
  BY DEF CommandsNoMore, Waits, AtMostOnce, Leads

LEMMA CommandsTaken ==
  ASSUME Types, NEW c, Take(c)
  PROVE  /\ CommandsNoMore /\ Waits(commands, c)
         /\ AtMostOnce(commands, c) => ~Waits(commands, c)'
         /\ \A d : Leads(commands, c, d) => ~Waits(commands, d)'
<1>1. commands \in Seq(Effects) /\ commands # <<>> /\ Head(commands) = c /\ commands' = Tail(commands)
  BY DEF Types, Queues, Take
<1>2. /\ \A d : Waits(commands, d) <=> Head(commands) = d \/ Waits(Tail(commands), d)
      /\ \A d : AtMostOnce(commands, d) =>
             AtMostOnce(Tail(commands), d) /\ (Head(commands) = d => ~Waits(Tail(commands), d))
  BY <1>1, TakenCommand
<1>3. \A d, e : Leads(commands, d, e) =>
          Leads(Tail(commands), d, e) /\ (Head(commands) = d => ~Waits(Tail(commands), e))
  BY <1>1, TakenLeads
<1>4. \A d : Waits(commands, d)' <=> Waits(Tail(commands), d)
  BY <1>1 DEF Waits
<1>5. \A d, e : Leads(commands, d, e)' <=> Leads(Tail(commands), d, e)
  BY <1>1 DEF Leads
<1>6. \A d : AtMostOnce(commands, d)' <=> AtMostOnce(Tail(commands), d)
  BY <1>1 DEF AtMostOnce
<1> HIDE DEF CommandsNoMore
<1>7. CommandsNoMore
  BY <1>2, <1>3, <1>4, <1>5, <1>6 DEF CommandsNoMore
<1> QED
  BY <1>1, <1>2, <1>3, <1>4, <1>7

LEMMA CommandsMore ==
  ASSUME Types, NEW x \in Seq(Effects), commands' = commands \o x,
         ~Waits(x, "connect"), ~Waits(x, "schedule"), ~Waits(x, "login")
  PROVE  CommandsNoMore
<1>1. commands \in Seq(Effects)
  BY DEF Types, Queues
<1> DEFINE t == commands \o x
<1>2. \A d : Waits(t, d) <=> Waits(commands, d) \/ Waits(x, d)
  BY <1>1, MoreWaits
<1>3. AtMostOnce(commands, "connect") => AtMostOnce(t, "connect")
  BY <1>1, FirstOnce
<1>4. Leads(commands, "login", "schedule") => Leads(t, "login", "schedule")
  BY <1>1, MoreLeads
<1>5. commands' = t
  OBVIOUS
<1> HIDE DEF t
<1>6. \A d : Waits(commands, d)' <=> Waits(t, d)
  BY <1>5 DEF Waits
<1>7. Leads(commands, "login", "schedule")' <=> Leads(t, "login", "schedule")
  BY <1>5 DEF Leads
<1>8. AtMostOnce(commands, "connect")' <=> AtMostOnce(t, "connect")
  BY <1>5 DEF AtMostOnce
<1> QED
  BY <1>2, <1>3, <1>4, <1>6, <1>7, <1>8 DEF CommandsNoMore

LEMMA SilenceIsOrdered ==
  /\ \A b : ~Says("failed") => NoneAfter(Stream, "failed", b)
  /\ \A b : ~Says("restartFailed") => NoneAfter(Stream, "restartFailed", b)
  BY DEF Says, Comes, Carries, NoneAfter

(* A step after which nobody does what he did not do before.                 *)
Calmly ==
    /\ SaysNoMore /\ CommandsNoMore
    /\ auth' # "idle" => auth # "idle"
    /\ count'.logins = count.logins
    /\ RestartingNow' => RestartingNow
    /\ Connecting' => Connecting
    /\ Restarting' => Restarting
    /\ DialNow' => DialNow
    /\ connection' # "none" => connection # "none"
    /\ nextAttempt' > 1 => Progress

LEMMA CalmSays ==
  ASSUME Calmly
  PROVE  /\ SignedOff => SignedOff'
         /\ Still => Still'
         /\ Progress' => Progress
         /\ Dialing' => Dialing
         /\ NoSignIn => NoSignIn'
         /\ OneSignIn' => OneSignIn
  BY DEF Calmly, SaysNoMore, CommandsNoMore, SignedOff, Still, Progress, Dialing, DialNow,
     NoSignIn, OneSignIn

LEMMA CalmApart == ASSUME Calmly, Apart PROVE Apart'
<1>1. /\ SignedOff => SignedOff'
      /\ Still => Still'
      /\ Progress' => Progress
      /\ Dialing' => Dialing
  BY CalmSays
<1>2. DialsAlone'
  BY <1>1 DEF Calmly, SaysNoMore, CommandsNoMore, Apart, DialsAlone
<1>3. FailsAlone'
  BY <1>1 DEF Calmly, SaysNoMore, CommandsNoMore, Apart, FailsAlone
<1>4. ProgressesAlone'
  BY <1>1 DEF Calmly, SaysNoMore, CommandsNoMore, Apart, ProgressesAlone
<1>5. SchedulesBefore'
  BY <1>1 DEF Calmly, SaysNoMore, CommandsNoMore, Apart, SchedulesBefore
<1>6. RestartFailsAlone'
  BY <1>1 DEF Calmly, SaysNoMore, CommandsNoMore, Apart, RestartFailsAlone
<1> QED
  BY <1>2, <1>3, <1>4, <1>5, <1>6 DEF Apart

LEMMA CalmTold == ASSUME Calmly, status' = status, Told PROVE Told'
<1>1. /\ SignedOff => SignedOff'
      /\ Still => Still'
      /\ Progress' => Progress
      /\ Dialing' => Dialing
  BY CalmSays
<1> QED
  BY <1>1 DEF Calmly, SaysNoMore, Told

LEMMA CalmAlone == ASSUME Calmly, status' = status, Alone PROVE Alone'
  BY CalmSays, CalmApart, CalmTold DEF Alone
-----------------------------------------------------------------------------
(* The calm steps.  The backend says what it had to say, polls, or stops.    *)
LEMMA CalmEmit ==
  ASSUME Types, Standing, Emit PROVE Calmly /\ status' = status
<1>1. SaysNoMore
  <2>1. CASE EmitQueued
    BY <2>1, StreamEmits, KeptSays DEF Emit, notBackend, uiVars, signalVars
  <2>2. CASE EmitTimedOut
    BY <2>2, TimedOutSays
  <2> QED
    BY <2>1, <2>2 DEF Emit
<1>2. /\ UNCHANGED <<status, auth, commands, count, after, why, connection, nextAttempt>>
      /\ backend = "emit" /\ (backend' = after \/ backend' = "emit")
  BY DEF Emit, EmitQueued, EmitTimedOut, notBackend, uiVars, linkVars, schedulerVars
<1>3. CommandsNoMore
  BY <1>2, CommandsKept
<1>4. why = "command" => after # "connect"
  BY <1>2 DEF Standing
<1>5. /\ RestartingNow' => RestartingNow
      /\ Connecting' => Connecting
      /\ Restarting' => Restarting
      /\ DialNow' => DialNow
  BY <1>2, <1>4 DEF Standing, RestartingNow, Restarting, Connecting, DialNow
<1> QED
  BY <1>1, <1>2, <1>3, <1>5 DEF Calmly, Progress

LEMMA CalmPoll ==
  ASSUME Types, \/ TopStep \/ PollLossy \/ PollSemantic \/ PollOverload \/ PollDisconnected
                \/ PollClosed \/ SignalClosed \/ PollEmpty \/ NoCommand \/ StopBackend
                \/ TimerNotDue
  PROVE  Calmly /\ status' = status
<1> USE DEF notBackend, notCommand, uiVars, linkVars, schedulerVars, signalVars
<1>1. /\ UNCHANGED <<status, auth, batch, commands, count, why, nextAttempt>>
      /\ connection' = connection \/ connection' = "none"
      /\ backend \in {"top", "poll", "closed", "command", "timer"}
      /\ backend' \in {"top", "poll", "command", "timer", "stopped"}
             \/ (backend' = "emit" /\ after' = "closed")
  BY DEF TopStep, PollLossy, PollSemantic, PollOverload, PollDisconnected, PollClosed,
     SignalClosed, PollEmpty, NoCommand, StopBackend, TimerNotDue, DropConnection, EmitThen, Goto
<1>2. SaysNoMore
  <2>1. CASE TopStep \/ PollEmpty \/ NoCommand \/ StopBackend \/ TimerNotDue
    <3>1. UNCHANGED <<batch, lossPending, events>> /\ backend' # "emit"
      BY <2>1 DEF TopStep, PollEmpty, NoCommand, StopBackend, TimerNotDue, Goto
    <3> QED
      BY <1>1, <3>1, StreamKept, KeptSays
  <2>2. CASE PollLossy \/ PollSemantic
    <3>1. /\ UNCHANGED <<batch, lossPending>> /\ backend' # "emit"
          /\ events' = events \/ events' = Append(events, Plain("item"))
      BY <2>2 DEF PollLossy, PollSemantic
    <3>2. Plain("item") \in Actions /\ Plain("item").kind = "item"
      BY PlainType DEF ActionKinds
    <3>3. CASE events' = events
      BY <1>1, <3>1, <3>3, StreamKept, KeptSays
    <3>4. CASE events' = Append(events, Plain("item"))
      <4>1. Stream' = Stream \o <<Plain("item")>>
        BY <1>1, <3>1, <3>2, <3>4, StreamQueues
      <4>2. Grows({"item"})
        BY <3>2, <4>1, SaysGrows
      <4> QED
        BY <4>2, GrowsSays
    <3> QED
      BY <3>1, <3>3, <3>4
  <2>3. CASE PollOverload \/ PollDisconnected \/ SignalClosed
    <3>1. /\ batch' = batch /\ backend' # "emit"
          /\ \/ events' = events /\ lossPending' = TRUE
             \/ events' = Append(events, LostAction) /\ lossPending' = lossPending
      BY <2>3 DEF PollOverload, PollDisconnected, SignalClosed, Goto, LostAction
    <3>2. CASE events' = events /\ lossPending' = TRUE
      BY <1>1, <3>1, <3>2, LossSays
    <3>3. CASE events' = Append(events, LostAction) /\ lossPending' = lossPending
      <4>1. LostAction \in Actions /\ LostAction.kind = "lost"
        BY StreamParts
      <4>2. Stream' = Stream \o <<LostAction>>
        BY <1>1, <3>1, <3>3, <4>1, StreamQueues
      <4>3. Grows({"lost"})
        BY <4>1, <4>2, SaysGrows
      <4> QED
        BY <4>3, GrowsSays
    <3> QED
      BY <3>1, <3>2, <3>3
  <2>4. CASE PollClosed
    <3>1. UNCHANGED <<batch, lossPending, events>> /\ EmitThen(<<Plain("note")>>, "closed")
      BY <2>4 DEF PollClosed
    <3>2. Plain("note") \in Actions /\ Plain("note").kind = "note"
      BY PlainType DEF ActionKinds
    <3>3. Grows({"note"})
      BY <1>1, <3>1, <3>2, Said
    <3> QED
      BY <3>3, GrowsSays
  <2> QED
    BY <2>1, <2>2, <2>3, <2>4
<1>3. CommandsNoMore
  BY <1>1, CommandsKept
<1> QED
  BY <1>1, <1>2, <1>3 DEF Calmly, RestartingNow, Restarting, Connecting, DialNow, Progress

(* It runs an effect, or announces the retry it was asked to schedule.       *)
LEMMA CalmCommand ==
  ASSUME Types, \/ RunLoad \/ RunLocal \/ RunSchedule
                \/ RunLogin /\ EmitThen(<<Plain("loginFailed")>>, "timer")
  PROVE  Calmly /\ status' = status
<1> USE DEF notBackend, notCommand, uiVars, linkVars, schedulerVars, signalVars
<1>1. PICK c \in {"load", "local", "schedule", "login"} : Take(c)
  BY DEF RunLoad, RunLocal, RunSchedule, RunLogin
<1>2. CommandsNoMore /\ Waits(commands, c)
  BY <1>1, CommandsTaken
<1>3. /\ UNCHANGED <<status, auth, batch, lossPending, events, count, why, connection>>
      /\ backend = "command"
  BY <1>1 DEF RunLoad, RunLocal, RunSchedule, RunLogin, Take
<1>4. backend' = "timer" \/ (backend' = "emit" /\ after' = "timer")
  BY DEF RunLoad, RunLocal, RunSchedule, RunLogin, EmitThen, Goto
<1>5. nextAttempt' = nextAttempt \/ Waits(commands, "schedule")
  <2>1. CASE RunSchedule
    <3>1. Waits(commands, "schedule")
      BY <2>1, CommandsTaken DEF RunSchedule
    <3> QED
      BY <3>1
  <2>2. CASE ~RunSchedule
    BY <2>2 DEF RunLoad, RunLocal, RunLogin
  <2> QED
    BY <2>1, <2>2
<1>6. SaysNoMore
  <2>1. CASE backend' # "emit"
    BY <1>3, <2>1, StreamKept, KeptSays
  <2>2. CASE backend' = "emit"
    <3> DEFINE kinds == {"note", "account", "lost", "loginFailed", "retryScheduled"}
    <3>1. PICK a \in Actions : a.kind \in kinds /\ EmitThen(<<a>>, "timer")
      <4>1. RetryAnnouncement \in Actions /\ RetryAnnouncement.kind = "retryScheduled"
        BY ScheduleType DEF Types, RetryAnnouncement, Act, Reports
      <4>2. \A kind \in kinds : Plain(kind) \in Actions /\ Plain(kind).kind = kind
        BY PlainType DEF ActionKinds
      <4>3. \/ EmitThen(<<RetryAnnouncement>>, "timer")
            \/ \E kind \in kinds : EmitThen(<<Plain(kind)>>, "timer")
        BY <2>2 DEF RunLoad, RunLocal, RunSchedule, RunLogin, Replies, Goto
      <4> QED
        BY <4>1, <4>2, <4>3
    <3>2. Grows({a.kind})
      BY <1>3, <3>1, Said
    <3> QED
      BY <3>1, <3>2, GrowsSays
  <2> QED
    BY <2>1, <2>2
<1> QED
  BY <1>2, <1>3, <1>4, <1>5, <1>6 DEF Calmly, RestartingNow, Restarting, Connecting, DialNow, Progress

(* The UI collects, the app-server sends or dies.                            *)
LEMMA CalmElsewhere ==
  ASSUME Types, \/ Tick \/ CollectLoss \/ CollectEvent \/ CollectDone
                \/ ServerDies \/ ServerSends \/ Exited \/ UNCHANGED vars
  PROVE  Calmly /\ status' = status
<1> USE DEF uiVars, linkVars, schedulerVars, signalVars, notUi, notReducer, notServer
<1>1. /\ UNCHANGED <<status, auth, commands, connection, why, backend, after, out, nextAttempt>>
      /\ count'.logins = count.logins
  <2>1. CASE ServerDies \/ ServerSends
    <3>1. count \in [Counters -> Nat]
      BY DEF Types, Scalars
    <3>2. count'.logins = count.logins
      BY <2>1, <3>1 DEF ServerDies, ServerSends, Counted, Extra, Counters
    <3> QED
      BY <2>1, <3>2 DEF ServerDies, ServerSends
  <2>2. CASE ~(ServerDies \/ ServerSends)
    BY <2>2 DEF Tick, CollectLoss, CollectEvent, CollectDone, Exited, vars
  <2> QED
    BY <2>1, <2>2
<1>2. Stream' = Stream
  <2>1. CASE CollectLoss \/ CollectEvent
    BY <2>1, StreamCollects
  <2>2. CASE ~(CollectLoss \/ CollectEvent)
    <3>1. UNCHANGED <<batch, lossPending, events>>
      BY <2>2 DEF Tick, CollectDone, ServerDies, ServerSends, Exited, vars
    <3> QED
      BY <1>1, <3>1, StreamKept
  <2> QED
    BY <2>1, <2>2
<1>3. SaysNoMore /\ CommandsNoMore
  BY <1>1, <1>2, KeptSays, CommandsKept
<1> QED
  BY <1>1, <1>3 DEF Calmly, RestartingNow, Restarting, Connecting, DialNow, Progress

(* The user asks for something else, or leaves.                              *)
LEMMA CalmUser ==
  ASSUME Types, UserEffect \/ Quit
  PROVE  Calmly /\ status' = status
<1> USE DEF notUi, notUser, linkVars, schedulerVars, signalVars
<1>1. /\ UNCHANGED <<status, auth, batch, lossPending, events, connection, why, backend, after, out,
                     nextAttempt>>
      /\ count'.logins = count.logins
  <2>1. count'.logins = count.logins
    <3>1. count \in [Counters -> Nat]
      BY DEF Types, Scalars
    <3> QED
      BY <3>1 DEF UserEffect, Quit, Extra, Counted, Counters
  <2> QED
    BY <2>1 DEF UserEffect, Quit
<1>2. CommandsNoMore
  <2>1. commands' = commands \/ \E c \in {"load", "local", "shutdown"} : commands' = Append(commands, c)
    BY DEF UserEffect, Quit, EffectKinds
  <2>2. ASSUME NEW c \in {"load", "local", "shutdown"}, commands' = Append(commands, c)
        PROVE  CommandsNoMore
    <3>1. commands \in Seq(Effects) /\ c \in Effects
      BY DEF Types, Queues, Effects
    <3>2. <<c>> \in Seq(Effects) /\ commands' = commands \o <<c>>
      BY <2>2, <3>1, AppendIsConcat
    <3>3. ~Waits(<<c>>, "connect") /\ ~Waits(<<c>>, "schedule") /\ ~Waits(<<c>>, "login")
      BY DEF Waits
    <3> QED
      BY <3>2, <3>3, CommandsMore
  <2> QED
    BY <2>1, <2>2, CommandsKept
<1>3. SaysNoMore
  BY <1>1, StreamKept, KeptSays
<1> QED
  BY <1>1, <1>2, <1>3 DEF Calmly, RestartingNow, Restarting, Connecting, DialNow, Progress

(* A reduction changes neither the connection nor the timer; what it sends   *)
(* dials nothing, and mostly it is nothing at all.                           *)
LEMMA ReduceCalm ==
  ASSUME Types, Reduce, CommandsNoMore, auth' # "idle" => auth # "idle"
  PROVE  Calmly
<1>1. UNCHANGED <<count, connection, why, backend, after, nextAttempt>>
  BY ReduceTakes DEF notReducer, notUi, linkVars, schedulerVars
<1>2. SaysNoMore
  BY TakesSays
<1> QED
  BY <1>1, <1>2 DEF Calmly, RestartingNow, Restarting, Connecting, DialNow, Progress

LEMMA CalmReduce ==
  ASSUME Types,
         \/ ReduceRetryScheduled \/ ReduceRetryStarted \/ ReduceLoginFailed
         \/ ReduceAccountLoaded \/ ReduceOther
         \/ ReduceConnectionLost /\ status \in {"connecting", "recovering"}
         \/ ReduceLoginAccepted /\ auth # "submitting"
         \/ ReduceRestartFailed /\ auth # "restarting"
  PROVE  Calmly /\ status' = status
<1>1. /\ Reduce /\ commands' = commands
      /\ status' = status
      /\ auth' # "idle" => auth # "idle"
  BY DEF Reduce, ReduceRetryScheduled, ReduceRetryStarted, ReduceLoginFailed, ReduceAccountLoaded,
     ReduceOther, ReduceConnectionLost, ReduceLoginAccepted, ReduceRestartFailed, NoEffects, Recovering
<1> QED
  BY <1>1, CommandsKept, ReduceCalm

(* What a reduction sends, all of it or not, is one of its effects.          *)
LEMMA SendsOnly ==
  ASSUME Types, NEW effects \in Seq(Effects), SendEffects(effects)
  PROVE  \E x \in Seq(Effects) :
             /\ commands' = commands \o x
             /\ \A c : Waits(x, c) => Waits(effects, c)
<1> DEFINE sent == Fitting(Len(effects))
           part == SubSeq(effects, 1, sent)
<1>1. Len(effects) \in Nat /\ Len(commands) \in Nat /\ Len(commands) <= CommandCapacity
  BY DEF Types, Queues, Bounds
<1>2. sent \in Nat /\ sent <= Len(effects)
  BY <1>1, Constants DEF Fitting
<1>3. commands' = commands \o part
  BY DEF SendEffects
<1> HIDE DEF sent
<1>4. \A i \in 1..sent : effects[i] \in Effects
  BY <1>1, <1>2
<1>5. /\ part \in Seq(Effects)
      /\ Len(part) = IF 1 <= sent THEN sent - 1 + 1 ELSE 0
      /\ \A i \in 1..(sent - 1 + 1) : part[i] = effects[1 + i - 1]
  BY <1>2, <1>4, SubSeqProperties
<1>6. DOMAIN part = 1..sent /\ \A i \in 1..sent : part[i] = effects[i] /\ i \in DOMAIN effects
  BY <1>1, <1>2, <1>5
<1> HIDE DEF part
<1>7. \A c : Waits(part, c) => Waits(effects, c)
  BY <1>6 DEF Waits
<1> QED
  BY <1>3, <1>5, <1>7
-----------------------------------------------------------------------------
(* The other steps.  A progression goes on: the timer is due.                *)
LEMMA AloneTimer ==
  ASSUME Types, Standing, FreshInv, Alone, TimerDue PROVE Alone'
<1> USE DEF notBackend, notCommand, uiVars, linkVars, schedulerVars, signalVars
<1>1. /\ UNCHANGED <<status, auth, batch, lossPending, events, commands, count, connection, nextAttempt>>
      /\ backend = "timer" /\ backend' = "emit" /\ after' = "connect" /\ why' = "timer"
      /\ pending # 0
      /\ EmitThen(<<Act("retryStarted", pending, 0)>>, "connect")
  BY DEF TimerDue, EmitThen
<1>2. SaysNoMore
  <2>1. /\ Act("retryStarted", pending, 0) \in Actions
        /\ Act("retryStarted", pending, 0).kind = "retryStarted"
    BY Constants DEF Act, Actions, ActionKinds, Types, Scalars
  <2>2. Grows({"retryStarted"})
    BY <1>1, <2>1, Said
  <2> QED
    BY <2>2, GrowsSays
<1>3. CommandsNoMore
  BY <1>1, CommandsKept
<1>4. ~RestartingNow' /\ ~DialNow' /\ (Dialing' => Dialing) /\ (SignedOff => SignedOff')
  BY <1>1, <1>2, <1>3 DEF RestartingNow, Restarting, DialNow, Dialing, SaysNoMore, CommandsNoMore, SignedOff
<1>5. NoSignIn'
  BY <1>1, <1>2, <1>3, <1>4 DEF Alone, NoSignIn, SaysNoMore, CommandsNoMore
<1>6. ASSUME OneSignIn' PROVE Apart' /\ Told'
  <2>1. Apart /\ Told /\ Progress
    BY <1>1, <1>6 DEF Alone, OneSignIn, FreshInv, Progress
  <2>2. ~Dialing /\ ~Says("failed") /\ SignedOff /\ status # "failed"
    BY <2>1 DEF Apart, ProgressesAlone, Told
  <2>3. ~Dialing' /\ ~Says("failed")' /\ SignedOff' /\ status' # "failed"
    BY <1>1, <1>2, <1>4, <2>2 DEF SaysNoMore
  <2>4. SchedulesBefore'
    BY <1>1, <1>3, <1>4, <2>1 DEF Apart, SchedulesBefore, CommandsNoMore
  <2> QED
    BY <2>3, <2>4 DEF Apart, Told, DialsAlone, FailsAlone, ProgressesAlone, RestartFailsAlone, SignedOff
<1> QED
  BY <1>5, <1>6 DEF Alone

(* The backend dials for the user: it was asked once, and no progression is  *)
(* under way.                                                                *)
LEMMA AloneConnect ==
  ASSUME Types, Alone, RunConnect PROVE Alone'
<1> USE DEF notBackend, notCommand, uiVars, linkVars, signalVars
<1>1. /\ UNCHANGED <<status, auth, batch, lossPending, events, count, connection>>
      /\ backend = "command" /\ backend' = "connect" /\ why' = "command" /\ nextAttempt' = 1
      /\ Take("connect")
  BY DEF RunConnect, Take, Goto, ResetScheduler
<1>2. SaysNoMore
  BY <1>1, StreamKept, KeptSays
<1>3. /\ CommandsNoMore /\ Waits(commands, "connect")
      /\ AtMostOnce(commands, "connect") => ~Waits(commands, "connect")'
  BY <1>1, CommandsTaken
<1>4. ~RestartingNow' /\ Dialing
  BY <1>1, <1>3 DEF RestartingNow, Restarting, Dialing
<1>5. NoSignIn'
  BY <1>1, <1>2, <1>3, <1>4 DEF Alone, NoSignIn, SaysNoMore, CommandsNoMore
<1>6. ASSUME OneSignIn' PROVE Apart' /\ Told'
  <2>1. Apart /\ Told
    BY <1>1, <1>6 DEF Alone, OneSignIn
  <2>2. /\ connection = "none" /\ SignedOff /\ ~Says("connected") /\ ~Says("failed")
        /\ AtMostOnce(commands, "connect") /\ ~Progress /\ status = "connecting"
    BY <1>4, <2>1 DEF Apart, DialsAlone, ProgressesAlone, Told
  <2>3. /\ connection' = "none" /\ SignedOff' /\ ~Says("connected")' /\ ~Says("failed")'
        /\ AtMostOnce(commands, "connect")' /\ ~Progress' /\ status' = "connecting"
        /\ ~Waits(commands, "connect")' /\ ~Waits(commands, "schedule")'
    BY <1>1, <1>2, <1>3, <2>2 DEF SaysNoMore, CommandsNoMore, SignedOff, Progress
  <2> QED
    BY <1>4, <2>3 DEF Apart, Told, DialsAlone, FailsAlone, ProgressesAlone, SchedulesBefore,
       RestartFailsAlone, SignedOff
<1> QED
  BY <1>5, <1>6 DEF Alone

(* A sign-in is accepted over a connection: nothing else is under way.       *)
LEMMA AloneLogin ==
  ASSUME Types, FreshInv, Alone, RunLogin, EmitThen(<<Plain("loginAccepted")>>, "restart"),
         connection = "up"
  PROVE  Alone'
<1> USE DEF notBackend, notCommand, uiVars, linkVars, schedulerVars, signalVars
<1>1. /\ UNCHANGED <<status, auth, batch, lossPending, events, count, connection, why, nextAttempt>>
      /\ backend = "command" /\ backend' = "emit" /\ after' = "restart" /\ nextAttempt = 1
      /\ Take("login")
  BY DEF RunLogin, Take, EmitThen, FreshInv
<1>2. \A k : Says(k)' <=> Says(k) \/ k = "loginAccepted"
  BY <1>1, NewsSays DEF ActionKinds
<1>3. /\ CommandsNoMore /\ Waits(commands, "login")
      /\ Leads(commands, "login", "schedule") => ~Waits(commands, "schedule")'
  BY <1>1, CommandsTaken
<1>4. Dialing' => Dialing
  BY <1>1, <1>3 DEF Dialing, CommandsNoMore
<1>5. NoSignIn'
  BY <1>1, <1>3 DEF Alone, NoSignIn
<1>6. ASSUME OneSignIn' PROVE Apart' /\ Told'
  <2>1. Apart /\ Told
    BY <1>1, <1>6 DEF Alone, OneSignIn
  <2>2. ~Dialing /\ ~Says("failed") /\ status # "failed" /\ (auth # "idle" => ~Says("restartFailed"))
    BY <2>1 DEF Apart, DialsAlone, FailsAlone, RestartFailsAlone, Told, Still
  <2>3. auth # "idle" => ~Waits(commands, "schedule")'
    BY <1>3, <2>1 DEF Apart, SchedulesBefore, CommandsNoMore
  <2>4. ~Dialing' /\ ~Says("failed")' /\ status' # "failed" /\ (auth' # "idle" => ~Says("restartFailed")')
    BY <1>1, <1>2, <1>4, <2>2
  <2>5. Progress' => auth' = "idle"
    BY <1>1, <2>3 DEF Progress
  <2> QED
    BY <1>1, <2>3, <2>4, <2>5 DEF Apart, Told, DialsAlone, FailsAlone, ProgressesAlone,
       SchedulesBefore, RestartFailsAlone, SignedOff
<1> QED
  BY <1>5, <1>6 DEF Alone

(* Whoever restarts for a sign-in restarts alone.                            *)
LEMMA RestartsAlone ==
  ASSUME Apart, Told, RestartingNow, connection = "up" \/ Connecting
  PROVE  /\ ~Dialing /\ ~Says("failed") /\ status # "failed"
         /\ auth # "idle" => ~Says("restartFailed") /\ ~Waits(commands, "schedule")
  BY DEF Apart, Told, DialsAlone, FailsAlone, SchedulesBefore, RestartFailsAlone, Still

(* The restart fails, or the connection behind it.                           *)
LEMMA AloneRestartFails ==
  ASSUME Types, Alone, RestartingNow, connection = "up" \/ Connecting, backend # "emit",
         EmitThen(<<Plain("restartFailed")>>, "timer"),
         UNCHANGED <<status, auth, batch, lossPending, events, commands>>,
         count'.logins = count.logins, connection' = "none", nextAttempt' = 1
  PROVE  Alone'
<1>1. backend' = "emit" /\ after' = "timer"
  BY DEF EmitThen
<1>2. /\ \A k : Says(k)' <=> Says(k) \/ k = "restartFailed"
      /\ NoneAfter(Stream, "restartFailed", "connected") => NoneAfter(Stream', "restartFailed", "connected")
  BY NewsSays DEF ActionKinds
<1>3. /\ CommandsNoMore
      /\ \A c : Waits(commands, c)' <=> Waits(commands, c)
  BY CommandsKept DEF Waits
<1>4. ~RestartingNow' /\ ~Connecting' /\ ~Restarting' /\ (Dialing' => Dialing)
  BY <1>1, <1>3 DEF Dialing, RestartingNow, Restarting, Connecting
<1>5. NoSignIn'
  BY DEF Alone, NoSignIn
<1>6. ASSUME OneSignIn' PROVE Apart' /\ Told'
  <2>1. Apart /\ Told
    BY <1>6 DEF Alone, OneSignIn
  <2>2. /\ ~Dialing /\ ~Says("failed") /\ status # "failed"
        /\ auth # "idle" => ~Says("restartFailed") /\ ~Waits(commands, "schedule")
    BY <2>1, RestartsAlone
  <2>3. ~Dialing' /\ ~Says("failed")' /\ status' # "failed" /\ (auth' # "idle" => ~Waits(commands, "schedule")')
    BY <1>2, <1>3, <1>4, <2>2
  <2>4. Progress' => auth' = "idle"
    BY <2>3 DEF Progress
  <2>5. RestartFailsAlone'
    <3>1. Still'
      BY <1>4, <2>3 DEF Still, Dialing
    <3>2. auth # "idle" => NoneAfter(Stream', "restartFailed", "connected")
      BY <1>2, <2>2, SilenceIsOrdered
    <3> QED
      BY <3>1, <3>2 DEF RestartFailsAlone
  <2> QED
    BY <2>3, <2>4, <2>5 DEF Apart, Told, DialsAlone, FailsAlone, ProgressesAlone,
       SchedulesBefore, SignedOff
<1> QED
  BY <1>5, <1>6 DEF Alone

(* The connection is taken down for the sign-in.                             *)
LEMMA AloneRestart ==
  ASSUME Types, Standing, Alone, Restart PROVE Alone'
<1> USE DEF notBackend, uiVars, signalVars
<1>1. /\ UNCHANGED <<status, auth, batch, lossPending, events, commands>>
      /\ backend = "restart" /\ connection = "up" /\ connection' = "none"
      /\ why' = "login" /\ nextAttempt' = 1
  BY DEF Restart, DropConnection, ResetScheduler, Standing, Restarting
<1>2. RestartingNow
  BY <1>1 DEF RestartingNow, Restarting
<1>3. CASE Goto("connect") /\ UNCHANGED count
  <2>1. backend' = "connect" /\ count' = count
    BY <1>3 DEF Goto
  <2>2. SaysNoMore
    BY <1>1, <2>1, StreamKept, KeptSays
  <2>3. CommandsNoMore
    BY <1>1, CommandsKept
  <2>4. Dialing' => Dialing
    BY <1>1, <2>1, <2>3 DEF Dialing, CommandsNoMore
  <2>5. NoSignIn'
    BY <1>2, <2>1 DEF Alone, NoSignIn
  <2>6. ASSUME OneSignIn' PROVE Apart' /\ Told'
    <3>1. Apart /\ Told
      BY <2>1, <2>6 DEF Alone, OneSignIn
    <3>2. /\ ~Dialing /\ ~Says("failed") /\ status # "failed"
          /\ auth # "idle" => ~Says("restartFailed") /\ ~Waits(commands, "schedule")
      BY <1>1, <1>2, <3>1, RestartsAlone
    <3>3. /\ ~Dialing' /\ ~Says("failed")' /\ status' # "failed"
          /\ auth' # "idle" => ~Says("restartFailed")' /\ ~Waits(commands, "schedule")'
      BY <1>1, <2>2, <2>3, <2>4, <3>2 DEF SaysNoMore, CommandsNoMore
    <3>4. Progress' => auth' = "idle"
      BY <1>1, <3>3 DEF Progress
    <3> QED
      BY <3>3, <3>4 DEF Apart, Told, DialsAlone, FailsAlone, ProgressesAlone,
         SchedulesBefore, RestartFailsAlone, SignedOff
  <2> QED
    BY <2>5, <2>6 DEF Alone
<1>4. CASE Counted("failures", MaxFailures) /\ EmitThen(<<Plain("restartFailed")>>, "timer")
  <2>1. count'.logins = count.logins
    <3>1. count \in [Counters -> Nat]
      BY DEF Types, Scalars
    <3> QED
      BY <1>4, <3>1 DEF Counted, Counters
  <2> QED
    BY <1>1, <1>2, <1>4, <2>1, AloneRestartFails
<1> QED
  BY <1>3, <1>4 DEF Restart

(* Whoever connects, connects alone.                                         *)
LEMMA ConnectsAlone ==
  ASSUME Types, FreshInv, Apart, Told, backend = "connect"
  PROVE  /\ ~Waits(commands, "connect") /\ ~Says("failed") /\ status # "failed"
         /\ Waits(commands, "schedule") => SignedOff
         /\ auth # "idle" => ~Says("restartFailed")
         /\ why = "command" => /\ connection = "none" /\ SignedOff /\ ~Progress
                               /\ ~Says("connected") /\ status = "connecting"
         /\ why = "timer" => SignedOff /\ Progress
<1>1. why \in {"command", "login", "timer"} /\ Connecting
  BY DEF Types, Scalars, Connecting
<1>2. CASE why = "command"
  <2>1. DialNow /\ Dialing
    BY <1>2 DEF DialNow, Dialing
  <2>2. /\ ~Waits(commands, "connect") /\ connection = "none" /\ SignedOff /\ ~Progress
        /\ ~Says("connected") /\ ~Says("failed") /\ status = "connecting"
    BY <2>1 DEF Apart, Told, DialsAlone, ProgressesAlone
  <2> QED
    BY <1>2, <2>2 DEF SignedOff, Progress
<1>3. CASE why = "login"
  <2>1. RestartingNow
    BY <1>3 DEF RestartingNow
  <2>2. /\ ~Dialing /\ ~Says("failed") /\ status # "failed"
        /\ auth # "idle" => ~Says("restartFailed") /\ ~Waits(commands, "schedule")
    BY <1>1, <2>1, RestartsAlone
  <2> QED
    BY <1>3, <2>2 DEF Dialing, SignedOff
<1>4. CASE why = "timer"
  <2>1. Progress
    BY <1>1, <1>4 DEF FreshInv, Progress
  <2>2. ~Dialing /\ ~Says("failed") /\ SignedOff /\ status # "failed"
    BY <2>1 DEF Apart, Told, ProgressesAlone
  <2> QED
    BY <1>4, <2>1, <2>2 DEF Dialing, SignedOff
<1> QED
  BY <1>1, <1>2, <1>3, <1>4

(* It succeeds.                                                              *)
LEMMA ConnectedSays ==
  ASSUME Types, ConnectSucceeds
  PROVE  \A k : Says(k)' => Says(k) \/ k \in {"note", "connected"}
<1> DEFINE said == {<<Plain("connected")>>, <<Plain("note"), Plain("connected")>>}
<1>1. PICK x \in said : EmitThen(x, AfterConnect)
  BY DEF ConnectSucceeds
<1>2. x \in Seq(Actions) /\ \A i \in DOMAIN x : x[i].kind \in {"note", "connected"}
  <2>1. /\ Plain("connected") \in Actions /\ Plain("connected").kind = "connected"
        /\ Plain("note") \in Actions /\ Plain("note").kind = "note"
    BY PlainType DEF ActionKinds
  <2>2. CASE x = <<Plain("connected")>>
    BY <2>1, <2>2
  <2>3. CASE x = <<Plain("note"), Plain("connected")>>
    BY <2>1, <2>3
  <2> QED
    BY <2>2, <2>3
<1>3. UNCHANGED <<batch, lossPending, events>> /\ backend # "emit"
  BY DEF ConnectSucceeds, notCommand, notBackend, uiVars, signalVars
<1>4. Stream' = Stream \o x
  BY <1>1, <1>2, <1>3, StreamGrows
<1>5. Grows({"note", "connected"})
  BY <1>2, <1>4 DEF Grows
<1> QED
  BY <1>5, GrowsCarries DEF Says

LEMMA AloneSucceeds ==
  ASSUME Types, FreshInv, Alone, ConnectSucceeds PROVE Alone'
<1> USE DEF notBackend, notCommand, uiVars, signalVars
<1>1. /\ UNCHANGED <<status, auth, commands, count, why>>
      /\ backend = "connect" /\ backend' = "emit" /\ after' \in {"top", "timer"}
      /\ nextAttempt' = 1
  <2>1. nextAttempt' = 1
    BY DEF ConnectSucceeds, FreshInv, Connecting, ResetScheduler, schedulerVars
  <2> QED
    BY <2>1 DEF ConnectSucceeds, EmitThen, AfterConnect
<1>2. \A k : k \notin {"note", "connected"} => (Says(k)' => Says(k))
  BY ConnectedSays
<1>3. \A c : Waits(commands, c)' <=> Waits(commands, c)
  BY <1>1 DEF Waits
<1>4. ~RestartingNow' /\ (Dialing' => Waits(commands, "connect")) /\ (SignedOff => SignedOff')
  BY <1>1, <1>2, <1>3 DEF RestartingNow, Restarting, Dialing, SignedOff
<1>5. NoSignIn'
  BY <1>1, <1>2, <1>3, <1>4 DEF Alone, NoSignIn
<1>6. ASSUME OneSignIn' PROVE Apart' /\ Told'
  <2>1. Apart /\ Told
    BY <1>1, <1>6 DEF Alone, OneSignIn
  <2>2. /\ ~Waits(commands, "connect") /\ ~Says("failed") /\ status # "failed"
        /\ Waits(commands, "schedule") => SignedOff
        /\ auth # "idle" => ~Says("restartFailed")
    BY <1>1, <2>1, ConnectsAlone
  <2>3. /\ ~Dialing' /\ ~Says("failed")' /\ status' # "failed"
        /\ Progress' => SignedOff'
        /\ auth' # "idle" => ~Says("restartFailed")'
    BY <1>1, <1>2, <1>3, <1>4, <2>2 DEF Progress
  <2>4. SchedulesBefore'
    BY <1>1, <1>3, <1>4, <2>1 DEF Apart, SchedulesBefore, Leads
  <2> QED
    BY <2>3, <2>4 DEF Apart, Told, DialsAlone, FailsAlone, ProgressesAlone, RestartFailsAlone
<1> QED
  BY <1>5, <1>6 DEF Alone

(* It fails.                                                                 *)
LEMMA AloneFails ==
  ASSUME Types, Standing, FreshInv, Alone, ConnectFails PROVE Alone'
<1> USE DEF notBackend, uiVars, signalVars, linkVars
<1>0. /\ count \in [Counters -> Nat] /\ nextAttempt \in Nat \ {0}
      /\ why \in {"command", "login", "timer"}
  BY DEF Types, Scalars
<1>1. /\ UNCHANGED <<status, auth, batch, lossPending, events, commands, connection, why>>
      /\ backend = "connect" /\ connection = "none" /\ count'.logins = count.logins
  <2>1. count'.logins = count.logins
    BY <1>0 DEF ConnectFails, Counted, Counters
  <2> QED
    BY <2>1 DEF ConnectFails
<1>2. \A c : Waits(commands, c)' <=> Waits(commands, c)
  BY <1>1 DEF Waits
<1>3. CASE why = "command"
  <2>1. /\ EmitThen(<<Plain("failed")>>, "timer") /\ nextAttempt' = nextAttempt
        /\ backend' = "emit" /\ after' = "timer"
    BY <1>0, <1>3 DEF ConnectFails, EmitThen, schedulerVars
  <2>2. /\ \A k : Says(k)' <=> Says(k) \/ k = "failed"
        /\ NoneAfter(Stream, "failed", "failed") /\ ~Says("failed") => NoneAfter(Stream', "failed", "failed")
    BY <1>1, <2>1, NewsSays DEF ActionKinds
  <2>3. /\ ~RestartingNow' /\ ~Connecting' /\ ~Restarting'
        /\ Dialing' => Waits(commands, "connect")
        /\ SignedOff => SignedOff'
        /\ Progress' => Progress
    BY <1>1, <1>2, <2>1, <2>2 DEF RestartingNow, Restarting, Connecting, Dialing, SignedOff, Progress
  <2>4. NoSignIn'
    BY <1>1, <1>2, <2>2, <2>3 DEF Alone, NoSignIn
  <2>5. ASSUME OneSignIn' PROVE Apart' /\ Told'
    <3>1. Apart /\ Told
      BY <1>1, <2>5 DEF Alone, OneSignIn
    <3>2. /\ ~Waits(commands, "connect") /\ ~Says("failed") /\ SignedOff /\ ~Progress
          /\ ~Says("connected") /\ status = "connecting"
      BY <1>1, <1>3, <3>1, ConnectsAlone
    <3>3. /\ ~Dialing' /\ Still' /\ SignedOff' /\ ~Progress' /\ ~Says("connected")'
          /\ status' = "connecting"
      BY <1>1, <1>2, <2>2, <2>3, <3>2 DEF Still
    <3>4. NoneAfter(Stream', "failed", "failed")
      BY <2>2, <3>2, SilenceIsOrdered
    <3> QED
      BY <3>3, <3>4 DEF Apart, Told, DialsAlone, FailsAlone, ProgressesAlone, SchedulesBefore,
         RestartFailsAlone, SignedOff, Progress
  <2> QED
    BY <2>4, <2>5 DEF Alone
<1>4. CASE why = "login"
  <2>1. /\ EmitThen(<<Plain("restartFailed")>>, "timer") /\ nextAttempt' = nextAttempt
    BY <1>0, <1>4 DEF ConnectFails, schedulerVars
  <2>2. RestartingNow /\ Connecting /\ nextAttempt = 1
    BY <1>1, <1>4 DEF RestartingNow, Connecting, FreshInv
  <2> QED
    BY <1>1, <2>1, <2>2, AloneRestartFails
<1>5. CASE why = "timer"
  <2>1. /\ EmitThen(<<RetryAnnouncement>>, "top") /\ backend' = "emit" /\ after' = "top"
    BY <1>0, <1>5 DEF ConnectFails, EmitThen
  <2>2. RetryAnnouncement \in Actions /\ RetryAnnouncement.kind = "retryScheduled"
    BY ScheduleType DEF Types, RetryAnnouncement, Act, Reports
  <2>3. SaysNoMore
    <3>1. Grows({"retryScheduled"})
      BY <1>1, <2>1, <2>2, Said
    <3> QED
      BY <3>1, GrowsSays
  <2>4. /\ ~RestartingNow'
        /\ Dialing' => Waits(commands, "connect")
        /\ SignedOff => SignedOff'
    BY <1>1, <1>2, <2>1, <2>3 DEF RestartingNow, Restarting, Dialing, SignedOff, SaysNoMore
  <2>5. NoSignIn'
    BY <1>1, <1>2, <2>3, <2>4 DEF Alone, NoSignIn, SaysNoMore
  <2>6. ASSUME OneSignIn' PROVE Apart' /\ Told'
    <3>1. Apart /\ Told
      BY <1>1, <2>6 DEF Alone, OneSignIn
    <3>2. ~Waits(commands, "connect") /\ ~Says("failed") /\ SignedOff /\ status # "failed"
      BY <1>1, <1>5, <3>1, ConnectsAlone
    <3>3. ~Dialing' /\ ~Says("failed")' /\ SignedOff' /\ status' # "failed"
      BY <1>1, <2>3, <2>4, <3>2 DEF SaysNoMore
    <3>4. SchedulesBefore'
      BY <1>1, <1>2, <2>4, <3>1 DEF Apart, SchedulesBefore, Leads
    <3> QED
      BY <3>3, <3>4 DEF Apart, Told, DialsAlone, FailsAlone, ProgressesAlone,
         RestartFailsAlone, SignedOff
  <2> QED
    BY <2>5, <2>6 DEF Alone
<1> QED
  BY <1>0, <1>3, <1>4, <1>5
-----------------------------------------------------------------------------
(* What the reducer shows next.                                              *)
LEMMA AloneReduces ==
  ASSUME Types, Alone, Reduce, CommandsNoMore, auth' # "idle" => auth # "idle",
         OneSignIn' /\ Apart /\ Told => Told'
  PROVE  Alone'
<1>1. Calmly
  BY ReduceCalm
<1>2. NoSignIn' /\ (OneSignIn' => OneSignIn)
  BY <1>1, CalmSays DEF Alone
<1> QED
  BY <1>1, <1>2, CalmApart DEF Alone

LEMMA AloneReduceConnected ==
  ASSUME Types, Alone, ReduceConnected PROVE Alone'
<1> DEFINE loads == [i \in 1..ConnectEffects |-> "load"]
<1>1. /\ Reduce /\ status' = "online" /\ SendEffects(loads) /\ Head(batch).kind = "connected"
      /\ auth' # "idle" => auth # "idle"
      /\ UNCHANGED <<backend, why>>
  BY DEF Reduce, ReduceConnected, Settled, Dispatch, notReducer, notUi
<1>2. loads \in Seq(Effects) /\ \A c : Waits(loads, c) => c = "load"
  BY Loads DEF Waits
<1> HIDE DEF loads
<1>3. CommandsNoMore
  <2>1. PICK x \in Seq(Effects) :
            commands' = commands \o x /\ \A c : Waits(x, c) => Waits(loads, c)
    BY <1>1, <1>2, SendsOnly
  <2> QED
    BY <1>2, <2>1, CommandsMore
<1>4. SaysNoMore /\ Says("connected")
  BY <1>1, TakesSays
<1>5. ASSUME Apart PROVE Told'
  <2>1. ~Dialing /\ ~Says("failed")
    BY <1>4, <1>5 DEF Apart, DialsAlone, FailsAlone
  <2>2. ~Dialing' /\ ~Says("failed")'
    BY <1>1, <1>3, <1>4, <2>1 DEF Dialing, SaysNoMore, CommandsNoMore
  <2> QED
    BY <1>1, <2>2 DEF Told
<1> QED
  BY <1>1, <1>3, <1>5, AloneReduces

(* A failure that is shown was the last news of a connection, and so was a   *)
(* restart's.                                                                *)
LEMMA AloneReduceFailed ==
  ASSUME Types, Alone,
         ReduceConnectionFailed \/ (ReduceRestartFailed /\ auth = "restarting")
  PROVE  Alone'
<1>1. /\ Reduce /\ status' = "failed" /\ commands' = commands
      /\ auth' # "idle" => auth # "idle"
      /\ UNCHANGED <<connection, backend, after, nextAttempt>>
      /\ \/ Head(batch).kind = "failed" /\ auth' = auth
         \/ Head(batch).kind = "restartFailed" /\ auth = "restarting" /\ auth' = "idle"
  BY DEF Reduce, ReduceConnectionFailed, ReduceRestartFailed, Settled, Dispatch, NoEffects,
     notReducer, notUi, linkVars, schedulerVars
<1>2. \A c : Waits(commands, c)' <=> Waits(commands, c)
  BY <1>1 DEF Waits
<1>3. /\ SaysNoMore /\ Says(Head(batch).kind)
      /\ Head(batch).kind = "failed" /\ NoneAfter(Stream, "failed", "failed") => ~Says("failed")'
      /\ Head(batch).kind = "restartFailed" /\ NoneAfter(Stream, "restartFailed", "connected") =>
             ~Says("connected")'
  BY <1>1, TakesSays
<1>4. (Still => Still') /\ (Progress' => Progress) /\ (SignedOff \/ auth' = "idle" => SignedOff')
  BY <1>1, <1>2, <1>3 DEF Still, Connecting, Restarting, Progress, SignedOff, SaysNoMore
<1>5. ASSUME Apart PROVE Told'
  <2>1. CASE Head(batch).kind = "failed"
    <3>1. /\ Says("failed") /\ Still /\ SignedOff /\ ~Says("connected") /\ ~Progress
          /\ NoneAfter(Stream, "failed", "failed")
      BY <1>3, <1>5, <2>1 DEF Apart, FailsAlone, ProgressesAlone
    <3>2. Still' /\ SignedOff' /\ ~Says("connected")' /\ ~Progress' /\ ~Says("failed")'
      BY <1>3, <1>4, <2>1, <3>1 DEF SaysNoMore
    <3> QED
      BY <3>2 DEF Told, Still, Dialing, Connecting
  <2>2. CASE Head(batch).kind = "restartFailed"
    <3>1. auth = "restarting" /\ auth' = "idle" /\ Says("restartFailed") /\ ~SignedOff
      BY <1>1, <1>3, <2>2 DEF SignedOff
    <3>2. /\ Still /\ ~Says("failed") /\ ~Progress
          /\ NoneAfter(Stream, "restartFailed", "connected")
      BY <1>5, <3>1 DEF Apart, FailsAlone, ProgressesAlone, RestartFailsAlone
    <3>3. Still' /\ SignedOff' /\ ~Says("connected")' /\ ~Progress' /\ ~Says("failed")'
      BY <1>3, <1>4, <2>2, <3>1, <3>2 DEF SaysNoMore
    <3> QED
      BY <3>3 DEF Told, Still, Dialing, Connecting
  <2> QED
    BY <1>1, <2>1, <2>2
<1>6. CommandsNoMore
  BY <1>1, CommandsKept
<1> QED
  BY <1>1, <1>5, <1>6, AloneReduces

LEMMA AloneReduceAccepted ==
  ASSUME Types, Alone, ReduceLoginAccepted, auth = "submitting" PROVE Alone'
<1>1. /\ Reduce /\ status' = "connecting" /\ commands' = commands /\ Head(batch).kind = "loginAccepted"
  BY DEF Reduce, ReduceLoginAccepted, Settled, Dispatch, NoEffects
<1>2. CommandsNoMore
  BY <1>1, CommandsKept
<1>3. Told'
  BY <1>1 DEF Told
<1> QED
  BY <1>1, <1>2, <1>3, AloneReduces

(* A loss that is shown ends the sign-in, and asks for a schedule.           *)
LEMMA AloneReduceLost ==
  ASSUME Types, Alone, ReduceConnectionLost, status \notin {"connecting", "recovering"}
  PROVE  Alone'
<1>1. /\ Reduce /\ status' = "recovering" /\ auth' = "idle" /\ SendEffects(<<"schedule">>)
      /\ UNCHANGED <<connection, backend, after, why, count>>
  BY DEF Reduce, ReduceConnectionLost, Recovering, notReducer, notUi, linkVars
<1>2. <<"schedule">> \in Seq(Effects) /\ \A c : Waits(<<"schedule">>, c) => c = "schedule"
  BY DEF Effects, Waits
<1>3. PICK x \in Seq(Effects) :
          commands' = commands \o x /\ \A c : Waits(x, c) => Waits(<<"schedule">>, c)
  BY <1>1, <1>2, SendsOnly
<1>4. \A c : c # "schedule" => (Waits(commands', c) => Waits(commands, c))
  <2>1. commands \in Seq(Effects)
    BY DEF Types, Queues
  <2>2. \A c : Waits(commands \o x, c) <=> Waits(commands, c) \/ Waits(x, c)
    BY <2>1, MoreWaits
  <2> DEFINE t == commands \o x
  <2>3. commands' = t /\ \A c : Waits(t, c) <=> Waits(commands, c) \/ Waits(x, c)
    BY <1>3, <2>2
  <2> HIDE DEF t
  <2> QED
    BY <1>2, <1>3, <2>3
<1>5. SaysNoMore
  BY <1>1, TakesSays
<1>6. NoSignIn' /\ SignedOff'
  BY <1>1, <1>4, <1>5 DEF Alone, NoSignIn, SignedOff, RestartingNow, Restarting, SaysNoMore
<1>7. ASSUME OneSignIn' PROVE Apart' /\ Told'
  <2>1. Apart /\ Told
    BY <1>1, <1>7 DEF Alone, OneSignIn
  <2>2. ~Dialing /\ ~Says("failed")
    BY <2>1 DEF Told
  <2>3. ~Dialing' /\ ~Says("failed")'
    BY <1>1, <1>4, <1>5, <2>2 DEF Dialing, SaysNoMore
  <2> QED
    BY <1>1, <1>6, <2>3 DEF Apart, Told, DialsAlone, FailsAlone, ProgressesAlone, SchedulesBefore,
       RestartFailsAlone
<1> QED
  BY <1>6, <1>7 DEF Alone

(* The user retries when nothing is under way.                               *)
LEMMA AloneRetry ==
  ASSUME Types, Alone, RetryConnection PROVE Alone'
<1> USE DEF notUser, notUi, linkVars, schedulerVars
<1>1. /\ status = "failed" /\ status' = "connecting"
      /\ UNCHANGED <<auth, batch, lossPending, events, connection, why, backend, after, out,
                     nextAttempt, count>>
      /\ commands' = Append(commands, "connect")
  BY DEF RetryConnection, Settled
<1>2. "connect" \in Effects
  BY DEF Effects
<1>3. /\ \A d : Waits(commands', d) <=> Waits(commands, d) \/ d = "connect"
      /\ ~Waits(commands, "connect") => AtMostOnce(commands', "connect")
  BY <1>1, <1>2, Asked
<1>4. SaysNoMore
  BY <1>1, StreamKept, KeptSays
<1>5. NoSignIn'
  BY <1>1, <1>3, <1>4 DEF Alone, NoSignIn, RestartingNow, Restarting, SaysNoMore
<1>6. ASSUME OneSignIn' PROVE Apart' /\ Told'
  <2>1. /\ Still /\ SignedOff /\ ~Progress /\ ~Says("connected") /\ ~Says("failed")
    BY <1>1, <1>6 DEF Alone, OneSignIn, Told
  <2>2. /\ connection' = "none" /\ ~RestartingNow' /\ ~DialNow' /\ SignedOff' /\ ~Progress'
        /\ ~Says("connected")' /\ ~Says("failed")' /\ AtMostOnce(commands', "connect")
        /\ ~Waits(commands', "schedule")
    BY <1>1, <1>3, <1>4, <2>1 DEF Still, RestartingNow, Restarting, Connecting, DialNow, SignedOff,
       Progress, SaysNoMore
  <2> QED
    BY <1>1, <2>2 DEF Apart, Told, DialsAlone, FailsAlone, ProgressesAlone, SchedulesBefore,
       RestartFailsAlone, SignedOff
<1> QED
  BY <1>5, <1>6 DEF Alone

(* The first sign-in has no news of another to wait for.                     *)
LEMMA AloneSubmit ==
  ASSUME Types, Alone, SubmitLogin PROVE Alone'
<1> USE DEF notUser, notUi, linkVars, schedulerVars
<1>1. /\ UNCHANGED <<status, batch, lossPending, events, connection, why, backend, after, out,
                     nextAttempt>>
      /\ commands' = Append(commands, "login")
  BY DEF SubmitLogin
<1>2. count'.logins = count.logins + 1 /\ count.logins \in Nat
  <2>1. count \in [Counters -> Nat]
    BY DEF Types, Scalars
  <2> QED
    BY <2>1 DEF SubmitLogin, Extra, Counted, Counters
<1>3. commands \in Seq(Effects) /\ "login" \in Effects
  BY DEF Types, Queues, Effects
<1>4. /\ \A d : Waits(commands', d) <=> Waits(commands, d) \/ d = "login"
      /\ \A d : d # "login" /\ AtMostOnce(commands, d) => AtMostOnce(commands', d)
  BY <1>1, <1>3, Asked
<1>5. Stream' = Stream
  BY <1>1, StreamKept
<1>6. NoSignIn'
  BY <1>2 DEF NoSignIn
<1>7. ASSUME OneSignIn' PROVE Apart' /\ Told'
  <2>1. count.logins = 0 /\ OneSignIn
    BY <1>2, <1>7 DEF OneSignIn
  <2>2. /\ Apart /\ Told
        /\ ~Waits(commands, "login") /\ ~RestartingNow
        /\ ~Says("loginAccepted") /\ ~Says("restartFailed")
    BY <2>1 DEF Alone, NoSignIn
  <2>3. \A k : Says(k)' <=> Says(k)
    BY <1>5 DEF Says, Comes
  <2>4. Leads(commands', "login", "schedule")
    <3>1. Leads(commands, "login", "schedule")
      BY <2>2 DEF Leads, Waits
    <3>2. <<"login">> \in Seq(Effects) /\ commands' = commands \o <<"login">> /\ ~Waits(<<"login">>, "schedule")
      BY <1>1, <1>3, AppendIsConcat DEF Waits
    <3>3. Leads(commands \o <<"login">>, "login", "schedule")
      BY <1>3, <3>1, <3>2, MoreLeads
    <3> QED
      BY <3>2, <3>3
  <2>5. /\ SignedOff' /\ ~RestartingNow'
        /\ Still' <=> Still
        /\ Progress' <=> Progress
        /\ Dialing' <=> Dialing
        /\ DialNow' <=> DialNow
    BY <1>1, <1>4, <2>2, <2>3 DEF SignedOff, RestartingNow, Restarting, Still, Connecting, Progress,
       Dialing, DialNow
  <2>6. DialsAlone'
    BY <1>1, <1>4, <2>2, <2>3, <2>5 DEF Apart, DialsAlone
  <2>7. FailsAlone' /\ ProgressesAlone' /\ SchedulesBefore' /\ RestartFailsAlone'
    BY <1>5, <2>2, <2>3, <2>4, <2>5 DEF Apart, FailsAlone, ProgressesAlone, SchedulesBefore,
       RestartFailsAlone
  <2>8. Told'
    BY <1>1, <2>2, <2>3, <2>5 DEF Told
  <2> QED
    BY <2>6, <2>7, <2>8 DEF Apart
<1> QED
  BY <1>6, <1>7 DEF Alone
-----------------------------------------------------------------------------
LEMMA AloneInit == Init => Alone
<1> SUFFICES ASSUME Init PROVE Alone
  OBVIOUS
<1>1. /\ status = "connecting" /\ auth = "idle" /\ commands = <<"connect">> /\ connection = "none"
      /\ backend = "top" /\ nextAttempt = 1 /\ count.logins = 0
  BY DEF Init
<1>2. \A kinds : ~Comes(kinds)
  <2>1. /\ batch = <<>> /\ Loss = <<>> /\ events = <<>> /\ Leaving = <<>> /\ Types
    BY TypesInit DEF Init, Loss, Leaving
  <2>2. <<>> \o <<>> = <<>>
    BY <2>1, StreamParts, ConcatEmptySeq
  <2>3. Stream = <<>>
    BY <2>1, <2>2 DEF Stream, Line
  <2> QED
    BY <2>3 DEF Comes, Carries
<1>3. /\ ~Waits(commands, "login") /\ ~Waits(commands, "schedule")
      /\ AtMostOnce(commands, "connect")
  BY <1>1 DEF Waits, AtMostOnce
<1>4. ~RestartingNow /\ ~DialNow /\ ~Progress /\ SignedOff /\ \A k : ~Says(k)
  BY <1>1, <1>2, <1>3 DEF RestartingNow, Restarting, DialNow, Progress, SignedOff, Says
<1> QED
  BY <1>1, <1>3, <1>4 DEF Alone, NoSignIn, Apart, Told, DialsAlone, FailsAlone, ProgressesAlone,
     SchedulesBefore, RestartFailsAlone

LEMMA AloneStep == Types /\ Standing /\ FreshInv /\ Alone /\ [Next]_vars => Alone'
<1> SUFFICES ASSUME Types, Standing, FreshInv, Alone, [Next]_vars PROVE Alone'
  OBVIOUS
<1>1. CASE Backend
  <2>1. CASE Emit
    BY <2>1, CalmEmit, CalmAlone
  <2>2. CASE \/ TopStep \/ PollLossy \/ PollSemantic \/ PollOverload \/ PollDisconnected
             \/ PollClosed \/ SignalClosed \/ PollEmpty \/ NoCommand \/ StopBackend \/ TimerNotDue
    BY <2>2, CalmPoll, CalmAlone
  <2>3. CASE RunLoad \/ RunLocal \/ RunSchedule
    BY <2>3, CalmCommand, CalmAlone
  <2>4. CASE RunLogin
    <3>1. CASE EmitThen(<<Plain("loginFailed")>>, "timer")
      BY <2>4, <3>1, CalmCommand, CalmAlone
    <3>2. CASE connection = "up" /\ EmitThen(<<Plain("loginAccepted")>>, "restart")
      BY <2>4, <3>2, AloneLogin
    <3> QED
      BY <2>4, <3>1, <3>2 DEF RunLogin
  <2>5. CASE RunConnect \/ Restart \/ TimerDue
    BY <2>5, AloneConnect, AloneRestart, AloneTimer
  <2>6. CASE ConnectSucceeds \/ ConnectFails
    BY <2>6, AloneSucceeds, AloneFails
  <2> QED
    BY <1>1, <2>1, <2>2, <2>3, <2>4, <2>5, <2>6 DEF Backend
<1>2. CASE \/ Tick \/ CollectLoss \/ CollectEvent \/ CollectDone
           \/ ServerDies \/ ServerSends \/ Exited \/ UNCHANGED vars
  BY <1>2, CalmElsewhere, CalmAlone
<1>3. CASE Reduce
  <2> DEFINE calm ==
          \/ ReduceRetryScheduled \/ ReduceRetryStarted \/ ReduceLoginFailed
          \/ ReduceAccountLoaded \/ ReduceOther
          \/ ReduceConnectionLost /\ status \in {"connecting", "recovering"}
          \/ ReduceLoginAccepted /\ auth # "submitting"
          \/ ReduceRestartFailed /\ auth # "restarting"
  <2>1. CASE calm
    BY <2>1, CalmReduce, CalmAlone
  <2>2. CASE ReduceConnected
    BY <2>2, AloneReduceConnected
  <2>3. CASE ReduceConnectionFailed \/ (ReduceRestartFailed /\ auth = "restarting")
    BY <2>3, AloneReduceFailed
  <2>4. CASE ReduceLoginAccepted /\ auth = "submitting"
    BY <2>4, AloneReduceAccepted
  <2>5. CASE ReduceConnectionLost /\ status \notin {"connecting", "recovering"}
    BY <2>5, AloneReduceLost
  <2> QED
    BY <1>3, <2>1, <2>2, <2>3, <2>4, <2>5 DEF Reduce
<1>4. CASE UserEffect \/ Quit
  BY <1>4, CalmUser, CalmAlone
<1>5. CASE RetryConnection \/ SubmitLogin
  BY <1>5, AloneRetry, AloneSubmit
<1> QED
  BY <1>1, <1>2, <1>3, <1>4, <1>5 DEF Next, UI, User

LEMMA AloneIsAlone ==
  ASSUME Types, FreshInv, Alone PROVE RetryIsAlone
<1> SUFFICES ASSUME status = "failed", count.logins <= 1
             PROVE  /\ connection = "none" /\ pending = 0 /\ ~Connecting /\ ~Restarting
                    /\ ~Queued("connect") /\ ~Queued("schedule")
                    /\ ~Coming({"connected", "failed"})
  BY DEF RetryIsAlone
<1>1. Still /\ ~Progress /\ ~Says("connected") /\ ~Says("failed")
  BY DEF Alone, OneSignIn, Told
<1>2. ~Waits(commands, "connect") /\ ~Waits(commands, "schedule") /\ ~(nextAttempt > 1)
  BY <1>1 DEF Still, Progress
<1>3. ~Queued("connect") /\ ~Queued("schedule")
  BY <1>2 DEF Waits, Queued
<1>4. pending = 0
  BY <1>2 DEF FreshInv
<1>5. ~Coming({"connected", "failed"})
  <2>1. ~Comes({"connected", "failed"})
    BY <1>1 DEF Says, Comes, Carries
  <2> QED
    BY <2>1, ComingIs
<1> QED
  BY <1>1, <1>3, <1>4, <1>5 DEF Still

(* What the UI shows of the connection is what the backend is doing or will  *)
(* soon report, unless a message has been dropped or the application quits;  *)
(* and where it offers a retry, nothing else connects or will.               *)
THEOREM StatusHolds == SafetySpec => []StatusIsReal
<1> DEFINE Inv == RealInv /\ FreshInv /\ Alone
<1>1. Init => Inv
  BY RealInit, FreshInit, AloneInit
<1>2. Inv /\ [Next]_vars => Inv'
  <2> SUFFICES ASSUME Inv, [Next]_vars PROVE Inv'
    OBVIOUS
  <2>1. Types /\ Standing
    BY DEF RealInv
  <2> QED
    BY <2>1, RealStep, FreshStep, AloneStep
<1>3. Inv => StatusIsReal
  <2> SUFFICES ASSUME Inv PROVE StatusIsReal
    OBVIOUS
  <2>1. Types
    BY DEF RealInv
  <2> QED
    BY <2>1, RealIsReal, AloneIsAlone DEF StatusIsReal
<1> HIDE DEF Inv
<1> QED
  BY <1>1, <1>2, <1>3, PTL DEF SafetySpec

LEMMA FreshResets ==
  ASSUME Types, Standing, FreshInv, Alone, [Next]_vars, nextAttempt' < nextAttempt
  PROVE  connection' = "up" \/ (Take("connect") /\ count.logins > 1)
<1>0. nextAttempt \in Nat \ {0}
  BY DEF Types, Scalars
<1>1. nextAttempt # 1
  <2>1. nextAttempt' \in Nat \ {0}
    BY ScalarsStep DEF Scalars
  <2> QED
    BY <1>0, <2>1
<1>2. \/ RunConnect \/ Restart \/ (ConnectSucceeds /\ connection' = "up")
      \/ UNCHANGED nextAttempt \/ Schedule
  BY DEF Next, vars, schedulerVars, Exited,
       Backend, Emit, TopStep, PollLossy, PollSemantic, PollOverload, PollDisconnected,
       PollClosed, SignalClosed, PollEmpty, NoCommand, StopBackend, RunSchedule,
       RunLoad, RunLocal, RunLogin, ConnectSucceeds, ConnectFails, TimerDue, TimerNotDue,
       UI, Tick, CollectLoss, CollectEvent, CollectDone, Reduce,
       ReduceConnected, ReduceConnectionLost, ReduceRetryScheduled, ReduceRetryStarted,
       ReduceConnectionFailed, ReduceLoginAccepted, ReduceLoginFailed,
       ReduceRestartFailed, ReduceAccountLoaded, ReduceOther,
       User, RetryConnection, UserEffect, SubmitLogin, Quit,
       ServerDies, ServerSends, notReducer, notUi, notUser, notServer
<1>3. ~Restart
  <2>1. Restart => connection = "up"
    BY DEF Restart, Standing, Restarting
  <2> QED
    BY <1>1, <2>1 DEF FreshInv
<1>4. ~UNCHANGED nextAttempt /\ ~Schedule
  BY <1>0 DEF Schedule
<1>5. ASSUME RunConnect PROVE Take("connect") /\ count.logins > 1
  <2>1. Take("connect") /\ Waits(commands, "connect")
    BY <1>5, CommandsTaken DEF RunConnect
  <2>2. Dialing /\ Progress
    BY <1>0, <1>1, <2>1 DEF Dialing, Progress
  <2>3. ~OneSignIn
    BY <2>2 DEF Alone, Apart, ProgressesAlone
  <2>4. count.logins \in Nat
    BY DEF Types, Scalars, Counters
  <2> QED
    BY <2>1, <2>3, <2>4 DEF OneSignIn
<1> QED
  BY <1>2, <1>3, <1>4, <1>5

(* The delays before the attempts are 1, 2, 4 and so on up to the maximum,   *)
(* whatever goes wrong meanwhile; the UI shows the delay of the attempt that *)
(* it names; and the progression starts over only with a connection, unless  *)
(* several sign-ins have been mistaken for each other.                       *)
THEOREM BackoffHolds == SafetySpec => BackoffFollowsFailures
<1> DEFINE Inv == Types /\ Standing /\ BackoffInv /\ FreshInv /\ Alone
           Fresh == nextAttempt' < nextAttempt =>
                        connection' = "up" \/ (Take("connect") /\ count.logins > 1)
<1>1. Init => Inv
  BY TypesInit, StandingInit, BackoffInit, FreshInit, AloneInit
<1>2. Inv /\ [Next]_vars => Inv'
  BY TypesStep, StandingStep, BackoffStep, FreshStep, AloneStep
<1>3. Inv => BackoffSchedule
  BY DEF BackoffInv
<1>4. Inv /\ [Next]_vars => [Fresh]_vars
  BY FreshResets
<1> HIDE DEF Inv
<1> QED
  BY <1>1, <1>2, <1>3, <1>4, PTL DEF SafetySpec, BackoffFollowsFailures, ResetOnlyWhenConnected
=============================================================================
