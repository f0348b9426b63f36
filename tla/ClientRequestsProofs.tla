-------------------------- MODULE ClientRequestsProofs --------------------------
(***************************************************************************)
(* Proofs about ClientRequests, for every capacity and every bound, over   *)
(* any number of reconnections.                                            *)
(*                                                                         *)
(* Three arguments.  That each request has one answer is about the table   *)
(* pending_approvals alone: an id is in it from the moment its request is  *)
(* read until its answer is sent, and an app-server never uses an id       *)
(* twice; which card the user sees, and what the queues lose, does not     *)
(* matter to it.  The types carry the kinds along: a card is in the queue  *)
(* of its kind.  That a request that waits keeps its card is about places: *)
(* it is in one of the card queue, the event queue and the command queue,  *)
(* and the cards on their way find room because the table, which has the   *)
(* limit of each queue, had room when they were sent.                      *)
(***************************************************************************)
EXTENDS ClientRequests, FiniteSetTheorems, WellFoundedInduction, TLAPS

IsSeq(s) == s \in Seq(Elements(s))

(* Every entry is the request that has been read under its id; an answer is  *)
(* to a request that has been read and is no longer in the table.            *)
TableInv ==
    /\ IsSeq(asked) /\ read \in 0..Len(asked)
    /\ \A i \in 1..Len(asked) : asked[i].id = i
    /\ cancelling \subseteq DOMAIN pending
    /\ \A id \in DOMAIN pending : id \in 1..read /\ pending[id] = asked[id]

AnswersInv ==
    /\ IsSeq(answers)
    /\ \A k \in 1..Len(answers) :
         /\ answers[k].to.id \in (1..read) \ DOMAIN pending
         /\ answers[k].to = asked[answers[k].to.id]
    /\ AnsweredOnce

IInv == TableInv /\ AnswersInv /\ NoneLost

-----------------------------------------------------------------------------
(* Appending to a sequence adds one element at its end. *)
LEMMA Appending ==
    ASSUME NEW s, IsSeq(s), NEW x
    PROVE  LET t == Append(s, x)
           IN  /\ IsSeq(t) /\ Len(t) = Len(s) + 1 /\ t[Len(t)] = x
               /\ \A i \in 1..Len(s) : t[i] = s[i]
<1> DEFINE t == Append(s, x)
<1>1. s \in Seq(Elements(s) \cup {x})
  BY DEF IsSeq
<1>2. /\ t \in Seq(Elements(s) \cup {x}) /\ Len(t) = Len(s) + 1 /\ t[Len(t)] = x
      /\ \A i \in 1..Len(s) : t[i] = s[i]
  BY <1>1
<1>3. \A i \in 1..Len(t) : t[i] \in Elements(t)
  BY <1>2 DEF Elements
<1>4. t \in Seq(Elements(t))
  BY <1>2, <1>3
<1> QED
  BY <1>2, <1>4 DEF IsSeq

(* The empty sequence is one, of any elements. *)
LEMMA EmptySequence == IsSeq(<<>>) /\ Len(<<>>) = 0 /\ DOMAIN <<>> = {}
<1>1. <<>> \in Seq(Elements(<<>>)) /\ Len(<<>>) = 0
  OBVIOUS
<1> QED
  BY <1>1 DEF IsSeq

(* At the start nothing has been asked. *)
LEMMA InitHolds == Init => IInv
<1> SUFFICES ASSUME Init PROVE IInv
  OBVIOUS
<1>1. DOMAIN pending = {}
  BY DEF Init, Empty
<1>2. TableInv
  BY <1>1, EmptySequence DEF Init, TableInv
<1>3. AnswersInv
  BY <1>1, EmptySequence DEF Init, AnswersInv, AnsweredOnce
<1>4. NoneLost
  BY DEF Init, NoneLost
<1> QED
  BY <1>2, <1>3, <1>4 DEF IInv

(* An answer to a request that leaves the table, or has never been in it.    *)
LEMMA AnswerSent ==
    ASSUME IInv, NEW r, NEW basis, Sent(r, basis),
           asked' = asked, read' \in {read, read + 1}, read' <= Len(asked),
           DOMAIN pending' \subseteq DOMAIN pending,
           r.id \in 1..read', r = asked[r.id], r.id \notin DOMAIN pending',
           r.id \in DOMAIN pending \/ r.id = read + 1
    PROVE  AnswersInv'
<1> USE DEF IInv, AnswersInv
<1>0. read \in Nat /\ Len(asked) \in Nat
  <2>1. Len(asked) \in Nat
    BY DEF TableInv, IsSeq
  <2> QED
    BY <2>1 DEF TableInv
<1>1. /\ IsSeq(answers)' /\ Len(answers') = Len(answers) + 1
      /\ answers'[Len(answers')] = Answer(r, basis)
      /\ \A i \in 1..Len(answers) : answers'[i] = answers[i]
  BY Appending DEF Sent
<1>2. Len(answers) \in Nat /\ DOMAIN answers = 1..Len(answers)
      /\ DOMAIN answers' = 1..(Len(answers) + 1)
  BY <1>1 DEF IsSeq
<1>3. Answer(r, basis).to = r
  BY DEF Answer
<1>4. \A k \in 1..Len(answers) : answers[k].to.id # r.id
  BY <1>0
<1>5. \A k \in 1..Len(answers') :
         /\ answers'[k].to.id \in (1..read') \ DOMAIN pending'
         /\ answers'[k].to = asked'[answers'[k].to.id]
  <2> SUFFICES ASSUME NEW k \in 1..(Len(answers) + 1)
               PROVE  /\ answers'[k].to.id \in (1..read') \ DOMAIN pending'
                      /\ answers'[k].to = asked'[answers'[k].to.id]
    BY <1>1
  <2>1. CASE k = Len(answers) + 1
    BY <2>1, <1>1, <1>3
  <2>2. CASE k \in 1..Len(answers)
    BY <2>2, <1>0, <1>1
  <2> QED
    BY <2>1, <2>2, <1>2
<1>6. AnsweredOnce'
  <2> SUFFICES ASSUME NEW i \in DOMAIN answers', NEW j \in DOMAIN answers',
                      answers'[i].to = answers'[j].to
               PROVE  i = j
    BY DEF AnsweredOnce
  <2>1. CASE i \in 1..Len(answers) /\ j \in 1..Len(answers)
    BY <2>1, <1>1, <1>2 DEF AnsweredOnce
  <2>2. CASE i = Len(answers) + 1 /\ j \in 1..Len(answers)
    BY <2>2, <1>1, <1>3, <1>4
  <2>3. CASE i \in 1..Len(answers) /\ j = Len(answers) + 1
    BY <2>3, <1>1, <1>3, <1>4
  <2> QED
    BY <2>1, <2>2, <2>3, <1>2
<1> QED
  BY <1>1, <1>5, <1>6

(* A step that touches neither what has been asked nor what is answered.     *)
LEMMA NothingHappens ==
    ASSUME IInv, UNCHANGED <<asked, read, answers, pending>>,
           cancelling' \subseteq DOMAIN pending, forgotten \subseteq forgotten'
    PROVE  IInv'
BY DEF IInv, TableInv, AnswersInv, AnsweredOnce, NoneLost, IsPending, IsAnswered, IsSeq, Elements

(* An app-server that is gone takes its requests and the table with it.      *)
LEMMA ServerGone == ASSUME IInv, DropServer, cancelling = {}, UNCHANGED cancelling PROVE IInv'
<1>1. DOMAIN pending' = {}
  BY DEF DropServer, Empty
<1>2. asked' = <<>> /\ answers' = <<>> /\ read' = 0
  BY DEF DropServer, Gone
<1>3. TableInv'
  BY <1>1, <1>2, EmptySequence DEF TableInv, IsSeq, Elements
<1>4. AnswersInv'
  BY <1>1, <1>2, EmptySequence DEF AnswersInv, AnsweredOnce, IsSeq, Elements
<1>5. NoneLost'
  BY <1>2 DEF NoneLost
<1> QED
  BY <1>3, <1>4, <1>5 DEF IInv

(* The requests of before stay accounted for.                                *)
LEMMA StillAccounted ==
    ASSUME IInv, NEW i \in 1..read, i \notin DOMAIN pending \/ i \in DOMAIN pending',
           asked' = asked, forgotten \subseteq forgotten',
           \A id \in DOMAIN pending \cap DOMAIN pending' : pending'[id] = pending[id],
           answers' = answers \/ \E r, basis : Sent(r, basis)
    PROVE  IsPending(asked[i])' \/ IsAnswered(asked[i])' \/ i \in forgotten'
<1>1. asked[i].id = i
  BY DEF IInv, TableInv, IsSeq
<1>2. CASE IsPending(asked[i])
  BY <1>1, <1>2 DEF IsPending
<1>3. CASE IsAnswered(asked[i])
  <2>1. PICK k \in DOMAIN answers : answers[k].to = asked[i]
    BY <1>3 DEF IsAnswered
  <2>2. DOMAIN answers = 1..Len(answers) /\ Len(answers) \in Nat
    BY DEF IInv, AnswersInv, IsSeq
  <2>3. CASE \E r, basis : Sent(r, basis)
    <3>1. /\ IsSeq(answers)' /\ Len(answers') = Len(answers) + 1
          /\ \A j \in 1..Len(answers) : answers'[j] = answers[j]
      BY <2>3, Appending DEF Sent, IInv, AnswersInv
    <3>2. k \in DOMAIN answers' /\ answers'[k] = answers[k]
      BY <2>1, <2>2, <3>1 DEF IsSeq
    <3> QED
      BY <2>1, <3>2 DEF IsAnswered
  <2> QED
    BY <2>1, <2>3 DEF IsAnswered
<1> QED
  BY <1>2, <1>3 DEF IInv, NoneLost

(* What has just been answered is answered. *)
LEMMA NowAnswered ==
    ASSUME IInv, NEW r, NEW basis, Sent(r, basis)
    PROVE  \E k \in DOMAIN answers' : answers'[k].to = r
<1>1. /\ IsSeq(answers)' /\ Len(answers') = Len(answers) + 1
      /\ answers'[Len(answers')] = Answer(r, basis)
  BY Appending DEF Sent, IInv, AnswersInv
<1>2. Len(answers') \in DOMAIN answers'
  BY <1>1 DEF IInv, AnswersInv, IsSeq
<1> QED
  BY <1>1, <1>2 DEF Answer

(* Taking an id out of the table, and putting the request just read in. *)
LEMMA TakenOut ==
    ASSUME NEW id, DOMAIN pending' = DOMAIN Without(id), pending' = Without(id)
    PROVE  /\ DOMAIN pending' = DOMAIN pending \ {id}
           /\ \A other \in DOMAIN pending' : pending'[other] = pending[other]
BY DEF Without

LEMMA PutIn ==
    ASSUME NEW r, pending' = With(r)
    PROVE  /\ DOMAIN pending' = DOMAIN pending \cup {r.id}
           /\ pending'[r.id] = r
           /\ \A id \in DOMAIN pending : id # r.id => pending'[id] = pending[id]
BY DEF With

(* The request that is read is the one numbered read + 1. *)
LEMMA ReadNext ==
    ASSUME IInv, Receive
    PROVE  /\ read \in Nat /\ read + 1 \in 1..Len(asked) /\ read' = read + 1
           /\ Received = asked[read + 1] /\ Received.id = read + 1
           /\ cancelling = {} /\ read + 1 \notin DOMAIN pending
<1>1. Len(asked) \in Nat /\ read \in 0..Len(asked)
  BY DEF IInv, TableInv, IsSeq
<1>2. read \in Nat /\ read + 1 \in 1..Len(asked)
  BY <1>1 DEF Receive, Unread
<1>3. read + 1 \notin DOMAIN pending
  BY <1>2 DEF IInv, TableInv
<1> QED
  BY <1>2, <1>3 DEF IInv, TableInv, Receive, Received, BackendFree

(* The app-server asks: its requests of before keep their numbers. *)
LEMMA AskingKeeps == IInv /\ ServerAsks => IInv'
<1> SUFFICES ASSUME IInv, ServerAsks PROVE IInv'
  OBVIOUS
<1>1. PICK kind \in Kinds :
        asked' = Append(asked, [server |-> server, id |-> Len(asked) + 1, kind |-> kind])
  BY DEF ServerAsks
<1>2. UNCHANGED <<read, answers, pending, cancelling, forgotten>>
  BY DEF ServerAsks
<1>3. /\ IsSeq(asked)' /\ Len(asked') = Len(asked) + 1
      /\ asked'[Len(asked')].id = Len(asked) + 1
      /\ \A i \in 1..Len(asked) : asked'[i] = asked[i]
  BY <1>1, Appending DEF IInv, TableInv
<1>4. Len(asked) \in Nat /\ read \in 0..Len(asked)
  BY DEF IInv, TableInv, IsSeq
<1>5. TableInv'
  BY <1>2, <1>3, <1>4 DEF IInv, TableInv
<1>6. AnswersInv'
  <2>1. IsSeq(answers)' /\ AnsweredOnce'
    BY <1>2 DEF IInv, AnswersInv, AnsweredOnce, IsSeq, Elements
  <2>2. \A k \in 1..Len(answers) :
          /\ answers[k].to.id \in (1..read) \ DOMAIN pending
          /\ answers[k].to = asked'[answers[k].to.id]
    <3>1. \A i \in 1..read : i \in 1..Len(asked) /\ asked'[i] = asked[i]
      BY <1>3, <1>4
    <3>2. \A k \in 1..Len(answers) :
            /\ answers[k].to.id \in (1..read) \ DOMAIN pending
            /\ answers[k].to = asked[answers[k].to.id]
      BY DEF IInv, AnswersInv
    <3> QED
      BY <3>1, <3>2
  <2> QED
    BY <1>2, <2>1, <2>2 DEF AnswersInv
<1>7. NoneLost'
  BY <1>2, <1>3, <1>4 DEF IInv, NoneLost, IsPending, IsAnswered
<1> QED
  BY <1>5, <1>6, <1>7 DEF IInv

(* The client answers the request it reads, or fails to and gives it up. *)
LEMMA AnsweringKeeps == IInv /\ AnswerAtOnce => IInv'
<1> SUFFICES ASSUME IInv, AnswerAtOnce PROVE IInv'
  OBVIOUS
<1>1. Receive /\ UNCHANGED <<asked, pending, cancelling>>
  BY DEF AnswerAtOnce
<1>2. /\ read \in Nat /\ read + 1 \in 1..Len(asked) /\ read' = read + 1
      /\ Received = asked[read + 1] /\ Received.id = read + 1
      /\ read + 1 \notin DOMAIN pending
  BY <1>1, ReadNext
<1>3. Len(asked) \in Nat
  BY DEF IInv, TableInv, IsSeq
<1>4. TableInv'
  BY <1>1, <1>2, <1>3 DEF IInv, TableInv, IsSeq, Elements
<1>5. CASE Sent(Received, Client) /\ UNCHANGED forgotten
  <2>1. AnswersInv'
    BY <1>1, <1>2, <1>3, <1>5, AnswerSent
  <2>2. \E k \in DOMAIN answers' : answers'[k].to = asked[read + 1]
    BY <1>2, <1>5, NowAnswered
  <2>3. NoneLost'
    <3> SUFFICES ASSUME NEW i \in 1..read'
                 PROVE  IsPending(asked[i])' \/ IsAnswered(asked[i])' \/ i \in forgotten'
      BY DEF NoneLost
    <3>1. CASE i \in 1..read
      BY <3>1, <1>1, <1>5, StillAccounted
    <3>2. CASE i = read + 1
      BY <3>2, <2>2, <1>1, <1>2 DEF IsAnswered
    <3> QED
      BY <3>1, <3>2, <1>2
  <2> QED
    BY <1>4, <2>1, <2>3 DEF IInv
<1>6. CASE NotSent /\ forgotten' = forgotten \cup {Received.id}
  <2>1. UNCHANGED answers
    BY <1>6 DEF NotSent
  <2>2. AnswersInv'
    BY <1>1, <1>2, <2>1 DEF IInv, AnswersInv, AnsweredOnce, IsSeq, Elements
  <2>3. NoneLost'
    BY <1>1, <1>2, <1>6, <2>1 DEF IInv, NoneLost, IsPending, IsAnswered
  <2> QED
    BY <1>4, <2>2, <2>3 DEF IInv
<1> QED
  BY <1>5, <1>6 DEF AnswerAtOnce

(* A request is registered under its id, which was free. *)
LEMMA RegisteringKeeps == IInv /\ Register => IInv'
<1> SUFFICES ASSUME IInv, Register PROVE IInv'
  OBVIOUS
<1>1. Receive /\ pending' = With(Received) /\ UNCHANGED <<asked, answers, cancelling, forgotten>>
  BY DEF Register
<1>2. /\ read \in Nat /\ read + 1 \in 1..Len(asked) /\ read' = read + 1
      /\ Received = asked[read + 1] /\ Received.id = read + 1
      /\ read + 1 \notin DOMAIN pending /\ cancelling = {}
  BY <1>1, ReadNext
<1>3. /\ DOMAIN pending' = DOMAIN pending \cup {read + 1}
      /\ pending'[read + 1] = asked[read + 1]
      /\ \A id \in DOMAIN pending : pending'[id] = pending[id]
  BY <1>1, <1>2, PutIn
<1>4. Len(asked) \in Nat
  BY DEF IInv, TableInv, IsSeq
<1>5. TableInv'
  BY <1>1, <1>2, <1>3, <1>4 DEF IInv, TableInv, IsSeq, Elements
<1>6. AnswersInv'
  <2>1. IsSeq(answers)' /\ AnsweredOnce'
    BY <1>1 DEF IInv, AnswersInv, AnsweredOnce, IsSeq, Elements
  <2>2. \A k \in 1..Len(answers) :
          /\ answers[k].to.id \in (1..read') \ DOMAIN pending'
          /\ answers[k].to = asked[answers[k].to.id]
    BY <1>2, <1>3 DEF IInv, AnswersInv
  <2> QED
    BY <1>1, <2>1, <2>2 DEF AnswersInv
<1>7. NoneLost'
  <2> SUFFICES ASSUME NEW i \in 1..read'
               PROVE  IsPending(asked[i])' \/ IsAnswered(asked[i])' \/ i \in forgotten'
    BY DEF NoneLost
  <2>1. CASE i \in 1..read
    BY <2>1, <1>1, <1>3, StillAccounted
  <2>2. CASE i = read + 1
    BY <2>2, <1>1, <1>2, <1>3 DEF IsPending
  <2> QED
    BY <2>1, <2>2, <1>2
<1> QED
  BY <1>5, <1>6, <1>7 DEF IInv

(* An entry is answered, or given up, and leaves the table. *)
LEMMA SettlingKeeps ==
    ASSUME IInv, NEW id \in DOMAIN pending, pending' = Without(id),
           cancelling' \subseteq cancelling \ {id}, forgotten \subseteq forgotten',
           UNCHANGED <<asked, read>>,
           \/ \E basis : Sent(pending[id], basis)
           \/ UNCHANGED answers /\ id \in forgotten'
    PROVE  IInv'
<1>1. /\ DOMAIN pending' = DOMAIN pending \ {id}
      /\ \A other \in DOMAIN pending' : pending'[other] = pending[other]
  BY TakenOut
<1>2. /\ id \in 1..read /\ pending[id] = asked[id] /\ asked[id].id = id
      /\ read \in 0..Len(asked) /\ Len(asked) \in Nat
  <2>1. id \in 1..read /\ pending[id] = asked[id] /\ read \in 0..Len(asked) /\ Len(asked) \in Nat
    BY DEF IInv, TableInv, IsSeq
  <2> QED
    BY <2>1 DEF IInv, TableInv
<1>3. TableInv'
  BY <1>1 DEF IInv, TableInv, IsSeq, Elements
<1>4. CASE \E basis : Sent(pending[id], basis)
  <2>1. PICK basis : Sent(asked[id], basis)
    BY <1>2, <1>4
  <2>2. AnswersInv'
    BY <1>1, <1>2, <2>1, AnswerSent
  <2>3. \E k \in DOMAIN answers' : answers'[k].to = asked[id]
    BY <2>1, NowAnswered
  <2>4. NoneLost'
    <3> SUFFICES ASSUME NEW i \in 1..read
                 PROVE  IsPending(asked[i])' \/ IsAnswered(asked[i])' \/ i \in forgotten'
      BY DEF NoneLost
    <3>1. CASE i = id
      BY <3>1, <2>3 DEF IsAnswered
    <3>2. CASE i # id
      BY <3>2, <1>1, <2>1, StillAccounted
    <3> QED
      BY <3>1, <3>2
  <2> QED
    BY <1>3, <2>2, <2>4 DEF IInv
<1>5. CASE UNCHANGED answers /\ id \in forgotten'
  <2>1. AnswersInv'
    BY <1>1, <1>5 DEF IInv, AnswersInv, AnsweredOnce, IsSeq, Elements
  <2>2. NoneLost'
    <3> SUFFICES ASSUME NEW i \in 1..read
                 PROVE  IsPending(asked[i])' \/ IsAnswered(asked[i])' \/ i \in forgotten'
      BY DEF NoneLost
    <3>1. CASE i = id
      BY <3>1, <1>5
    <3>2. CASE i # id
      BY <3>2, <1>1, <1>5, StillAccounted
    <3> QED
      BY <3>1, <3>2
  <2> QED
    BY <1>3, <2>1, <2>2 DEF IInv
<1> QED
  BY <1>4, <1>5

(* A decision the app-server does not get: the entry stays, or is given up.  *)
LEMMA FailingKeeps == IInv /\ RespondFails => IInv'
<1> SUFFICES ASSUME IInv, RespondFails PROVE IInv'
  OBVIOUS
<1> DEFINE card == Head(commands).card
<1>1. /\ cancelling = {} /\ UNCHANGED <<asked, read, answers, cancelling>>
      /\ card.id \in DOMAIN pending /\ Restored(card)
  BY DEF RespondFails, Arrives, BackendFree, Answerable, NotSent, notRespond, serverVars
<1> HIDE DEF card
<1>2. CASE GivenUp(card)
  <2>1. pending' = Without(card.id) /\ card.id \in forgotten' /\ forgotten \subseteq forgotten'
    BY <1>2 DEF GivenUp
  <2> QED
    BY <1>1, <2>1, SettlingKeeps
<1>3. CASE UNCHANGED pending
  <2>1. forgotten \subseteq forgotten'
    BY <1>1, <1>3 DEF Restored, EmitAbout, GivenUp
  <2> QED
    BY <1>1, <1>3, <2>1, NothingHappens
<1> QED
  BY <1>1, <1>2, <1>3 DEF Restored

(* The Escape key answers the tools that wait, one after the other. *)
LEMMA CancellingKeeps == IInv /\ CancelTool => IInv'
<1> SUFFICES ASSUME IInv, CancelTool PROVE IInv'
  OBVIOUS
<1>1. PICK id \in cancelling :
        /\ cancelling' = cancelling \ {id} /\ pending' = Without(id)
        /\ \/ Sent(pending[id], Client) /\ EmitAbout(id, Resolve(id))
           \/ NotSent /\ forgotten' = forgotten \cup {id}
  BY DEF CancelTool
<1>2. UNCHANGED <<asked, read>>
  BY DEF CancelTool, serverVars
<1>3. id \in DOMAIN pending
  BY DEF IInv, TableInv
<1>4. CASE Sent(pending[id], Client) /\ EmitAbout(id, Resolve(id))
  <2>1. forgotten \subseteq forgotten'
    BY <1>4 DEF EmitAbout
  <2> QED
    BY <1>1, <1>2, <1>3, <1>4, <2>1, SettlingKeeps
<1>5. CASE NotSent /\ forgotten' = forgotten \cup {id}
  <2>1. UNCHANGED answers
    BY <1>5 DEF NotSent
  <2> QED
    BY <1>1, <1>2, <1>3, <1>5, <2>1, SettlingKeeps
<1> QED
  BY <1>1, <1>4, <1>5

(* Every step keeps the invariant. *)
LEMMA StepHolds == IInv /\ [Next]_vars => IInv'
<1> SUFFICES ASSUME IInv, [Next]_vars PROVE IInv'
  OBVIOUS
<1>1. CASE ServerAsks
  BY <1>1, AskingKeeps
<1>2. CASE AnswerAtOnce
  BY <1>2, AnsweringKeeps
<1>3. CASE Register
  BY <1>3, RegisteringKeeps
<1>4. CASE Overload \/ ServerEnds \/ StartBedrockLogin
  BY <1>4, ServerGone DEF Overload, ServerEnds, StartBedrockLogin, BackendFree
<1>5. CASE Respond
  <2> DEFINE decision == Head(commands)
             id == decision.card.id
  <2>1. /\ id \in DOMAIN pending /\ pending' = Without(id) /\ Sent(pending[id], decision.seen)
        /\ cancelling = {} /\ UNCHANGED <<asked, read, cancelling, forgotten>>
    BY <1>5 DEF Respond, Arrives, BackendFree, Answerable, notRespond, serverVars
  <2> HIDE DEF decision, id
  <2> QED
    BY <2>1, SettlingKeeps
<1>6. CASE RespondFails
  BY <1>6, FailingKeeps
<1>7. CASE CancelTool
  BY <1>7, CancellingKeeps
<1>8. CASE Reconnect \/ RespondOffline \/ RespondIgnored \/ Escape
  <2>1. UNCHANGED <<asked, read, answers, pending, forgotten>>
    BY <1>8 DEF Reconnect, RespondOffline, RespondIgnored, Escape, notRespond, serverVars
  <2>2. cancelling' \subseteq DOMAIN pending
    BY <1>8 DEF Reconnect, RespondOffline, RespondIgnored, Escape, ToolsWaiting, notRespond,
                IInv, TableInv
  <2> QED
    BY <2>1, <2>2, NothingHappens
<1>9. CASE UI \/ DecideOnCard \/ ArchiveTask \/ AllIsSaid \/ UNCHANGED vars
  <2>1. UNCHANGED <<asked, read, answers, pending, cancelling>>
    BY <1>9 DEF UI, ReduceLossFlag, ReduceConnectionLost, ReduceConnected, ReduceAsk,
                ReduceResolve, DecideOnCard, ArchiveTask, AllIsSaid, notUi, serverVars, vars
  <2>2. forgotten \subseteq forgotten'
    BY <1>9 DEF UI, ReduceLossFlag, ReduceConnectionLost, ReduceConnected, ReduceAsk,
                ReduceResolve, DecideOnCard, ArchiveTask, AllIsSaid, Decide, vars
  <2> QED
    BY <2>1, <2>2, NothingHappens DEF IInv, TableInv
<1> QED
  BY <1>1, <1>2, <1>3, <1>4, <1>5, <1>6, <1>7, <1>8, <1>9 DEF Next, Backend

-----------------------------------------------------------------------------
(* The app-server never gets two answers to one request, whatever the order  *)
(* of decisions, failed answers, Escape and reconnections.                   *)
THEOREM OneAnswerEach == Spec => []AnsweredOnce
<1>1. IInv => AnsweredOnce
  BY DEF IInv, AnswersInv
<1> QED
  BY InitHolds, StepHolds, <1>1, PTL DEF Spec

(* What waits in pending_approvals is an open request of the app-server that *)
(* is connected, never one of its predecessors.                              *)
THEOREM TableHoldsOpenRequests == Spec => []PendingIsOpen
<1>1. IInv => PendingIsOpen
  <2> SUFFICES ASSUME IInv, NEW id \in DOMAIN pending
               PROVE  /\ pending[id].id = id /\ pending[id] \in Elements(asked)
                      /\ ~IsAnswered(pending[id])
    BY DEF PendingIsOpen
  <2>1. /\ Len(asked) \in Nat /\ DOMAIN asked = 1..Len(asked)
        /\ DOMAIN answers = 1..Len(answers) /\ read \in 0..Len(asked)
    BY DEF IInv, TableInv, AnswersInv, IsSeq
  <2>2. id \in 1..read /\ pending[id] = asked[id] /\ id \in DOMAIN asked /\ asked[id].id = id
    BY <2>1 DEF IInv, TableInv
  <2> QED
    BY <2>1, <2>2 DEF IInv, AnswersInv, IsAnswered, Elements
<1> QED
  BY InitHolds, StepHolds, <1>1, PTL DEF Spec

(* The backend loses no request: one that has been read waits in the table,  *)
(* has been answered, or is one of those the code gives up.                  *)
THEOREM NoRequestLost == Spec => []NoneLost
<1>1. IInv => NoneLost
  BY DEF IInv
<1> QED
  BY InitHolds, StepHolds, <1>1, PTL DEF Spec

(* The table of pending requests is exact: nothing that owes an answer is    *)
(* missing from it, and nothing else is in it.                               *)
THEOREM PendingTableIsExact == Spec => []TableIsExact
<1>1. NoneLost /\ PendingIsOpen => TableIsExact
  BY DEF TableIsExact
<1> QED
  BY NoRequestLost, TableHoldsOpenRequests, <1>1, PTL

-----------------------------------------------------------------------------
(* Types, and the kinds of what is decided and answered. *)

Decisions == [card : Requests, seen : Requests]
Answers   == [to : Requests, basis : Requests \cup {Client}]
AnyEvent  == [kind : {"ask"}, request : Requests, id : Ids] \cup [kind : {"resolve"}, id : Ids]
             \cup {Lost, Connected}

(* What the backend holds, and what the channels and the UI hold. *)
BackendTypes ==
    /\ server \in 1..MaxServers /\ up \in BOOLEAN
    /\ asked \in Seq(Requests) /\ Len(asked) <= MaxAsks /\ read \in 0..Len(asked)
    /\ answers \in Seq(Answers)
    /\ DOMAIN pending \subseteq Ids /\ \A id \in DOMAIN pending : pending[id] \in Requests
    /\ Cardinality(DOMAIN pending) <= MaxPending
    /\ cancelling \subseteq DOMAIN pending

EventTypes ==
    /\ events \in Seq(AnyEvent) /\ Len(events) <= EventCapacity
    /\ \A k \in DOMAIN events : events[k].kind = "ask" => events[k].id = events[k].request.id
    /\ lossPending \in BOOLEAN /\ online \in BOOLEAN

CardTypes ==
    /\ cards \in [Queues -> Seq(Requests)] /\ \A q \in Queues : Len(cards[q]) <= MaxPending
    /\ commands \in Seq(Decisions) /\ Len(commands) <= CommandCapacity
    /\ forgotten \subseteq Ids

(* A card is in the queue of its kind, and a decision is about the card that *)
(* was shown or about one of the same queue.                                 *)
FitsInv ==
    /\ \A q \in Queues : \A i \in DOMAIN cards[q] : QueueOf(cards[q][i]) = q
    /\ \A j \in DOMAIN commands : Fits(commands[j].seen, commands[j].card)

Types == BackendTypes /\ EventTypes /\ CardTypes /\ FitsInv /\ AnswerFitsRequest

LEMMA Limits ==
    /\ MaxPending \in Nat \ {0} /\ CommandCapacity \in Nat \ {0} /\ EventCapacity \in Nat \ {0}
    /\ MaxAsks \in Nat \ {0} /\ MaxRequests \in Nat \ {0} /\ MaxServers \in Nat \ {0}
BY CapacityAssumption

-----------------------------------------------------------------------------
(* The queues as sequences: what is put at the end, taken from the front, or *)
(* taken out of the middle.                                                  *)
LEMMA PuttingLast ==
    ASSUME NEW S, NEW s \in Seq(S), NEW x \in S
    PROVE  /\ Append(s, x) \in Seq(S) /\ Len(Append(s, x)) = Len(s) + 1
           /\ DOMAIN Append(s, x) = 1..(Len(s) + 1) /\ DOMAIN s = 1..Len(s) /\ Len(s) \in Nat
           /\ Append(s, x)[Len(s) + 1] = x
           /\ \A i \in 1..Len(s) : Append(s, x)[i] = s[i]
OBVIOUS

LEMMA TakingFirst ==
    ASSUME NEW S, NEW s \in Seq(S), s # <<>>
    PROVE  /\ Tail(s) \in Seq(S) /\ Len(s) \in Nat \ {0} /\ Len(Tail(s)) = Len(s) - 1
           /\ DOMAIN Tail(s) = 1..(Len(s) - 1) /\ DOMAIN s = 1..Len(s)
           /\ Head(s) \in S /\ Head(s) = s[1]
           /\ \A i \in 1..(Len(s) - 1) : Tail(s)[i] = s[i + 1]
OBVIOUS

LEMMA SameLength == ASSUME NEW m \in Nat, NEW n \in Nat, 1..m = 1..n PROVE m = n
<1>1. m = 0 \/ m \in 1..n
  OBVIOUS
<1>2. n = 0 \/ n \in 1..m
  OBVIOUS
<1> QED
  BY <1>1, <1>2

(* A function on the first n numbers is a sequence. *)
MapsUpTo(f, n, S) == n \in Nat /\ f \in [1..n -> S]
IsSequence(f, S) == f \in Seq(S)

LEMMA FunctionIsASequence ==
    ASSUME NEW S, NEW n, NEW f, MapsUpTo(f, n, S)
    PROVE  IsSequence(f, S)
BY DEF MapsUpTo, IsSequence

LEMMA TakingOut ==
    ASSUME NEW S, NEW s \in Seq(S), NEW i \in DOMAIN s
    PROVE  /\ Remove(s, i) \in Seq(S) /\ Len(Remove(s, i)) = Len(s) - 1 /\ Len(s) \in Nat \ {0}
           /\ DOMAIN Remove(s, i) = 1..(Len(s) - 1) /\ DOMAIN s = 1..Len(s) /\ i \in 1..Len(s)
           /\ \A j \in 1..(Len(s) - 1) : Remove(s, i)[j] = IF j < i THEN s[j] ELSE s[j + 1]
<1>1. Len(s) \in Nat /\ DOMAIN s = 1..Len(s) /\ i \in 1..Len(s) /\ Len(s) - 1 \in Nat
  OBVIOUS
<1>2. \A j \in 1..(Len(s) - 1) : (IF j < i THEN s[j] ELSE s[j + 1]) \in S
  BY <1>1
<1>3. Remove(s, i) \in [1..(Len(s) - 1) -> S]
  BY <1>1, <1>2 DEF Remove
<1>4. Remove(s, i) \in Seq(S)
  <2> DEFINE f == Remove(s, i)
             n == Len(s) - 1
  <2>1. MapsUpTo(f, n, S)
    BY <1>1, <1>3 DEF MapsUpTo
  <2> HIDE DEF f, n
  <2>2. IsSequence(f, S)
    BY <2>1, FunctionIsASequence
  <2> QED
    BY <2>2 DEF f, IsSequence
<1>5. Len(Remove(s, i)) = Len(s) - 1
  <2>1. DOMAIN Remove(s, i) = 1..(Len(s) - 1)
    BY <1>3
  <2>2. Len(Remove(s, i)) \in Nat /\ DOMAIN Remove(s, i) = 1..Len(Remove(s, i))
    BY <1>4
  <2> DEFINE m == Len(Remove(s, i))
             n == Len(s) - 1
             d == DOMAIN Remove(s, i)
  <2>3. m \in Nat /\ d = 1..m
    BY <2>2
  <2>5. n \in Nat /\ d = 1..n
    BY <1>1, <2>1
  <2> HIDE DEF m, n, d
  <2>4. m = n
    BY <2>3, <2>5, SameLength
  <2> QED
    BY <2>4 DEF m, n
<1>6. DOMAIN Remove(s, i) = 1..(Len(s) - 1)
  BY <1>3
<1>7. \A j \in 1..(Len(s) - 1) : Remove(s, i)[j] = IF j < i THEN s[j] ELSE s[j + 1]
  BY <1>1 DEF Remove
<1>8. Len(s) \in Nat \ {0}
  BY <1>1
<1> QED
  BY <1>1, <1>4, <1>5, <1>6, <1>7, <1>8

LEMMA PushingKeeps ==
    ASSUME NEW S, NEW s \in Seq(S), NEW x \in S, Len(s) <= MaxPending
    PROVE  /\ Pushed(s, x) \in Seq(S) /\ Len(Pushed(s, x)) <= MaxPending
           /\ \A i \in DOMAIN Pushed(s, x) : Pushed(s, x)[i] = x
                                          \/ \E j \in DOMAIN s : Pushed(s, x)[i] = s[j]
<1>1. CASE Len(s) = MaxPending
  <2>1. s # <<>>
    BY <1>1, Limits
  <2>2. /\ Tail(s) \in Seq(S) /\ Len(Tail(s)) = Len(s) - 1 /\ Len(s) \in Nat /\ DOMAIN s = 1..Len(s)
        /\ \A i \in 1..(Len(s) - 1) : Tail(s)[i] = s[i + 1]
    BY <2>1, TakingFirst
  <2>3. Pushed(s, x) = Append(Tail(s), x)
    BY <1>1 DEF Pushed
  <2>4. /\ Append(Tail(s), x) \in Seq(S) /\ Len(Append(Tail(s), x)) = Len(s)
        /\ DOMAIN Append(Tail(s), x) = 1..Len(s) /\ Append(Tail(s), x)[Len(s)] = x
        /\ \A i \in 1..(Len(s) - 1) : Append(Tail(s), x)[i] = s[i + 1]
    BY <2>2, PuttingLast
  <2> QED
    BY <1>1, <2>2, <2>3, <2>4
<1>2. CASE Len(s) # MaxPending
  <2>1. Pushed(s, x) = Append(s, x)
    BY <1>2 DEF Pushed
  <2> QED
    BY <1>2, <2>1, PuttingLast, Limits
<1> QED
  BY <1>1, <1>2

(* The natural numbers are well ordered, so there is a first card of an id   *)
(* when there is one at all.                                                 *)
Below == {pair \in Nat \X Nat : pair[1] < pair[2]}

LEMMA LeastMember ==
    ASSUME NEW T \in SUBSET Nat, T # {}
    PROVE  \E least \in T : \A n \in T : least <= n
<1>1. IsWellFoundedOn(Below, Nat)
  BY NatLessThanWellFounded DEF OpToRel, Below
<1>2. \E least \in T : \A n \in T : <<n, least>> \notin Below
  BY <1>1, WFMin
<1>3. ASSUME NEW n \in Nat, NEW least \in Nat, <<n, least>> \notin Below PROVE least <= n
  <2>1. <<n, least>> \in Nat \X Nat /\ <<n, least>>[1] = n /\ <<n, least>>[2] = least
    OBVIOUS
  <2> QED
    BY <1>3, <2>1 DEF Below
<1> QED
  BY <1>2, <1>3

LEMMA PositionIsFirst ==
    ASSUME NEW S, NEW s \in Seq(S), NEW n \in DOMAIN s
    PROVE  Position(s, s[n].id) \in DOMAIN s /\ s[Position(s, s[n].id)].id = s[n].id
<1> DEFINE T == {i \in DOMAIN s : s[i].id = s[n].id}
<1>1. DOMAIN s = 1..Len(s) /\ Len(s) \in Nat
  OBVIOUS
<1>2. T \in SUBSET Nat /\ T # {}
  BY <1>1
<1>3. PICK least \in T : \A i \in T : least <= i
  BY <1>2, LeastMember
<1>4. \A j \in 1..(least - 1) : s[j].id # s[n].id
  BY <1>1, <1>3
<1>5. \E i \in DOMAIN s : s[i].id = s[n].id /\ \A j \in 1..(i - 1) : s[j].id # s[n].id
  BY <1>3, <1>4
<1> QED
  BY <1>5 DEF Position

(* The table stays within its limit when the one just read is registered, or *)
(* an entry is taken out.                                                    *)
LEMMA TableKeepsLimit ==
    ASSUME NEW T \in SUBSET Ids, NEW id \in Ids
    PROVE  /\ IsFiniteSet(T) /\ Cardinality(T) \in Nat
           /\ Cardinality(T \ {id}) <= Cardinality(T)
           /\ Cardinality(T \cup {id}) <= Cardinality(T) + 1
<1>1. IsFiniteSet(Ids)
  BY FS_Interval, Limits DEF Ids
<1>2. IsFiniteSet(T)
  BY <1>1, FS_Subset
<1>3. Cardinality(T) \in Nat
  BY <1>2, FS_CardinalityType
<1>4. Cardinality(T \ {id}) <= Cardinality(T)
  BY <1>2, <1>3, FS_RemoveElement
<1>5. Cardinality(T \cup {id}) <= Cardinality(T) + 1
  <2>1. Cardinality(T \cup {id}) = IF id \in T THEN Cardinality(T) ELSE Cardinality(T) + 1
    BY <1>2, FS_AddElement
  <2> QED
    BY <1>3, <2>1
<1> QED
  BY <1>2, <1>3, <1>4, <1>5

(* Every kind of request has its queue. *)
LEMMA KindsHaveQueues == \A r \in Requests : QueueOf(r) \in Queues
BY DEF Requests, Kinds, QueueOf, Queues

-----------------------------------------------------------------------------
(* What the actions do to the types, part by part.  *)

(* An action that adds at most one event, or takes the first.                *)
LEMMA EventAdded ==
    ASSUME EventTypes, UNCHANGED online, lossPending' \in BOOLEAN, NEW e \in AnyEvent,
           e.kind = "ask" => e.id = e.request.id,
           EventRoom, events' = Append(events, e)
    PROVE  EventTypes'
<1>1. /\ events' \in Seq(AnyEvent) /\ Len(events') = Len(events) + 1 /\ Len(events) \in Nat
      /\ DOMAIN events' = 1..(Len(events) + 1) /\ DOMAIN events = 1..Len(events)
      /\ events'[Len(events) + 1] = e /\ \A i \in 1..Len(events) : events'[i] = events[i]
  BY PuttingLast DEF EventTypes
<1>2. Len(events') <= EventCapacity
  BY <1>1, Limits DEF EventRoom
<1>3. \A k \in DOMAIN events' : events'[k].kind = "ask" => events'[k].id = events'[k].request.id
  <2> TAKE k \in DOMAIN events'
  <2>1. CASE k = Len(events) + 1
    BY <2>1, <1>1
  <2>2. CASE k \in 1..Len(events)
    BY <2>2, <1>1 DEF EventTypes
  <2> QED
    BY <1>1, <2>1, <2>2
<1> QED
  BY <1>1, <1>2, <1>3 DEF EventTypes

LEMMA EventTaken ==
    ASSUME EventTypes, NEW kind, NextEvent(kind), online' \in BOOLEAN
    PROVE  EventTypes' /\ Head(events) \in AnyEvent
                       /\ (kind = "ask" => Head(events).id = Head(events).request.id)
<1>1. events # <<>> /\ events' = Tail(events) /\ lossPending' = lossPending /\ Head(events).kind = kind
  BY DEF NextEvent
<1>2. /\ Tail(events) \in Seq(AnyEvent) /\ Len(Tail(events)) = Len(events) - 1 /\ Len(events) \in Nat \ {0}
      /\ DOMAIN Tail(events) = 1..(Len(events) - 1) /\ DOMAIN events = 1..Len(events)
      /\ Head(events) \in AnyEvent /\ Head(events) = events[1]
      /\ \A i \in 1..(Len(events) - 1) : Tail(events)[i] = events[i + 1]
  BY <1>1, TakingFirst DEF EventTypes
<1>3. \A k \in DOMAIN events' : events'[k].kind = "ask" => events'[k].id = events'[k].request.id
  BY <1>1, <1>2 DEF EventTypes
<1>4. Len(events') <= EventCapacity
  BY <1>1, <1>2, Limits DEF EventTypes
<1>5. kind = "ask" => Head(events).id = Head(events).request.id
  BY <1>1, <1>2 DEF EventTypes
<1> QED
  BY <1>1, <1>2, <1>3, <1>4, <1>5 DEF EventTypes

(* The events of this module are events. *)
LEMMA EventsAre ==
    /\ \A r \in Requests : Ask(r) \in AnyEvent /\ Ask(r).id = Ask(r).request.id
                           /\ Ask(r).kind = "ask" /\ Ask(r).request = r
    /\ \A id \in Ids : Resolve(id) \in AnyEvent /\ Resolve(id).kind = "resolve" /\ Resolve(id).id = id
    /\ Lost \in AnyEvent /\ Lost.kind = "lost"
    /\ Connected \in AnyEvent /\ Connected.kind = "connected"
<1>1. ASSUME NEW r \in Requests
      PROVE  Ask(r) \in AnyEvent /\ Ask(r).id = Ask(r).request.id /\ Ask(r).kind = "ask" /\ Ask(r).request = r
  BY DEF Requests, Ask, AnyEvent
<1>2. ASSUME NEW id \in Ids
      PROVE  Resolve(id) \in AnyEvent /\ Resolve(id).kind = "resolve" /\ Resolve(id).id = id
  BY DEF Resolve, AnyEvent
<1>3. Lost \in AnyEvent /\ Lost.kind = "lost" /\ Connected \in AnyEvent /\ Connected.kind = "connected"
  BY DEF Lost, Connected, AnyEvent
<1> QED
  BY <1>1, <1>2, <1>3

(* An answer that is sent, to a request and based on a card of its queue or  *)
(* on nothing.                                                               *)
LEMMA AnswerKeepsTypes ==
    ASSUME BackendTypes, AnswerFitsRequest, NEW r \in Requests, NEW basis \in Requests \cup {Client},
           basis # Client => Fits(basis, r), Sent(r, basis)
    PROVE  answers' \in Seq(Answers) /\ AnswerFitsRequest'
<1>1. Answer(r, basis) \in Answers /\ Answer(r, basis).to = r /\ Answer(r, basis).basis = basis
  BY DEF Answer, Answers
<1>2. answers' = Append(answers, Answer(r, basis))
  BY DEF Sent
<1>3. /\ answers' \in Seq(Answers) /\ Len(answers) \in Nat
      /\ DOMAIN answers' = 1..(Len(answers) + 1) /\ DOMAIN answers = 1..Len(answers)
      /\ answers'[Len(answers) + 1] = Answer(r, basis)
      /\ \A i \in 1..Len(answers) : answers'[i] = answers[i]
  BY <1>1, <1>2, PuttingLast DEF BackendTypes
<1>4. ASSUME NEW i \in DOMAIN answers', answers'[i].basis # Client
      PROVE  Fits(answers'[i].basis, answers'[i].to)
  <2>1. CASE i = Len(answers) + 1
    BY <2>1, <1>1, <1>3, <1>4
  <2>2. CASE i \in 1..Len(answers)
    BY <2>2, <1>3, <1>4 DEF AnswerFitsRequest
  <2> QED
    BY <1>3, <2>1, <2>2
<1> QED
  BY <1>3, <1>4 DEF AnswerFitsRequest

(* An entry leaves the table. *)
LEMMA EntryLeaves ==
    ASSUME BackendTypes, NEW id \in DOMAIN pending, pending' = Without(id),
           answers' \in Seq(Answers), cancelling' \subseteq cancelling \ {id},
           UNCHANGED <<server, up, asked, read>>
    PROVE  BackendTypes'
<1>1. id \in Ids /\ DOMAIN pending \in SUBSET Ids
  BY DEF BackendTypes
<1>2. /\ DOMAIN pending' = DOMAIN pending \ {id}
      /\ \A other \in DOMAIN pending' : pending'[other] = pending[other]
  BY TakenOut
<1>3. /\ Cardinality(DOMAIN pending) \in Nat
      /\ Cardinality(DOMAIN pending \ {id}) <= Cardinality(DOMAIN pending)
      /\ IsFiniteSet(DOMAIN pending)
  BY <1>1, TableKeepsLimit
<1>4. Cardinality(DOMAIN pending \ {id}) \in Nat
  BY <1>3, FS_RemoveElement, FS_CardinalityType
<1>5. Cardinality(DOMAIN pending') <= MaxPending
  BY <1>2, <1>3, <1>4, Limits DEF BackendTypes
<1> QED
  BY <1>2, <1>5 DEF BackendTypes

(* The app-server is gone. *)
LEMMA DroppingKeepsTypes ==
    ASSUME Types, DropServer, cancelling = {}, UNCHANGED <<cancelling, online, cards, commands, forgotten>>,
           \/ UNCHANGED events
           \/ EventRoom /\ events' = Append(events, Lost),
           lossPending' \in BOOLEAN
    PROVE  Types'
<1>1. DOMAIN pending' = {} /\ Cardinality({}) = 0
  BY FS_EmptySet DEF DropServer, Empty
<1>2. asked' = <<>> /\ answers' = <<>> /\ read' = 0 /\ up' = FALSE /\ UNCHANGED server
  BY DEF DropServer, Gone
<1>3. asked' \in Seq(Requests) /\ Len(asked') = 0 /\ answers' \in Seq(Answers) /\ DOMAIN answers' = {}
  BY <1>2
<1>4. BackendTypes'
  <2>1. Cardinality(DOMAIN pending') <= MaxPending
    BY <1>1, Limits
  <2>2. Len(asked') <= MaxAsks /\ read' \in 0..Len(asked')
    BY <1>2, <1>3, Limits
  <2>3. server' \in 1..MaxServers /\ up' \in BOOLEAN
    BY <1>2 DEF Types, BackendTypes
  <2> QED
    BY <1>1, <1>3, <2>1, <2>2, <2>3 DEF BackendTypes
<1>5. EventTypes'
  <2>1. CASE UNCHANGED events
    BY <2>1 DEF Types, EventTypes
  <2>2. CASE EventRoom /\ events' = Append(events, Lost)
    <3>1. Lost \in AnyEvent /\ Lost.kind # "ask"
      BY EventsAre
    <3> QED
      BY <2>2, <3>1, EventAdded DEF Types
  <2> QED
    BY <2>1, <2>2
<1>6. CardTypes' /\ FitsInv'
  BY DEF Types, CardTypes, FitsInv, Fits
<1>7. AnswerFitsRequest'
  BY <1>3 DEF AnswerFitsRequest
<1> QED
  BY <1>4, <1>5, <1>6, <1>7 DEF Types

-----------------------------------------------------------------------------
(* The queues of cards. *)

CardsFit == \A q \in Queues : \A i \in DOMAIN cards[q] : QueueOf(cards[q][i]) = q

(* One queue of cards is replaced by another that has what it should. *)
LEMMA QueueReplaced ==
    ASSUME cards \in [Queues -> Seq(Requests)], \A q \in Queues : Len(cards[q]) <= MaxPending, CardsFit,
           NEW q \in Queues, NEW s \in Seq(Requests), Len(s) <= MaxPending,
           \A i \in DOMAIN s : QueueOf(s[i]) = q,
           cards' = [cards EXCEPT ![q] = s]
    PROVE  /\ cards' \in [Queues -> Seq(Requests)] /\ \A p \in Queues : Len(cards'[p]) <= MaxPending
           /\ CardsFit'
<1>1. \A p \in Queues : cards'[p] = IF p = q THEN s ELSE cards[p]
  OBVIOUS
<1>2. cards' \in [Queues -> Seq(Requests)]
  OBVIOUS
<1>3. \A p \in Queues : Len(cards'[p]) <= MaxPending
  BY <1>1
<1>4. CardsFit'
  BY <1>1 DEF CardsFit
<1> QED
  BY <1>2, <1>3, <1>4

LEMMA CardRemoved ==
    ASSUME cards \in [Queues -> Seq(Requests)], \A q \in Queues : Len(cards[q]) <= MaxPending, CardsFit,
           NEW q \in Queues, NEW i \in DOMAIN cards[q],
           cards' = [cards EXCEPT ![q] = Remove(@, i)]
    PROVE  /\ cards' \in [Queues -> Seq(Requests)] /\ \A p \in Queues : Len(cards'[p]) <= MaxPending
           /\ CardsFit'
<1> DEFINE old == cards[q]
           s   == Remove(old, i)
<1>1. old \in Seq(Requests) /\ i \in DOMAIN old /\ Len(old) <= MaxPending
  OBVIOUS
<1>2. \A j \in DOMAIN old : QueueOf(old[j]) = q
  BY DEF CardsFit
<1>3. cards' = [cards EXCEPT ![q] = s]
  OBVIOUS
<1> HIDE DEF old
<1>4. /\ s \in Seq(Requests) /\ Len(s) = Len(old) - 1 /\ Len(old) \in Nat \ {0}
      /\ DOMAIN s = 1..(Len(old) - 1) /\ DOMAIN old = 1..Len(old) /\ i \in 1..Len(old)
      /\ \A j \in 1..(Len(old) - 1) : s[j] = IF j < i THEN old[j] ELSE old[j + 1]
  BY <1>1, TakingOut
<1> HIDE DEF s
<1>5. Len(s) <= MaxPending
  BY <1>1, <1>4, Limits
<1>6. \A j \in DOMAIN s : QueueOf(s[j]) = q
  <2> TAKE j \in DOMAIN s
  <2>1. j \in 1..(Len(old) - 1) /\ j \in DOMAIN old /\ j + 1 \in DOMAIN old
    BY <1>4
  <2>2. s[j] = old[j] \/ s[j] = old[j + 1]
    BY <1>4, <2>1
  <2> QED
    BY <1>2, <2>1, <2>2
<1> QED
  BY <1>3, <1>4, <1>5, <1>6, QueueReplaced

LEMMA DecidingKeepsTypes ==
    ASSUME CardTypes, FitsInv, NEW q \in Queues, NEW n \in DOMAIN cards[q],
           NEW seen \in Requests, QueueOf(seen) = q, Decide(q, cards[q][n].id, seen)
    PROVE  CardTypes' /\ FitsInv'
<1> DEFINE id == cards[q][n].id
           i  == Position(cards[q], id)
           d  == [card |-> cards[q][i], seen |-> seen]
<1>1. /\ cards \in [Queues -> Seq(Requests)] /\ \A p \in Queues : Len(cards[p]) <= MaxPending
      /\ CardsFit /\ cards[q] \in Seq(Requests)
  BY DEF CardTypes, FitsInv, CardsFit
<1>2. i \in DOMAIN cards[q] /\ cards[q][i] \in Requests /\ QueueOf(cards[q][i]) = q
  BY <1>1, PositionIsFirst DEF CardsFit
<1>3. id \in Ids
  <2>1. cards[q][n] \in Requests
    BY <1>1
  <2> QED
    BY <2>1 DEF Requests
<1>4. /\ cards' = [cards EXCEPT ![q] = Remove(@, i)]
      /\ IF Len(commands) < CommandCapacity
         THEN commands' = Append(commands, d) /\ UNCHANGED forgotten
         ELSE forgotten' = forgotten \cup {id} /\ UNCHANGED commands
  BY DEF Decide
<1>5. d \in Decisions /\ Fits(d.seen, d.card)
  BY <1>2 DEF Decisions, Fits
<1> HIDE DEF id, i, d
<1>6. /\ cards' \in [Queues -> Seq(Requests)] /\ \A p \in Queues : Len(cards'[p]) <= MaxPending
      /\ CardsFit'
  BY <1>1, <1>2, <1>4, CardRemoved
<1>7. /\ commands' \in Seq(Decisions) /\ Len(commands') <= CommandCapacity
      /\ \A j \in DOMAIN commands' : Fits(commands'[j].seen, commands'[j].card)
  <2>0. commands \in Seq(Decisions) /\ Len(commands) <= CommandCapacity
        /\ \A j \in DOMAIN commands : Fits(commands[j].seen, commands[j].card)
    BY DEF CardTypes, FitsInv
  <2>1. CASE Len(commands) < CommandCapacity
    <3>1. /\ commands' \in Seq(Decisions) /\ Len(commands') = Len(commands) + 1 /\ Len(commands) \in Nat
          /\ DOMAIN commands' = 1..(Len(commands) + 1) /\ DOMAIN commands = 1..Len(commands)
          /\ commands'[Len(commands) + 1] = d
          /\ \A j \in 1..Len(commands) : commands'[j] = commands[j]
      <4>1. commands' = Append(commands, d)
        BY <1>4, <2>1
      <4>2. commands \in Seq(Decisions) /\ d \in Decisions
        BY <1>5, <2>0
      <4> QED
        BY <4>1, <4>2, PuttingLast
    <3>2. ASSUME NEW j \in DOMAIN commands' PROVE Fits(commands'[j].seen, commands'[j].card)
      <4>1. j = Len(commands) + 1 \/ j \in DOMAIN commands
        BY <3>1
      <4> QED
        BY <1>5, <2>0, <3>1, <4>1
    <3> QED
      BY <2>1, <3>1, <3>2, Limits
  <2>2. CASE ~(Len(commands) < CommandCapacity)
    BY <1>4, <2>0, <2>2
  <2> QED
    BY <2>1, <2>2
<1>8. forgotten' \subseteq Ids
  BY <1>3, <1>4 DEF CardTypes
<1>9. CardTypes'
  BY <1>6, <1>7, <1>8 DEF CardTypes
<1>10. FitsInv'
  BY <1>6, <1>7 DEF FitsInv, CardsFit
<1> QED
  BY <1>9, <1>10

(* The first decision is taken from the command queue. *)
LEMMA DecisionTaken ==
    ASSUME CardTypes, FitsInv, Arrives(Head(commands)), UNCHANGED cards, forgotten' \subseteq Ids
    PROVE  /\ CardTypes' /\ FitsInv' /\ Head(commands) \in Decisions
           /\ Fits(Head(commands).seen, Head(commands).card)
           /\ Head(commands).card \in Requests /\ Head(commands).seen \in Requests
<1>1. commands # <<>> /\ commands' = Tail(commands)
  BY DEF Arrives
<1>2. /\ Tail(commands) \in Seq(Decisions) /\ Len(commands) \in Nat \ {0}
      /\ Len(Tail(commands)) = Len(commands) - 1
      /\ DOMAIN Tail(commands) = 1..(Len(commands) - 1) /\ DOMAIN commands = 1..Len(commands)
      /\ Head(commands) \in Decisions /\ Head(commands) = commands[1]
      /\ \A i \in 1..(Len(commands) - 1) : Tail(commands)[i] = commands[i + 1]
  BY <1>1, TakingFirst DEF CardTypes
<1>3. CardTypes'
  BY <1>1, <1>2, Limits DEF CardTypes
<1>4. FitsInv'
  <2>1. ASSUME NEW j \in DOMAIN commands' PROVE Fits(commands'[j].seen, commands'[j].card)
    <3>1. j + 1 \in DOMAIN commands /\ commands'[j] = commands[j + 1]
      BY <1>1, <1>2
    <3> QED
      BY <3>1 DEF FitsInv
  <2> QED
    BY <2>1 DEF FitsInv
<1>5. Fits(Head(commands).seen, Head(commands).card)
  BY <1>2 DEF FitsInv
<1> QED
  BY <1>2, <1>3, <1>4, <1>5 DEF Decisions

-----------------------------------------------------------------------------
(* Every step keeps the types. *)

LEMMA AskingKeepsTypes == Types /\ ServerAsks => Types'
<1> SUFFICES ASSUME Types, ServerAsks PROVE Types'
  OBVIOUS
<1>1. PICK kind \in Kinds :
        asked' = Append(asked, [server |-> server, id |-> Len(asked) + 1, kind |-> kind])
  BY DEF ServerAsks
<1> DEFINE r == [server |-> server, id |-> Len(asked) + 1, kind |-> kind]
<1>2. up /\ Len(asked) < MaxAsks /\ UNCHANGED <<server, up, read, answers, pending, cancelling>>
      /\ UNCHANGED <<events, lossPending, online, cards, commands, forgotten>>
  BY DEF ServerAsks, uiVars
<1>3. asked \in Seq(Requests) /\ Len(asked) \in Nat /\ read \in 0..Len(asked)
  BY DEF Types, BackendTypes
<1>4. r \in Requests
  BY <1>2, <1>3, Limits DEF Types, BackendTypes, Requests, Ids
<1> HIDE DEF r
<1>5. asked' \in Seq(Requests) /\ Len(asked') = Len(asked) + 1
  BY <1>1, <1>3, <1>4, PuttingLast DEF r
<1>6. Len(asked') <= MaxAsks /\ read' \in 0..Len(asked')
  BY <1>2, <1>3, <1>5, Limits
<1>7. BackendTypes'
  BY <1>2, <1>5, <1>6 DEF Types, BackendTypes
<1>8. EventTypes' /\ CardTypes' /\ FitsInv' /\ AnswerFitsRequest'
  BY <1>2 DEF Types, EventTypes, CardTypes, FitsInv, AnswerFitsRequest, Fits
<1> QED
  BY <1>7, <1>8 DEF Types

LEMMA ReceivingTypes ==
    ASSUME Types, Receive
    PROVE  /\ Received \in Requests /\ Received.id \in Ids /\ read' \in 0..Len(asked)
           /\ cancelling = {} /\ up
<1>1. asked \in Seq(Requests) /\ Len(asked) \in Nat /\ read \in 0..Len(asked)
  BY DEF Types, BackendTypes
<1>2. read + 1 \in DOMAIN asked /\ read' = read + 1
  BY <1>1 DEF Receive, Unread
<1>3. Received \in Requests
  BY <1>1, <1>2 DEF Received
<1>4. Received.id \in Ids
  BY <1>3 DEF Requests
<1> QED
  BY <1>1, <1>2, <1>3, <1>4 DEF Receive, BackendFree, Unread

LEMMA AnsweringKeepsTypes == Types /\ AnswerAtOnce => Types'
<1> SUFFICES ASSUME Types, AnswerAtOnce PROVE Types'
  OBVIOUS
<1>1. /\ Receive /\ UNCHANGED <<server, up, asked, pending, cancelling>>
      /\ UNCHANGED <<events, lossPending, online, cards, commands>>
      /\ \/ Sent(Received, Client) /\ UNCHANGED forgotten
         \/ UNCHANGED answers /\ forgotten' = forgotten \cup {Received.id}
  BY DEF AnswerAtOnce, uiVars, NotSent
<1>2. Received \in Requests /\ Received.id \in Ids /\ read' \in 0..Len(asked)
  BY <1>1, ReceivingTypes
<1>3. answers' \in Seq(Answers) /\ AnswerFitsRequest'
  <2>1. CASE Sent(Received, Client)
    BY <1>2, <2>1, AnswerKeepsTypes DEF Types
  <2>2. CASE UNCHANGED answers
    BY <2>2 DEF Types, BackendTypes, AnswerFitsRequest, Fits
  <2> QED
    BY <1>1, <2>1, <2>2
<1>4. BackendTypes'
  BY <1>1, <1>2, <1>3 DEF Types, BackendTypes
<1>5. EventTypes'
  BY <1>1 DEF Types, EventTypes
<1>6. CardTypes' /\ FitsInv'
  BY <1>1, <1>2 DEF Types, CardTypes, FitsInv, Fits
<1> QED
  BY <1>3, <1>4, <1>5, <1>6 DEF Types

LEMMA RegisteringKeepsTypes == Types /\ Register => Types'
<1> SUFFICES ASSUME Types, Register PROVE Types'
  OBVIOUS
<1> DEFINE r == Received
<1>1. /\ Receive /\ UNCHANGED <<server, up, asked, answers, cancelling>>
      /\ UNCHANGED <<lossPending, online, cards, commands, forgotten>>
      /\ Registrable(r) /\ EventRoom /\ pending' = With(r) /\ events' = Append(events, Ask(r))
  BY DEF Register, uiVars
<1>2. r \in Requests /\ r.id \in Ids /\ read' \in 0..Len(asked)
  BY <1>1, ReceivingTypes
<1> HIDE DEF r
<1>3. /\ DOMAIN pending' = DOMAIN pending \cup {r.id} /\ pending'[r.id] = r
      /\ \A id \in DOMAIN pending : id # r.id => pending'[id] = pending[id]
  BY <1>1, PutIn
<1>4. Cardinality(DOMAIN pending') <= MaxPending
  <2>1. DOMAIN pending \in SUBSET Ids
    BY DEF Types, BackendTypes
  <2>2. /\ Cardinality(DOMAIN pending) \in Nat /\ IsFiniteSet(DOMAIN pending)
        /\ Cardinality(DOMAIN pending \cup {r.id}) <= Cardinality(DOMAIN pending) + 1
    BY <1>2, <2>1, TableKeepsLimit
  <2>3. Cardinality(DOMAIN pending \cup {r.id}) \in Nat
    BY <2>2, FS_AddElement, FS_CardinalityType
  <2>4. Cardinality(DOMAIN pending) < MaxPending
    BY <1>1 DEF Registrable
  <2>5. Cardinality(DOMAIN pending') = Cardinality(DOMAIN pending \cup {r.id})
    BY <1>3
  <2> QED
    BY <2>2, <2>3, <2>4, <2>5, Limits
<1>5. BackendTypes'
  BY <1>1, <1>2, <1>3, <1>4 DEF Types, BackendTypes
<1>6. EventTypes'
  <2>1. Ask(r) \in AnyEvent /\ Ask(r).id = Ask(r).request.id
    BY <1>2, EventsAre
  <2>2. lossPending' \in BOOLEAN /\ UNCHANGED online
    BY <1>1 DEF Types, EventTypes
  <2> QED
    BY <1>1, <2>1, <2>2, EventAdded DEF Types
<1>7. CardTypes' /\ FitsInv' /\ AnswerFitsRequest'
  BY <1>1 DEF Types, CardTypes, FitsInv, Fits, AnswerFitsRequest
<1> QED
  BY <1>5, <1>6, <1>7 DEF Types

LEMMA ReconnectingKeepsTypes == Types /\ Reconnect => Types'
<1> SUFFICES ASSUME Types, Reconnect PROVE Types'
  OBVIOUS
<1>1. /\ server < MaxServers /\ server' = server + 1 /\ up' = TRUE
      /\ events' = IF EventRoom THEN Append(events, Connected) ELSE events
      /\ UNCHANGED <<asked, read, answers, pending, cancelling, lossPending, online, cards, commands, forgotten>>
  BY DEF Reconnect, uiVars
<1>2. BackendTypes'
  BY <1>1, Limits DEF Types, BackendTypes
<1>3. EventTypes'
  <2>1. CASE EventRoom
    <3>1. events' = Append(events, Connected)
      BY <1>1, <2>1
    <3>2. Connected \in AnyEvent /\ Connected.kind # "ask"
      BY EventsAre
    <3>3. lossPending' \in BOOLEAN /\ UNCHANGED online
      BY <1>1 DEF Types, EventTypes
    <3> QED
      BY <2>1, <3>1, <3>2, <3>3, EventAdded DEF Types
  <2>2. CASE ~EventRoom
    BY <1>1, <2>2 DEF Types, EventTypes
  <2> QED
    BY <2>1, <2>2
<1>4. CardTypes' /\ FitsInv' /\ AnswerFitsRequest'
  BY <1>1 DEF Types, CardTypes, FitsInv, Fits, AnswerFitsRequest
<1> QED
  BY <1>2, <1>3, <1>4 DEF Types

(* An event about a request, or its loss. *)
LEMMA EmittingKeepsTypes ==
    ASSUME EventTypes, UNCHANGED <<lossPending, online>>, forgotten \subseteq Ids, NEW id \in Ids,
           NEW e \in AnyEvent, e.kind = "ask" => e.id = e.request.id, EmitAbout(id, e)
    PROVE  EventTypes' /\ forgotten' \subseteq Ids
<1>0. lossPending' \in BOOLEAN /\ UNCHANGED online
  BY DEF EventTypes
<1>1. CASE EventRoom
  <2>1. events' = Append(events, e) /\ UNCHANGED forgotten
    BY <1>1 DEF EmitAbout
  <2> QED
    BY <1>0, <1>1, <2>1, EventAdded
<1>2. CASE ~EventRoom
  <2>1. UNCHANGED events /\ forgotten' = forgotten \cup {id}
    BY <1>2 DEF EmitAbout
  <2> QED
    BY <2>1 DEF EventTypes
<1> QED
  BY <1>1, <1>2

LEMMA OfflineKeepsTypes == Types /\ RespondOffline => Types'
<1> SUFFICES ASSUME Types, RespondOffline PROVE Types'
  OBVIOUS
<1>1. /\ Arrives(Head(commands)) /\ UNCHANGED <<server, up, asked, read, answers, pending, cancelling>>
      /\ UNCHANGED <<lossPending, online, cards, forgotten>>
      /\ events' = IF EventRoom THEN Append(events, Lost) ELSE events
  BY DEF RespondOffline, notRespond, serverVars, uiVars
<1>2. BackendTypes' /\ AnswerFitsRequest'
  BY <1>1 DEF Types, BackendTypes, AnswerFitsRequest, Fits
<1>3. CardTypes' /\ FitsInv'
  <2>1. forgotten' \subseteq Ids
    BY <1>1 DEF Types, CardTypes
  <2> QED
    BY <1>1, <2>1, DecisionTaken DEF Types
<1>4. EventTypes'
  <2>1. CASE EventRoom
    <3>1. events' = Append(events, Lost) /\ Lost \in AnyEvent /\ Lost.kind # "ask"
      BY <1>1, <2>1, EventsAre
    <3>2. lossPending' \in BOOLEAN /\ UNCHANGED online
      BY <1>1 DEF Types, EventTypes
    <3> QED
      BY <2>1, <3>1, <3>2, EventAdded DEF Types
  <2>2. CASE ~EventRoom
    BY <1>1, <2>2 DEF Types, EventTypes
  <2> QED
    BY <2>1, <2>2
<1> QED
  BY <1>2, <1>3, <1>4 DEF Types

LEMMA IgnoringKeepsTypes == Types /\ RespondIgnored => Types'
<1> SUFFICES ASSUME Types, RespondIgnored PROVE Types'
  OBVIOUS
<1>1. /\ Arrives(Head(commands)) /\ UNCHANGED <<server, up, asked, read, answers, pending, cancelling>>
      /\ UNCHANGED <<events, lossPending, online, cards, forgotten>>
  BY DEF RespondIgnored, notRespond, serverVars, uiVars
<1>2. BackendTypes' /\ EventTypes' /\ AnswerFitsRequest'
  BY <1>1 DEF Types, BackendTypes, EventTypes, AnswerFitsRequest, Fits
<1>3. CardTypes' /\ FitsInv'
  <2>1. forgotten' \subseteq Ids
    BY <1>1 DEF Types, CardTypes
  <2> QED
    BY <1>1, <2>1, DecisionTaken DEF Types
<1> QED
  BY <1>2, <1>3 DEF Types

LEMMA RespondingKeepsTypes == Types /\ Respond => Types'
<1> SUFFICES ASSUME Types, Respond PROVE Types'
  OBVIOUS
<1> DEFINE decision == Head(commands)
           id == decision.card.id
<1>1. /\ Arrives(Head(commands)) /\ UNCHANGED <<server, up, asked, read, cancelling>>
      /\ UNCHANGED <<events, lossPending, online, cards, forgotten>> /\ cancelling = {}
      /\ id \in DOMAIN pending /\ Fits(decision.card, pending[id])
      /\ Sent(pending[id], decision.seen) /\ pending' = Without(id)
  BY DEF Respond, notRespond, serverVars, uiVars, Answerable, Arrives, BackendFree
<1>2. /\ CardTypes' /\ FitsInv' /\ Fits(decision.seen, decision.card) /\ decision.seen \in Requests
  <2>1. forgotten' \subseteq Ids
    BY <1>1 DEF Types, CardTypes
  <2> QED
    BY <1>1, <2>1, DecisionTaken DEF Types
<1>3. Fits(decision.seen, pending[id]) /\ pending[id] \in Requests
  BY <1>1, <1>2 DEF Fits, Types, BackendTypes
<1> HIDE DEF decision, id
<1>4. answers' \in Seq(Answers) /\ AnswerFitsRequest'
  BY <1>1, <1>2, <1>3, AnswerKeepsTypes DEF Types
<1>5. BackendTypes'
  BY <1>1, <1>4, EntryLeaves DEF Types
<1>6. EventTypes'
  BY <1>1 DEF Types, EventTypes
<1> QED
  BY <1>2, <1>4, <1>5, <1>6 DEF Types

LEMMA FailingKeepsTypes == Types /\ RespondFails => Types'
<1> SUFFICES ASSUME Types, RespondFails PROVE Types'
  OBVIOUS
<1> DEFINE card == Head(commands).card
<1>1. /\ Arrives(Head(commands)) /\ UNCHANGED <<server, up, asked, read, cancelling, answers>>
      /\ UNCHANGED <<lossPending, online, cards>> /\ cancelling = {}
      /\ card.id \in DOMAIN pending /\ Restored(card)
  BY DEF RespondFails, notRespond, serverVars, uiVars, Answerable, Arrives, BackendFree, NotSent
<1>2. card \in Requests /\ card.id \in Ids /\ forgotten \subseteq Ids
  <2>1. Arrives(Head(commands)) /\ commands # <<>> /\ commands \in Seq(Decisions) /\ forgotten \subseteq Ids
    BY <1>1 DEF Arrives, Types, CardTypes
  <2>2. Head(commands) \in Decisions
    BY <2>1, TakingFirst
  <2>3. card \in Requests
    BY <2>2 DEF Decisions
  <2> QED
    BY <2>1, <2>3 DEF Requests
<1>3. BackendTypes'
  <2>1. CASE pending' = Without(card.id)
    <3>1. answers' \in Seq(Answers)
      BY <1>1 DEF Types, BackendTypes
    <3> QED
      BY <1>1, <2>1, <3>1, EntryLeaves DEF Types
  <2>2. CASE UNCHANGED pending
    BY <1>1, <2>2 DEF Types, BackendTypes
  <2> QED
    BY <1>1, <2>1, <2>2 DEF Restored, GivenUp
<1>4. EventTypes' /\ forgotten' \subseteq Ids
  <2>1. CASE EmitAbout(card.id, Ask(card))
    <3>1. Ask(card) \in AnyEvent /\ Ask(card).id = Ask(card).request.id
      BY <1>2, EventsAre
    <3> HIDE DEF card
    <3> QED
      BY <1>1, <1>2, <2>1, <3>1, EmittingKeepsTypes DEF Types
  <2>2. CASE UNCHANGED events /\ forgotten' \subseteq forgotten \cup {card.id}
    BY <1>1, <1>2, <2>2 DEF Types, EventTypes
  <2> QED
    BY <1>1, <2>1, <2>2 DEF Restored, GivenUp
<1>5. CardTypes' /\ FitsInv'
  BY <1>1, <1>4, DecisionTaken DEF Types
<1>6. AnswerFitsRequest'
  BY <1>1 DEF Types, AnswerFitsRequest, Fits
<1> QED
  BY <1>3, <1>4, <1>5, <1>6 DEF Types

LEMMA CancellingKeepsTypes == Types /\ CancelTool => Types'
<1> SUFFICES ASSUME Types, CancelTool PROVE Types'
  OBVIOUS
<1>1. PICK id \in cancelling :
        /\ cancelling' = cancelling \ {id} /\ pending' = Without(id)
        /\ \/ Sent(pending[id], Client) /\ EmitAbout(id, Resolve(id))
           \/ /\ UNCHANGED answers /\ forgotten' = forgotten \cup {id}
              /\ events' = IF EventRoom THEN Append(events, Resolve(id)) ELSE events
  BY DEF CancelTool, NotSent
<1>2. UNCHANGED <<server, up, asked, read, lossPending, online, cards, commands>>
  BY DEF CancelTool, serverVars, uiVars
<1>3. id \in DOMAIN pending /\ id \in Ids /\ pending[id] \in Requests /\ forgotten \subseteq Ids
  BY DEF Types, BackendTypes, CardTypes
<1>4. answers' \in Seq(Answers) /\ AnswerFitsRequest'
  <2>1. CASE Sent(pending[id], Client)
    BY <1>3, <2>1, AnswerKeepsTypes DEF Types
  <2>2. CASE UNCHANGED answers
    BY <2>2 DEF Types, BackendTypes, AnswerFitsRequest, Fits
  <2> QED
    BY <1>1, <2>1, <2>2
<1>5. BackendTypes'
  BY <1>1, <1>2, <1>3, <1>4, EntryLeaves DEF Types
<1>6. Resolve(id) \in AnyEvent /\ Resolve(id).kind # "ask"
  BY <1>3, EventsAre
<1>7. EventTypes' /\ forgotten' \subseteq Ids
  <2>1. CASE EmitAbout(id, Resolve(id))
    BY <1>2, <1>3, <1>6, <2>1, EmittingKeepsTypes DEF Types
  <2>2. CASE /\ forgotten' = forgotten \cup {id}
             /\ events' = IF EventRoom THEN Append(events, Resolve(id)) ELSE events
    <3>1. CASE EventRoom
      <4>1. lossPending' \in BOOLEAN /\ UNCHANGED online /\ events' = Append(events, Resolve(id))
        BY <1>2, <2>2, <3>1 DEF Types, EventTypes
      <4> QED
        BY <1>3, <1>6, <2>2, <3>1, <4>1, EventAdded DEF Types
    <3>2. CASE ~EventRoom
      BY <1>2, <1>3, <2>2, <3>2 DEF Types, EventTypes
    <3> QED
      BY <3>1, <3>2
  <2> QED
    BY <1>1, <2>1, <2>2
<1>8. CardTypes' /\ FitsInv'
  BY <1>2, <1>7 DEF Types, CardTypes, FitsInv, Fits
<1> QED
  BY <1>4, <1>5, <1>7, <1>8 DEF Types

(* The UI thread leaves the backend alone. *)
LEMMA UiKeepsTypes == Types /\ (UI \/ DecideOnCard \/ ArchiveTask) => Types'
<1> SUFFICES ASSUME Types, UI \/ DecideOnCard \/ ArchiveTask PROVE Types'
  OBVIOUS
<1>1. UNCHANGED <<server, up, asked, read, answers, pending, cancelling>>
  BY DEF UI, ReduceLossFlag, ReduceConnectionLost, ReduceConnected, ReduceAsk, ReduceResolve,
         DecideOnCard, ArchiveTask, notUi, serverVars
<1>2. BackendTypes' /\ AnswerFitsRequest'
  BY <1>1 DEF Types, BackendTypes, AnswerFitsRequest, Fits
<1>3. /\ cards \in [Queues -> Seq(Requests)] /\ \A p \in Queues : Len(cards[p]) <= MaxPending
      /\ CardsFit /\ forgotten \subseteq Ids
  BY DEF Types, CardTypes, FitsInv, CardsFit
<1>4. "elicitations" \in Queues /\ "approvals" \in Queues
  BY DEF Queues
<1>5. ASSUME Lose, UNCHANGED <<commands, forgotten>> PROVE CardTypes' /\ FitsInv' /\ online' \in BOOLEAN
  <2>1. CASE online
    <3>1. cards' = [cards EXCEPT !["elicitations"] = <<>>]
      BY <1>5, <2>1 DEF Lose
    <3>2. <<>> \in Seq(Requests) /\ Len(<<>>) <= MaxPending /\ DOMAIN <<>> = {}
      BY Limits
    <3>3. /\ cards' \in [Queues -> Seq(Requests)] /\ \A p \in Queues : Len(cards'[p]) <= MaxPending
          /\ CardsFit'
      BY <1>3, <1>4, <3>1, <3>2, QueueReplaced
    <3> QED
      BY <1>5, <3>3 DEF Types, CardTypes, FitsInv, CardsFit, Lose, Fits
  <2>2. CASE ~online
    BY <1>5, <2>2 DEF Types, CardTypes, FitsInv, Lose, Fits
  <2> QED
    BY <2>1, <2>2
<1>6. CASE ReduceLossFlag
  <2>1. Lose /\ UNCHANGED <<commands, forgotten, events>> /\ lossPending' = FALSE
    BY <1>6 DEF ReduceLossFlag
  <2> QED
    BY <1>2, <1>5, <2>1 DEF Types, EventTypes
<1>7. CASE ReduceConnectionLost
  <2>1. Lose /\ UNCHANGED <<commands, forgotten>> /\ NextEvent("lost")
    BY <1>7 DEF ReduceConnectionLost
  <2>2. EventTypes'
    BY <1>5, <2>1, EventTaken DEF Types
  <2> QED
    BY <1>2, <1>5, <2>1, <2>2 DEF Types
<1>8. CASE ReduceConnected
  <2>1. UNCHANGED <<cards, commands, forgotten>> /\ NextEvent("connected") /\ online' \in BOOLEAN
    BY <1>8 DEF ReduceConnected
  <2>2. EventTypes'
    BY <2>1, EventTaken DEF Types
  <2> QED
    BY <1>2, <2>1, <2>2 DEF Types, CardTypes, FitsInv, Fits
<1>9. CASE ReduceAsk
  <2> DEFINE r == Head(events).request
             queue == QueueOf(r)
  <2>1. /\ UNCHANGED <<online, commands, forgotten>> /\ NextEvent("ask")
        /\ cards' = IF IsDuplicate(queue, r) THEN cards ELSE [cards EXCEPT ![queue] = Pushed(@, r)]
    BY <1>9 DEF ReduceAsk
  <2>2. online' \in BOOLEAN
    BY <2>1 DEF Types, EventTypes
  <2>3. EventTypes' /\ Head(events) \in AnyEvent /\ Head(events).kind = "ask"
    BY <2>1, <2>2, EventTaken DEF Types, NextEvent
  <2>4. r \in Requests
    BY <2>3 DEF AnyEvent, Lost, Connected
  <2>5. queue \in Queues
    BY <2>4, KindsHaveQueues
  <2> DEFINE s == Pushed(cards[queue], r)
  <2> HIDE DEF r
  <2>6. /\ s \in Seq(Requests) /\ Len(s) <= MaxPending
        /\ \A i \in DOMAIN s : s[i] = r \/ \E j \in DOMAIN cards[queue] : s[i] = cards[queue][j]
    BY <1>3, <2>4, <2>5, PushingKeeps
  <2>7. \A i \in DOMAIN s : QueueOf(s[i]) = queue
    BY <1>3, <2>5, <2>6 DEF CardsFit
  <2>8. CASE cards' = [cards EXCEPT ![queue] = s]
    <3> HIDE DEF s, queue
    <3>1. /\ cards' \in [Queues -> Seq(Requests)] /\ \A p \in Queues : Len(cards'[p]) <= MaxPending
          /\ CardsFit'
      BY <1>3, <2>5, <2>6, <2>7, <2>8, QueueReplaced
    <3> QED
      BY <1>2, <2>1, <2>3, <3>1 DEF Types, CardTypes, FitsInv, CardsFit, Fits
  <2>9. CASE UNCHANGED cards
    BY <1>2, <2>1, <2>3, <2>9 DEF Types, CardTypes, FitsInv, Fits
  <2> QED
    BY <2>1, <2>8, <2>9
<1>10. CASE ReduceResolve
  <2> DEFINE id == Head(events).id
             q  == "approvals"
             shown == {i \in DOMAIN cards[q] : cards[q][i].id = id}
  <2>1. /\ UNCHANGED online /\ NextEvent("resolve")
        /\ IF shown = {} THEN UNCHANGED <<cards, commands, forgotten>>
           ELSE Decide(q, id, cards[q][Position(cards[q], id)])
    BY <1>10 DEF ReduceResolve
  <2>2. online' \in BOOLEAN
    BY <2>1 DEF Types, EventTypes
  <2>3. EventTypes'
    BY <2>1, <2>2, EventTaken DEF Types
  <2>4. CASE shown = {}
    BY <1>2, <2>1, <2>3, <2>4 DEF Types, CardTypes, FitsInv, Fits
  <2>5. CASE shown # {}
    <3>1. PICK n \in DOMAIN cards[q] : cards[q][n].id = id
      BY <2>5
    <3>2. cards[q] \in Seq(Requests)
      BY <1>3, <1>4
    <3>3. /\ Position(cards[q], cards[q][n].id) \in DOMAIN cards[q]
          /\ cards[q][Position(cards[q], cards[q][n].id)] \in Requests
          /\ QueueOf(cards[q][Position(cards[q], cards[q][n].id)]) = q
      BY <1>3, <1>4, <3>1, <3>2, PositionIsFirst DEF CardsFit
    <3>4. Decide(q, cards[q][n].id, cards[q][Position(cards[q], cards[q][n].id)])
      BY <2>1, <2>5, <3>1
    <3>5. q \in Queues /\ CardTypes /\ FitsInv
      BY <1>4 DEF Types
    <3> HIDE DEF q
    <3>6. CardTypes' /\ FitsInv'
      BY <3>1, <3>3, <3>4, <3>5, DecidingKeepsTypes
    <3> QED
      BY <1>2, <2>3, <3>6 DEF Types
  <2> QED
    BY <2>4, <2>5
<1>11. CASE DecideOnCard
  <2>1. PICK q \in Queues : \E i \in DOMAIN cards[q] : Decide(q, cards[q][i].id, cards[q][i])
    BY <1>11 DEF DecideOnCard
  <2>2. PICK i \in DOMAIN cards[q] : Decide(q, cards[q][i].id, cards[q][i])
    BY <2>1
  <2>3. cards[q][i] \in Requests /\ QueueOf(cards[q][i]) = q
    BY <1>3 DEF CardsFit
  <2>4. CardTypes' /\ FitsInv'
    BY <2>2, <2>3, DecidingKeepsTypes DEF Types
  <2>5. UNCHANGED <<online, events, lossPending>>
    BY <1>11 DEF DecideOnCard
  <2> QED
    BY <1>2, <2>4, <2>5 DEF Types, EventTypes
<1>12. CASE ArchiveTask
  <2>1. PICK i \in DOMAIN cards["approvals"] :
          /\ cards' = [cards EXCEPT !["approvals"] = Remove(@, i)]
          /\ forgotten' = forgotten \cup {cards["approvals"][i].id}
    BY <1>12 DEF ArchiveTask
  <2>2. /\ cards' \in [Queues -> Seq(Requests)] /\ \A p \in Queues : Len(cards'[p]) <= MaxPending
        /\ CardsFit'
    BY <1>3, <1>4, <2>1, CardRemoved
  <2>3. cards["approvals"][i] \in Requests
    BY <1>3, <1>4
  <2>4. forgotten' \subseteq Ids
    BY <1>3, <2>1, <2>3 DEF Requests
  <2>5. UNCHANGED <<online, events, lossPending, commands>>
    BY <1>12 DEF ArchiveTask
  <2> QED
    BY <1>2, <2>2, <2>4, <2>5 DEF Types, EventTypes, CardTypes, FitsInv, CardsFit, Fits
<1> QED
  BY <1>6, <1>7, <1>8, <1>9, <1>10, <1>11, <1>12 DEF UI

LEMMA InitTypes == Init => Types
<1> SUFFICES ASSUME Init PROVE Types
  OBVIOUS
<1>1. DOMAIN pending = {} /\ Cardinality(DOMAIN pending) <= MaxPending
  BY FS_EmptySet, Limits DEF Init, Empty
<1>2. /\ asked = <<>> /\ answers = <<>> /\ events = <<>> /\ commands = <<>>
      /\ server = 1 /\ up = TRUE /\ read = 0 /\ cancelling = {} /\ lossPending = FALSE
      /\ online = TRUE /\ forgotten = {} /\ cards = [q \in Queues |-> <<>>]
  BY DEF Init
<1>3. BackendTypes
  BY <1>1, <1>2, Limits DEF BackendTypes
<1>4. EventTypes
  <2>1. events \in Seq(AnyEvent) /\ Len(events) = 0 /\ DOMAIN events = {}
    BY <1>2
  <2>2. \A k \in DOMAIN events : events[k].kind = "ask" => events[k].id = events[k].request.id
    BY <2>1
  <2>3. Len(events) <= EventCapacity
    BY <2>1, Limits
  <2>4. lossPending \in BOOLEAN /\ online \in BOOLEAN
    BY <1>2
  <2> QED
    BY <2>1, <2>2, <2>3, <2>4 DEF EventTypes
<1>5. CardTypes
  BY <1>2, Limits DEF CardTypes
<1>6. FitsInv /\ AnswerFitsRequest
  BY <1>2 DEF FitsInv, AnswerFitsRequest
<1> QED
  BY <1>3, <1>4, <1>5, <1>6 DEF Types

LEMMA TypesStep == Types /\ [Next]_vars => Types'
<1> SUFFICES ASSUME Types, [Next]_vars PROVE Types'
  OBVIOUS
<1>1. CASE ServerAsks
  BY <1>1, AskingKeepsTypes
<1>2. CASE AnswerAtOnce
  BY <1>2, AnsweringKeepsTypes
<1>3. CASE Register
  BY <1>3, RegisteringKeepsTypes
<1>4. CASE Overload \/ ServerEnds \/ StartBedrockLogin
  <2>1. DropServer /\ cancelling = {} /\ UNCHANGED <<cancelling, online, cards, commands, forgotten>>
    BY <1>4 DEF Overload, ServerEnds, StartBedrockLogin, BackendFree, uiVars
  <2>2. lossPending' \in BOOLEAN
    BY <1>4 DEF Overload, ServerEnds, StartBedrockLogin, Types, EventTypes
  <2>3. UNCHANGED events \/ (EventRoom /\ events' = Append(events, Lost))
    BY <1>4 DEF Overload, ServerEnds, StartBedrockLogin
  <2> QED
    BY <2>1, <2>2, <2>3, DroppingKeepsTypes
<1>5. CASE Reconnect
  BY <1>5, ReconnectingKeepsTypes
<1>6. CASE RespondOffline
  BY <1>6, OfflineKeepsTypes
<1>7. CASE RespondIgnored
  BY <1>7, IgnoringKeepsTypes
<1>8. CASE Respond
  BY <1>8, RespondingKeepsTypes
<1>9. CASE RespondFails
  BY <1>9, FailingKeepsTypes
<1>10. CASE CancelTool
  BY <1>10, CancellingKeepsTypes
<1>11. CASE Escape \/ AllIsSaid \/ UNCHANGED vars
  <2>1. UNCHANGED <<server, up, asked, read, answers, pending, events, lossPending, online, cards,
                    commands, forgotten>>
    BY <1>11 DEF Escape, AllIsSaid, vars, serverVars, uiVars
  <2>2. cancelling' \subseteq DOMAIN pending
    BY <1>11 DEF Escape, AllIsSaid, vars, ToolsWaiting, Types, BackendTypes
  <2>3. BackendTypes' /\ EventTypes' /\ CardTypes'
    BY <2>1, <2>2 DEF Types, BackendTypes, EventTypes, CardTypes
  <2>4. FitsInv' /\ AnswerFitsRequest'
    BY <2>1 DEF Types, FitsInv, Fits, AnswerFitsRequest
  <2> QED
    BY <2>3, <2>4 DEF Types
<1>12. CASE UI \/ DecideOnCard \/ ArchiveTask
  BY <1>12, UiKeepsTypes
<1> QED
  BY <1>1, <1>2, <1>3, <1>4, <1>5, <1>6, <1>7, <1>8, <1>9, <1>10, <1>11, <1>12 DEF Next, Backend

(* The variables keep their types; the tables and the queues of cards stay   *)
(* within MAX_PENDING_APPROVALS, the channels within their capacities.       *)
THEOREM TypesHold == Spec => []TypeOK
<1>1. Types => TypeOK
  <2> SUFFICES ASSUME Types PROVE TypeOK
    OBVIOUS
  <2>1. /\ server \in 1..MaxServers /\ up \in BOOLEAN /\ Elements(asked) \subseteq Requests
        /\ read \in 0..Len(asked)
        /\ DOMAIN pending \subseteq Ids /\ \A id \in DOMAIN pending : pending[id] \in Requests
        /\ Cardinality(DOMAIN pending) <= MaxPending /\ cancelling \subseteq Ids
    BY DEF Types, BackendTypes, Elements
  <2>2. \A i \in DOMAIN answers : answers[i].to \in Requests /\ answers[i].basis \in Requests \cup {Client}
    <3>1. \A i \in DOMAIN answers : answers[i] \in Answers
      BY DEF Types, BackendTypes
    <3> QED
      BY <3>1 DEF Answers
  <2>3. \A i \in DOMAIN events : EventsShape(events[i])
    <3> SUFFICES ASSUME NEW i \in DOMAIN events PROVE EventsShape(events[i])
      OBVIOUS
    <3>1. events[i] \in AnyEvent /\ (events[i].kind = "ask" => events[i].id = events[i].request.id)
      BY DEF Types, EventTypes
    <3> QED
      BY <3>1 DEF AnyEvent, EventsShape, Lost, Connected
  <2>4. \A i \in DOMAIN commands : commands[i].card \in Requests /\ commands[i].seen \in Requests
    <3>1. \A i \in DOMAIN commands : commands[i] \in Decisions
      BY DEF Types, CardTypes
    <3> QED
      BY <3>1 DEF Decisions
  <2>5. \A q \in Queues : Len(cards[q]) <= MaxPending /\ Elements(cards[q]) \subseteq Requests
    <3> SUFFICES ASSUME NEW q \in Queues
                 PROVE  Len(cards[q]) <= MaxPending /\ Elements(cards[q]) \subseteq Requests
      OBVIOUS
    <3>1. cards[q] \in Seq(Requests) /\ Len(cards[q]) <= MaxPending
      BY DEF Types, CardTypes
    <3> QED
      BY <3>1 DEF Elements
  <2>6. /\ Len(events) <= EventCapacity /\ lossPending \in BOOLEAN /\ online \in BOOLEAN
        /\ Len(commands) <= CommandCapacity /\ forgotten \subseteq Ids
    BY DEF Types, EventTypes, CardTypes
  <2> QED
    BY <2>1, <2>2, <2>3, <2>4, <2>5, <2>6 DEF TypeOK
<1> QED
  BY InitTypes, TypesStep, <1>1, PTL DEF Spec

(* A decision never answers a request of another kind of card, even when     *)
(* the ids of two connections coincide (respond_to_approval puts it back).   *)
THEOREM AnswersFit == Spec => []AnswerFitsRequest
<1>1. Types => AnswerFitsRequest
  BY DEF Types
<1> QED
  BY InitTypes, TypesStep, <1>1, PTL DEF Spec

-----------------------------------------------------------------------------
(* Every request of the first app-server that waits has one place: a card,   *)
(* an event on its way to become one, or a decision on its way back.         *)

Live == server = 1 /\ up /\ forgotten = {}

Is(k, kind, id) == events[k].kind = kind /\ events[k].id = id
CardIn(q, id) == \E i \in DOMAIN cards[q] : cards[q][i].id = id
CardOf(id)    == \E q \in Queues : CardIn(q, id)
OnItsWay(id)  == \E k \in DOMAIN events : Is(k, "ask", id)
Resolving(id) == \E k \in DOMAIN events : Is(k, "resolve", id)
Decided(id)   == \E j \in DOMAIN commands : commands[j].card.id = id

(* What is shown, asked or decided is what the app-server has asked under    *)
(* that id, and only a tool that has left the table is taken down.           *)
Known(r) == r.id \in 1..read /\ r = asked[r.id]

CardsKnown ==
    /\ \A q \in Queues : \A i \in DOMAIN cards[q] : Known(cards[q][i])
    /\ \A j \in DOMAIN commands : Known(commands[j].card)

EventsKnown ==
    \A k \in DOMAIN events :
        /\ events[k].kind # "lost"
        /\ events[k].kind = "ask" => Known(events[k].request)
        /\ events[k].kind = "resolve" => /\ events[k].id \in (1..read) \ DOMAIN pending
                                         /\ asked[events[k].id].kind = "tool"

StopsKnown == ~lossPending /\ \A id \in cancelling : asked[id].kind = "tool"

CardsOnce ==
    \A p, q \in Queues : \A i \in DOMAIN cards[p], j \in DOMAIN cards[q] :
        cards[p][i].id = cards[q][j].id => p = q /\ i = j
AsksOnce ==
    \A k, l \in DOMAIN events :
        events[k].kind = "ask" /\ events[l].kind = "ask" /\ events[k].id = events[l].id => k = l
DecidedOnce ==
    \A i, j \in DOMAIN commands : commands[i].card.id = commands[j].card.id => i = j
Apart ==
    \A id : /\ ~(CardOf(id) /\ OnItsWay(id)) /\ ~(CardOf(id) /\ Decided(id))
            /\ ~(OnItsWay(id) /\ Decided(id))

HasPlace == \A id \in DOMAIN pending : CardOf(id) \/ OnItsWay(id) \/ Decided(id)

(* A card is taken down after it has been put up. *)
ResolvedLast ==
    \A k, l \in DOMAIN events :
        events[k].kind = "resolve" /\ events[l].kind = "ask" /\ events[k].id = events[l].id => l < k

EndedIsResolved == \A id : (CardOf(id) \/ OnItsWay(id)) => (id \in DOMAIN pending \/ Resolving(id))

(* When a card comes to its queue, there are fewer than MaxPending in it:    *)
(* those shown now, and those on their way before it, but for those that are *)
(* taken down before it.                                                     *)
Ahead(q, k) ==
    {id \in Ids : /\ \/ CardIn(q, id)
                     \/ \E l \in 1..(k - 1) : Is(l, "ask", id) /\ QueueOf(events[l].request) = q
                  /\ \A l \in 1..(k - 1) : ~Is(l, "resolve", id)}
RoomAhead ==
    \A k \in DOMAIN events : events[k].kind = "ask" =>
        Cardinality(Ahead(QueueOf(events[k].request), k)) < MaxPending

CardsOk ==
    /\ CardsKnown /\ EventsKnown /\ StopsKnown
    /\ CardsOnce /\ AsksOnce /\ DecidedOnce /\ Apart
    /\ HasPlace /\ ResolvedLast /\ EndedIsResolved /\ RoomAhead

CardsInv == (~up => DOMAIN pending = {}) /\ (Live => CardsOk)

-----------------------------------------------------------------------------
(* The places, when an event or a decision comes or goes. *)

LEMMA EventsGrow ==
    ASSUME events \in Seq(AnyEvent), NEW e \in AnyEvent, events' = Append(events, e),
           AsksOnce, ResolvedLast, e.kind = "ask" => ~OnItsWay(e.id) /\ ~Resolving(e.id)
    PROVE  /\ AsksOnce' /\ ResolvedLast'
           /\ \A id : OnItsWay(id)' <=> OnItsWay(id) \/ (e.kind = "ask" /\ e.id = id)
           /\ \A id : Resolving(id)' <=> Resolving(id) \/ (e.kind = "resolve" /\ e.id = id)
<1>1. /\ Len(events) \in Nat
      /\ DOMAIN events' = 1..(Len(events) + 1) /\ DOMAIN events = 1..Len(events)
      /\ events'[Len(events) + 1] = e /\ \A i \in 1..Len(events) : events'[i] = events[i]
  BY PuttingLast
<1>2. ASSUME NEW k \in DOMAIN events' PROVE k \in DOMAIN events \/ k = Len(events) + 1
  BY <1>1
<1>3. ASSUME NEW id PROVE OnItsWay(id)' <=> OnItsWay(id) \/ (e.kind = "ask" /\ e.id = id)
  BY <1>1, <1>2 DEF OnItsWay, Is
<1>4. ASSUME NEW id PROVE Resolving(id)' <=> Resolving(id) \/ (e.kind = "resolve" /\ e.id = id)
  BY <1>1, <1>2 DEF Resolving, Is
<1>5. AsksOnce'
  <2> SUFFICES ASSUME NEW k \in DOMAIN events', NEW l \in DOMAIN events',
                      events'[k].kind = "ask", events'[l].kind = "ask", events'[k].id = events'[l].id
               PROVE  k = l
    BY DEF AsksOnce
  <2>1. CASE k \in DOMAIN events /\ l \in DOMAIN events
    BY <1>1, <2>1 DEF AsksOnce
  <2>2. CASE k = Len(events) + 1 /\ l \in DOMAIN events
    BY <1>1, <2>2 DEF OnItsWay, Is
  <2>3. CASE l = Len(events) + 1 /\ k \in DOMAIN events
    BY <1>1, <2>3 DEF OnItsWay, Is
  <2> QED
    BY <1>2, <2>1, <2>2, <2>3
<1>6. ResolvedLast'
  <2> SUFFICES ASSUME NEW k \in DOMAIN events', NEW l \in DOMAIN events',
                      events'[k].kind = "resolve", events'[l].kind = "ask", events'[k].id = events'[l].id
               PROVE  l < k
    BY DEF ResolvedLast
  <2>1. CASE k \in DOMAIN events /\ l \in DOMAIN events
    BY <1>1, <2>1 DEF ResolvedLast
  <2>2. CASE k = Len(events) + 1 /\ l \in DOMAIN events
    BY <1>1, <2>2
  <2>3. CASE l = Len(events) + 1 /\ k \in DOMAIN events
    BY <1>1, <2>3 DEF Resolving, Is
  <2>4. CASE l = Len(events) + 1 /\ k = Len(events) + 1
    BY <1>1, <2>4
  <2> QED
    BY <1>2, <2>1, <2>2, <2>3, <2>4
<1> QED
  BY <1>3, <1>4, <1>5, <1>6

LEMMA EventsShrink ==
    ASSUME events \in Seq(AnyEvent), events # <<>>, events' = Tail(events), AsksOnce, ResolvedLast
    PROVE  LET e == Head(events)
           IN  /\ AsksOnce' /\ ResolvedLast' /\ e = events[1] /\ 1 \in DOMAIN events
               /\ \A id : OnItsWay(id) <=> OnItsWay(id)' \/ (e.kind = "ask" /\ e.id = id)
               /\ \A id : Resolving(id) <=> Resolving(id)' \/ (e.kind = "resolve" /\ e.id = id)
               /\ \A id : e.kind \in {"ask", "resolve"} /\ e.id = id => ~OnItsWay(id)'
<1> DEFINE e == Head(events)
<1>1. /\ Len(events) \in Nat \ {0}
      /\ DOMAIN events' = 1..(Len(events) - 1) /\ DOMAIN events = 1..Len(events)
      /\ e = events[1] /\ \A i \in 1..(Len(events) - 1) : events'[i] = events[i + 1]
  BY TakingFirst
<1> HIDE DEF e
<1>2. ASSUME NEW k \in DOMAIN events' PROVE k + 1 \in DOMAIN events /\ events'[k] = events[k + 1] /\ k + 1 # 1
                                            /\ k \in Nat
  BY <1>1
<1>3. ASSUME NEW k \in DOMAIN events, k # 1 PROVE k - 1 \in DOMAIN events' /\ events'[k - 1] = events[k]
  BY <1>1, <1>3
<1>4. ASSUME NEW id PROVE OnItsWay(id) <=> OnItsWay(id)' \/ (e.kind = "ask" /\ e.id = id)
  BY <1>1, <1>2, <1>3 DEF OnItsWay, Is
<1>5. ASSUME NEW id PROVE Resolving(id) <=> Resolving(id)' \/ (e.kind = "resolve" /\ e.id = id)
  BY <1>1, <1>2, <1>3 DEF Resolving, Is
<1>6. AsksOnce'
  <2> SUFFICES ASSUME NEW k \in DOMAIN events', NEW l \in DOMAIN events',
                      events'[k].kind = "ask", events'[l].kind = "ask", events'[k].id = events'[l].id
               PROVE  k = l
    BY DEF AsksOnce
  <2>1. k + 1 = l + 1
    BY <1>2 DEF AsksOnce
  <2> QED
    BY <1>2, <2>1
<1>7. ResolvedLast'
  <2> SUFFICES ASSUME NEW k \in DOMAIN events', NEW l \in DOMAIN events',
                      events'[k].kind = "resolve", events'[l].kind = "ask", events'[k].id = events'[l].id
               PROVE  l < k
    BY DEF ResolvedLast
  <2>1. l + 1 < k + 1
    BY <1>2 DEF ResolvedLast
  <2> QED
    BY <1>2, <2>1
<1>8. ASSUME NEW id, e.kind \in {"ask", "resolve"}, e.id = id, OnItsWay(id)' PROVE FALSE
  <2>1. PICK k \in DOMAIN events' : events'[k].kind = "ask" /\ events'[k].id = e.id
    BY <1>8 DEF OnItsWay, Is
  <2>2. k + 1 \in DOMAIN events /\ events[k + 1].kind = "ask" /\ events[k + 1].id = events[1].id
        /\ k \in Nat /\ k >= 1
    BY <1>1, <1>2, <2>1
  <2>3. 1 \in DOMAIN events
    BY <1>1
  <2>4. CASE e.kind = "ask"
    BY <1>1, <2>2, <2>3, <2>4 DEF AsksOnce
  <2>5. CASE e.kind = "resolve"
    BY <1>1, <2>2, <2>3, <2>5 DEF ResolvedLast
  <2> QED
    BY <1>8, <2>4, <2>5
<1> QED
  BY <1>1, <1>4, <1>5, <1>6, <1>7, <1>8 DEF e

LEMMA CommandsShrink ==
    ASSUME commands \in Seq(Decisions), commands # <<>>, commands' = Tail(commands), DecidedOnce
    PROVE  LET d == Head(commands)
           IN  /\ DecidedOnce' /\ d = commands[1] /\ 1 \in DOMAIN commands
               /\ \A id : Decided(id) <=> Decided(id)' \/ d.card.id = id
               /\ \A id : d.card.id = id => ~Decided(id)'
               /\ \A j \in DOMAIN commands' : \E i \in DOMAIN commands : commands'[j] = commands[i]
<1> DEFINE d == Head(commands)
<1>1. /\ Len(commands) \in Nat \ {0}
      /\ DOMAIN commands' = 1..(Len(commands) - 1) /\ DOMAIN commands = 1..Len(commands)
      /\ d = commands[1] /\ \A i \in 1..(Len(commands) - 1) : commands'[i] = commands[i + 1]
  BY TakingFirst
<1> HIDE DEF d
<1>2. ASSUME NEW k \in DOMAIN commands'
      PROVE  k + 1 \in DOMAIN commands /\ commands'[k] = commands[k + 1] /\ k + 1 # 1 /\ k \in Nat
  BY <1>1
<1>3. ASSUME NEW k \in DOMAIN commands, k # 1
      PROVE  k - 1 \in DOMAIN commands' /\ commands'[k - 1] = commands[k]
  BY <1>1, <1>3
<1>4. ASSUME NEW id PROVE Decided(id) <=> Decided(id)' \/ d.card.id = id
  <2>1. ASSUME Decided(id)' PROVE Decided(id)
    BY <1>2, <2>1 DEF Decided
  <2>2. ASSUME d.card.id = id PROVE Decided(id)
    <3>1. 1 \in DOMAIN commands
      BY <1>1
    <3> QED
      BY <1>1, <2>2, <3>1 DEF Decided
  <2>3. ASSUME NEW k \in DOMAIN commands, commands[k].card.id = id, d.card.id # id PROVE Decided(id)'
    BY <1>1, <1>3, <2>3 DEF Decided
  <2> QED
    BY <2>1, <2>2, <2>3 DEF Decided
<1>5. DecidedOnce'
  <2> SUFFICES ASSUME NEW i \in DOMAIN commands', NEW j \in DOMAIN commands',
                      commands'[i].card.id = commands'[j].card.id
               PROVE  i = j
    BY DEF DecidedOnce
  <2>1. i + 1 = j + 1
    BY <1>2 DEF DecidedOnce
  <2> QED
    BY <1>2, <2>1
<1>6. ASSUME NEW id, d.card.id = id, Decided(id)' PROVE FALSE
  <2>1. PICK k \in DOMAIN commands' : commands'[k].card.id = d.card.id
    BY <1>6 DEF Decided
  <2>2. k + 1 \in DOMAIN commands /\ commands[k + 1].card.id = commands[1].card.id /\ k + 1 # 1
    BY <1>1, <1>2, <2>1
  <2>3. 1 \in DOMAIN commands
    BY <1>1
  <2> QED
    BY <2>2, <2>3 DEF DecidedOnce
<1>7. \A j \in DOMAIN commands' : \E i \in DOMAIN commands : commands'[j] = commands[i]
  BY <1>2
<1> QED
  BY <1>1, <1>4, <1>5, <1>6, <1>7 DEF d

LEMMA CommandsGrow ==
    ASSUME commands \in Seq(Decisions), NEW d \in Decisions, commands' = Append(commands, d),
           DecidedOnce, ~Decided(d.card.id)
    PROVE  /\ DecidedOnce' /\ \A id : Decided(id)' <=> Decided(id) \/ d.card.id = id
           /\ \A j \in DOMAIN commands' : commands'[j] = d \/ \E i \in DOMAIN commands : commands'[j] = commands[i]
<1>1. /\ Len(commands) \in Nat
      /\ DOMAIN commands' = 1..(Len(commands) + 1) /\ DOMAIN commands = 1..Len(commands)
      /\ commands'[Len(commands) + 1] = d /\ \A i \in 1..Len(commands) : commands'[i] = commands[i]
  BY PuttingLast
<1>2. ASSUME NEW k \in DOMAIN commands' PROVE k \in DOMAIN commands \/ k = Len(commands) + 1
  BY <1>1
<1>3. ASSUME NEW id PROVE Decided(id)' <=> Decided(id) \/ d.card.id = id
  BY <1>1, <1>2 DEF Decided
<1>4. DecidedOnce'
  <2> SUFFICES ASSUME NEW i \in DOMAIN commands', NEW j \in DOMAIN commands',
                      commands'[i].card.id = commands'[j].card.id
               PROVE  i = j
    BY DEF DecidedOnce
  <2>1. CASE i \in DOMAIN commands /\ j \in DOMAIN commands
    BY <1>1, <2>1 DEF DecidedOnce
  <2>2. CASE i = Len(commands) + 1 /\ j \in DOMAIN commands
    BY <1>1, <2>2 DEF Decided
  <2>3. CASE j = Len(commands) + 1 /\ i \in DOMAIN commands
    BY <1>1, <2>3 DEF Decided
  <2> QED
    BY <1>2, <2>1, <2>2, <2>3
<1> QED
  BY <1>1, <1>2, <1>3, <1>4

CardsTyped == cards \in [Queues -> Seq(Requests)]

LEMMA CardsShrink ==
    ASSUME CardsTyped, CardsOnce, NEW q \in Queues, NEW i \in DOMAIN cards[q],
           cards' = [cards EXCEPT ![q] = Remove(@, i)]
    PROVE  /\ CardsOnce'
           /\ \A p \in Queues : \A id : CardIn(p, id) <=> CardIn(p, id)' \/ (p = q /\ cards[q][i].id = id)
           /\ \A p \in Queues : \A id : cards[q][i].id = id => ~CardIn(p, id)'
           /\ \A p \in Queues : \A j \in DOMAIN cards'[p] : \E k \in DOMAIN cards[p] : cards'[p][j] = cards[p][k]
<1> DEFINE old == cards[q]
           s   == Remove(old, i)
           at(j) == IF j < i THEN j ELSE j + 1
<1>1. /\ DOMAIN s = 1..(Len(old) - 1) /\ DOMAIN old = 1..Len(old) /\ i \in 1..Len(old) /\ Len(old) \in Nat \ {0}
      /\ \A j \in 1..(Len(old) - 1) : s[j] = IF j < i THEN old[j] ELSE old[j + 1]
  <2>1. old \in Seq(Requests) /\ i \in DOMAIN old
    BY DEF CardsTyped
  <2> HIDE DEF old
  <2> QED
    BY <2>1, TakingOut
<1>2. \A p \in Queues : cards'[p] = IF p = q THEN s ELSE cards[p]
  BY DEF CardsTyped
<1> HIDE DEF s
<1>3. \A j \in DOMAIN s : at(j) \in DOMAIN old /\ s[j] = old[at(j)] /\ at(j) # i
  BY <1>1
<1>4. \A j, k \in DOMAIN s : at(j) = at(k) => j = k
  BY <1>1
<1>5. \A k \in DOMAIN old : k # i => \E j \in DOMAIN s : s[j] = old[k]
  <2> SUFFICES ASSUME NEW k \in DOMAIN old, k # i PROVE \E j \in DOMAIN s : s[j] = old[k]
    OBVIOUS
  <2>1. CASE k < i
    <3>1. k \in DOMAIN s /\ s[k] = old[k]
      BY <1>1, <2>1
    <3> QED
      BY <3>1
  <2>2. CASE ~(k < i)
    <3>1. k - 1 \in DOMAIN s /\ s[k - 1] = old[k]
      BY <1>1, <2>2
    <3> QED
      BY <3>1
  <2> QED
    BY <2>1, <2>2
<1> HIDE DEF at
<1>6. ASSUME NEW p \in Queues, NEW j \in DOMAIN cards'[p]
      PROVE  \E k \in DOMAIN cards[p] : cards'[p][j] = cards[p][k]
  BY <1>2, <1>3
<1>7. ASSUME NEW p \in Queues, NEW id
      PROVE  CardIn(p, id) <=> CardIn(p, id)' \/ (p = q /\ cards[q][i].id = id)
  <2>1. CASE p = q
    <3>1. ASSUME CardIn(p, id)' PROVE CardIn(p, id)
      BY <1>2, <1>3, <2>1, <3>1 DEF CardIn
    <3>2. ASSUME CardIn(p, id), cards[q][i].id # id PROVE CardIn(p, id)'
      BY <1>2, <1>5, <2>1, <3>2 DEF CardIn
    <3> QED
      BY <2>1, <3>1, <3>2 DEF CardIn
  <2>2. CASE p # q
    BY <1>2, <2>2 DEF CardIn
  <2> QED
    BY <2>1, <2>2
<1>8. ASSUME NEW p \in Queues, NEW id, cards[q][i].id = id, CardIn(p, id)' PROVE FALSE
  <2>1. CASE p = q
    <3>1. PICK j \in DOMAIN s : s[j].id = id
      BY <1>2, <1>8, <2>1 DEF CardIn
    <3> QED
      BY <1>3, <1>8, <3>1 DEF CardsOnce
  <2>2. CASE p # q
    BY <1>2, <1>8, <2>2 DEF CardIn, CardsOnce
  <2> QED
    BY <2>1, <2>2
<1>9. CardsOnce'
  <2> SUFFICES ASSUME NEW p \in Queues, NEW r \in Queues, NEW j \in DOMAIN cards'[p], NEW k \in DOMAIN cards'[r],
                      cards'[p][j].id = cards'[r][k].id
               PROVE  p = r /\ j = k
    BY DEF CardsOnce
  <2>1. PICK jj \in DOMAIN cards[p] : cards'[p][j] = cards[p][jj] /\ (p = q => jj = at(j)) /\ (p # q => jj = j)
    BY <1>2, <1>3
  <2>2. PICK kk \in DOMAIN cards[r] : cards'[r][k] = cards[r][kk] /\ (r = q => kk = at(k)) /\ (r # q => kk = k)
    BY <1>2, <1>3
  <2>3. p = r /\ jj = kk
    BY <2>1, <2>2 DEF CardsOnce
  <2> QED
    BY <1>2, <1>4, <2>1, <2>2, <2>3
<1> QED
  BY <1>6, <1>7, <1>8, <1>9

(* One card is put last in one queue. *)
PutsLast(q, r) == cards' = [cards EXCEPT ![q] = Append(@, r)]

LEMMA CardsGrow ==
    ASSUME CardsTyped, CardsOnce, NEW q \in Queues, NEW r \in Requests, ~CardOf(r.id),
           PutsLast(q, r)
    PROVE  /\ CardsOnce'
           /\ \A p \in Queues : \A id : CardIn(p, id)' <=> CardIn(p, id) \/ (p = q /\ r.id = id)
           /\ \A p \in Queues : \A j \in DOMAIN cards'[p] :
                 cards'[p][j] = r \/ \E k \in DOMAIN cards[p] : cards'[p][j] = cards[p][k]
<1> DEFINE old == cards[q]
           s   == Append(old, r)
<1>0. cards' = [cards EXCEPT ![q] = s]
  BY DEF PutsLast
<1>1. /\ DOMAIN s = 1..(Len(old) + 1) /\ DOMAIN old = 1..Len(old) /\ Len(old) \in Nat
      /\ s[Len(old) + 1] = r /\ \A j \in 1..Len(old) : s[j] = old[j]
  <2>1. old \in Seq(Requests)
    BY DEF CardsTyped
  <2> HIDE DEF old
  <2> QED
    BY <2>1, PuttingLast
<1>2. \A p \in Queues : cards'[p] = IF p = q THEN s ELSE cards[p]
  BY <1>0 DEF CardsTyped
<1> HIDE DEF s
<1>3. \A j \in DOMAIN s : j \in DOMAIN old \/ j = Len(old) + 1
  BY <1>1
<1>4. ASSUME NEW p \in Queues, NEW j \in DOMAIN cards'[p]
      PROVE  \/ j \in DOMAIN cards[p] /\ cards'[p][j] = cards[p][j]
             \/ p = q /\ j = Len(old) + 1 /\ cards'[p][j] = r
  BY <1>1, <1>2, <1>3
<1>5. ASSUME NEW p \in Queues, NEW id
      PROVE  CardIn(p, id)' <=> CardIn(p, id) \/ (p = q /\ r.id = id)
  BY <1>1, <1>2, <1>4 DEF CardIn
<1>6. CardsOnce'
  <2> SUFFICES ASSUME NEW p \in Queues, NEW t \in Queues, NEW j \in DOMAIN cards'[p], NEW k \in DOMAIN cards'[t],
                      cards'[p][j].id = cards'[t][k].id
               PROVE  p = t /\ j = k
    BY DEF CardsOnce
  <2>1. CASE (j \in DOMAIN cards[p] /\ cards'[p][j] = cards[p][j]) /\ (k \in DOMAIN cards[t] /\ cards'[t][k] = cards[t][k])
    BY <2>1 DEF CardsOnce
  <2>2. CASE cards'[p][j] = r /\ k \in DOMAIN cards[t] /\ cards'[t][k] = cards[t][k]
    BY <2>2 DEF CardOf, CardIn
  <2>3. CASE cards'[t][k] = r /\ j \in DOMAIN cards[p] /\ cards'[p][j] = cards[p][j]
    BY <2>3 DEF CardOf, CardIn
  <2>4. CASE p = q /\ t = q /\ j = Len(old) + 1 /\ k = Len(old) + 1
    BY <2>4
  <2> QED
    BY <1>4, <2>1, <2>2, <2>3, <2>4
<1> QED
  BY <1>4, <1>5, <1>6

-----------------------------------------------------------------------------
(* Room for the cards that come. *)

LEMMA FewerAhead ==
    ASSUME NEW S \in SUBSET Ids, NEW T \in SUBSET Ids, S \subseteq T, Cardinality(T) < MaxPending
    PROVE  Cardinality(S) < MaxPending
<1>1. IsFiniteSet(Ids)
  BY FS_Interval, Limits DEF Ids
<1>2. IsFiniteSet(T) /\ IsFiniteSet(S)
  BY <1>1, FS_Subset
<1>3. Cardinality(S) <= Cardinality(T)
  BY <1>2, FS_Subset
<1>4. Cardinality(S) \in Nat /\ Cardinality(T) \in Nat
  BY <1>2, FS_CardinalityType
<1> QED
  BY <1>3, <1>4, Limits

LEMMA RoomKept ==
    ASSUME RoomAhead, UNCHANGED events, \A q \in Queues : \A id : CardIn(q, id)' => CardIn(q, id),
           \A k \in DOMAIN events : events[k].kind = "ask" => QueueOf(events[k].request) \in Queues
    PROVE  RoomAhead'
<1> SUFFICES ASSUME NEW k \in DOMAIN events, events[k].kind = "ask"
             PROVE  Cardinality(Ahead(QueueOf(events[k].request), k)') < MaxPending
  BY DEF RoomAhead
<1> DEFINE q == QueueOf(events[k].request)
<1>1. q \in Queues
  OBVIOUS
<1>2. Ahead(q, k)' \subseteq Ahead(q, k) /\ Ahead(q, k)' \subseteq Ids /\ Ahead(q, k) \subseteq Ids
  BY <1>1 DEF Ahead, Is
<1> QED
  BY <1>2, FewerAhead DEF RoomAhead

LEMMA RoomAppended ==
    ASSUME RoomAhead, events \in Seq(AnyEvent), UNCHANGED cards,
           NEW e \in AnyEvent, events' = Append(events, e),
           NEW T \in SUBSET Ids, e.kind = "ask" => Cardinality(T) < MaxPending,
           \A id \in Ids : (CardOf(id) \/ OnItsWay(id)) /\ ~Resolving(id) => id \in T,
           EventTypes'
    PROVE  RoomAhead'
<1>0. ASSUME NEW k \in DOMAIN events', events'[k].kind = "ask" PROVE QueueOf(events'[k].request) \in Queues
  <2>1. events'[k] \in AnyEvent
    BY DEF EventTypes
  <2>2. events'[k].request \in Requests
    BY <1>0, <2>1 DEF AnyEvent, Lost, Connected
  <2> QED
    BY <2>2, KindsHaveQueues
<1>1. /\ Len(events) \in Nat
      /\ DOMAIN events' = 1..(Len(events) + 1) /\ DOMAIN events = 1..Len(events)
      /\ events'[Len(events) + 1] = e /\ \A i \in 1..Len(events) : events'[i] = events[i]
  BY PuttingLast
<1> SUFFICES ASSUME NEW k \in DOMAIN events', events'[k].kind = "ask",
                    NEW q \in Queues, QueueOf(events'[k].request) = q
             PROVE  Cardinality(Ahead(q, k)') < MaxPending
  BY <1>0 DEF RoomAhead
<1>2. k \in 1..(Len(events) + 1) /\ \A l \in 1..(k - 1) : l \in DOMAIN events /\ events'[l] = events[l]
  BY <1>1
<1>3. Ahead(q, k)' = Ahead(q, k)
  <2>1. \A id : CardIn(q, id)' <=> CardIn(q, id)
    BY DEF CardIn
  <2> QED
    BY <1>2, <2>1 DEF Ahead, Is
<1>4. CASE k = Len(events) + 1
  <2>1. Ahead(q, k) \subseteq T
    <3> SUFFICES ASSUME NEW id \in Ahead(q, k) PROVE id \in T
      OBVIOUS
    <3>1. id \in Ids /\ (CardOf(id) \/ OnItsWay(id))
      BY <1>2 DEF Ahead, CardOf, OnItsWay
    <3>2. ~Resolving(id)
      BY <1>1, <1>4 DEF Ahead, Resolving
    <3> QED
      BY <3>1, <3>2
  <2>2. Ahead(q, k) \in SUBSET Ids
    BY DEF Ahead
  <2>3. e.kind = "ask"
    BY <1>1, <1>4
  <2> QED
    BY <1>3, <2>1, <2>2, <2>3, FewerAhead
<1>5. CASE k \in 1..Len(events)
  <2>1. Cardinality(Ahead(q, k)) < MaxPending
    BY <1>1, <1>5 DEF RoomAhead
  <2> QED
    BY <1>3, <2>1
<1> QED
  BY <1>2, <1>4, <1>5

LEMMA RoomShifted ==
    ASSUME RoomAhead, events \in Seq(AnyEvent), events # <<>>, events' = Tail(events),
           \A q \in Queues : \A id : CardIn(q, id)' =>
              CardIn(q, id) \/ (Is(1, "ask", id) /\ QueueOf(events[1].request) = q),
           \A id : Is(1, "resolve", id) => ~OnItsWay(id)' /\ \A q \in Queues : ~CardIn(q, id)',
           \A k \in DOMAIN events : events[k].kind = "ask" => QueueOf(events[k].request) \in Queues
    PROVE  RoomAhead'
<1>1. /\ Len(events) \in Nat \ {0}
      /\ DOMAIN events' = 1..(Len(events) - 1) /\ DOMAIN events = 1..Len(events)
      /\ \A i \in 1..(Len(events) - 1) : events'[i] = events[i + 1]
  BY TakingFirst
<1>2. ASSUME NEW k \in DOMAIN events'
      PROVE  k \in Nat /\ k + 1 \in DOMAIN events /\ events'[k] = events[k + 1]
  BY <1>1
<1> SUFFICES ASSUME NEW k \in DOMAIN events', events'[k].kind = "ask",
                    NEW q, QueueOf(events'[k].request) = q
             PROVE  Cardinality(Ahead(q, k)') < MaxPending
  BY DEF RoomAhead
<1>3. q \in Queues
  BY <1>2
<1>4. \A l \in 1..(k - 1) : l \in DOMAIN events' /\ l + 1 \in 1..((k + 1) - 1) /\ events'[l] = events[l + 1]
  BY <1>1, <1>2
<1>5. Ahead(q, k)' \subseteq Ahead(q, k + 1)
  <2> SUFFICES ASSUME NEW id \in Ahead(q, k)' PROVE id \in Ahead(q, k + 1)
    OBVIOUS
  <2>1. /\ id \in Ids
        /\ CardIn(q, id)' \/ \E l \in 1..(k - 1) : Is(l, "ask", id)' /\ QueueOf(events'[l].request) = q
        /\ \A l \in 1..(k - 1) : ~Is(l, "resolve", id)'
    BY DEF Ahead
  <2>2. CardIn(q, id) \/ \E l \in 1..((k + 1) - 1) : Is(l, "ask", id) /\ QueueOf(events[l].request) = q
    <3>1. CASE CardIn(q, id)'
      <4>1. 1 \in 1..((k + 1) - 1)
        BY <1>1, <1>2
      <4> QED
        BY <1>3, <3>1, <4>1
    <3>2. CASE \E l \in 1..(k - 1) : Is(l, "ask", id)' /\ QueueOf(events'[l].request) = q
      <4>1. PICK l \in 1..(k - 1) : Is(l, "ask", id)' /\ QueueOf(events'[l].request) = q
        BY <3>2
      <4>2. l + 1 \in 1..((k + 1) - 1) /\ Is(l + 1, "ask", id) /\ QueueOf(events[l + 1].request) = q
        BY <1>4, <4>1 DEF Is
      <4> QED
        BY <4>2
    <3> QED
      BY <2>1, <3>1, <3>2
  <2>3. ASSUME NEW l \in 1..((k + 1) - 1), Is(l, "resolve", id) PROVE FALSE
    <3>1. CASE l = 1
      <4>1. ~OnItsWay(id)' /\ ~CardIn(q, id)'
        BY <1>3, <2>3, <3>1
      <4>2. \A m \in 1..(k - 1) : ~Is(m, "ask", id)'
        BY <1>4, <4>1 DEF OnItsWay
      <4> QED
        BY <2>1, <4>1, <4>2
    <3>2. CASE l # 1
      <4>1. l - 1 \in 1..(k - 1) /\ (l - 1) + 1 = l
        BY <1>2, <2>3, <3>2
      <4>2. Is(l - 1, "resolve", id)'
        BY <1>4, <2>3, <4>1 DEF Is
      <4> QED
        BY <2>1, <4>1, <4>2
    <3> QED
      BY <3>1, <3>2
  <2> QED
    BY <2>1, <2>2, <2>3 DEF Ahead
<1>6. Cardinality(Ahead(q, k + 1)) < MaxPending
  BY <1>2 DEF RoomAhead
<1>7. Ahead(q, k + 1) \in SUBSET Ids /\ Ahead(q, k)' \in SUBSET Ids
  BY DEF Ahead
<1> QED
  BY <1>5, <1>6, <1>7, FewerAhead

(* So the queue of the card that comes first has room for it. *)
LEMMA FirstHasRoom ==
    ASSUME RoomAhead, CardsTyped, CardsOnce, events \in Seq(AnyEvent), events # <<>>, events[1].kind = "ask",
           NEW q \in Queues, QueueOf(events[1].request) = q
    PROVE  Len(cards[q]) < MaxPending
<1>1. 1 \in DOMAIN events
  BY TakingFirst
<1>2. Cardinality(Ahead(q, 1)) < MaxPending
  BY <1>1 DEF RoomAhead
<1>3. cards[q] \in Seq(Requests)
  BY DEF CardsTyped
<1> DEFINE s == cards[q]
           f == [i \in 1..Len(s) |-> s[i].id]
<1>4. DOMAIN s = 1..Len(s) /\ Len(s) \in Nat
  BY <1>3
<1>5. f \in [1..Len(s) -> Ahead(q, 1)]
  <2> SUFFICES ASSUME NEW i \in 1..Len(s) PROVE s[i].id \in Ahead(q, 1)
    OBVIOUS
  <2>1. s[i] \in Requests
    BY <1>3, <1>4
  <2>2. s[i].id \in Ids /\ CardIn(q, s[i].id)
    BY <1>4, <2>1 DEF Requests, CardIn
  <2>3. 1..(1 - 1) = {}
    OBVIOUS
  <2> HIDE DEF s
  <2> QED
    BY <2>2, <2>3 DEF Ahead
<1>6. \A i, j \in 1..Len(s) : f[i] = f[j] => i = j
  BY <1>4 DEF CardsOnce
<1>7. IsFiniteSet(Ids) /\ Ahead(q, 1) \in SUBSET Ids
  <2>1. IsFiniteSet(Ids)
    BY FS_Interval, Limits DEF Ids
  <2>2. Ahead(q, 1) \in SUBSET Ids
    BY DEF Ahead
  <2> QED
    BY <2>1, <2>2
<1>8. IsFiniteSet(Ahead(q, 1))
  BY <1>7, FS_Subset
<1> HIDE DEF f, s
<1>9. f \in Injection(1..Len(s), Ahead(q, 1))
  BY <1>5, <1>6 DEF Injection, IsInjective
<1>10. Cardinality(1..Len(s)) <= Cardinality(Ahead(q, 1))
  BY <1>8, <1>9, FS_Injection
<1>11. Cardinality(1..Len(s)) = Len(s)
  <2>1. 1 \in Int /\ Len(s) \in Int
    BY <1>4
  <2>2. Cardinality(1..Len(s)) = IF 1 > Len(s) THEN 0 ELSE Len(s) - 1 + 1
    BY <2>1, FS_Interval
  <2> QED
    BY <1>4, <2>2
<1>12. Cardinality(Ahead(q, 1)) \in Nat
  BY <1>8, FS_CardinalityType
<1> QED
  BY <1>2, <1>4, <1>10, <1>11, <1>12, Limits DEF s

-----------------------------------------------------------------------------
(* What each action does to the places, while the first app-server is up.    *)

LEMMA TableFacts ==
    ASSUME IInv, Types
    PROVE  /\ read \in Nat /\ 1..read \subseteq Ids
           /\ \A i \in 1..read : asked[i].id = i
           /\ \A id \in DOMAIN pending : id \in 1..read /\ pending[id] = asked[id]
           /\ cancelling \subseteq DOMAIN pending
<1>1. Len(asked) \in Nat /\ read \in 0..Len(asked) /\ Len(asked) <= MaxAsks
  BY DEF Types, BackendTypes
<1>2. 1..read \subseteq Ids
  BY <1>1, Limits DEF Ids
<1> QED
  BY <1>1, <1>2 DEF IInv, TableInv

LEMMA EventFacts ==
    ASSUME EventTypes
    PROVE  /\ events \in Seq(AnyEvent)
           /\ \A k \in DOMAIN events : events[k] \in AnyEvent
           /\ \A k \in DOMAIN events : events[k].kind = "ask" =>
                /\ events[k].request \in Requests /\ events[k].id = events[k].request.id
                /\ QueueOf(events[k].request) \in Queues
<1>1. events \in Seq(AnyEvent) /\ \A k \in DOMAIN events : events[k] \in AnyEvent
  BY DEF EventTypes
<1>2. ASSUME NEW k \in DOMAIN events, events[k].kind = "ask"
      PROVE  events[k].request \in Requests /\ events[k].id = events[k].request.id
  BY <1>1, <1>2 DEF AnyEvent, Lost, Connected, EventTypes
<1> QED
  BY <1>1, <1>2, KindsHaveQueues

LEMMA PlacesKnown ==
    ASSUME CardsOk, EventTypes, NEW id, CardOf(id) \/ OnItsWay(id) \/ Decided(id) \/ Resolving(id)
    PROVE  id \in 1..read
<1>1. CardsKnown /\ EventsKnown
  BY DEF CardsOk
<1>2. CASE CardOf(id)
  BY <1>1, <1>2 DEF CardOf, CardIn, CardsKnown, Known
<1>3. CASE OnItsWay(id)
  BY <1>1, <1>3, EventFacts DEF OnItsWay, Is, EventsKnown, Known
<1>4. CASE Decided(id)
  BY <1>1, <1>4 DEF Decided, CardsKnown, Known
<1>5. CASE Resolving(id)
  BY <1>1, <1>5 DEF Resolving, Is, EventsKnown
<1> QED
  BY <1>2, <1>3, <1>4, <1>5

(* Neither cards nor events nor decisions move. *)
LEMMA NothingMoves ==
    ASSUME CardsOk, EventTypes, UNCHANGED <<events, cards, commands, lossPending>>,
           \A i \in 1..read : i \in 1..read' /\ asked'[i] = asked[i],
           DOMAIN pending' = DOMAIN pending, \A id \in cancelling' : asked'[id].kind = "tool"
    PROVE  CardsOk'
<1>1. CardsKnown' /\ EventsKnown' /\ StopsKnown'
  BY DEF CardsOk, CardsKnown, EventsKnown, StopsKnown, Known
<1>2. CardsOnce' /\ AsksOnce' /\ DecidedOnce' /\ ResolvedLast'
  BY DEF CardsOk, CardsOnce, AsksOnce, DecidedOnce, ResolvedLast
<1>3. \A id : (CardOf(id)' <=> CardOf(id)) /\ (OnItsWay(id)' <=> OnItsWay(id))
  BY DEF CardOf, CardIn, OnItsWay, Is
<1>4. \A id : (Decided(id)' <=> Decided(id)) /\ (Resolving(id)' <=> Resolving(id))
  BY DEF Decided, Resolving, Is
<1>5. \A q \in Queues : \A id : CardIn(q, id)' => CardIn(q, id)
  BY DEF CardIn
<1>6. RoomAhead'
  BY <1>5, RoomKept, EventFacts DEF CardsOk
<1>7. Apart' /\ HasPlace' /\ EndedIsResolved'
  BY <1>3, <1>4 DEF CardsOk, Apart, HasPlace, EndedIsResolved
<1> QED
  BY <1>1, <1>2, <1>6, <1>7 DEF CardsOk

(* A request is asked: its card is on its way. *)
LEMMA RegisteringKeepsCards ==
    ASSUME IInv, Types, CardsOk, Register
    PROVE  CardsOk'
<1> DEFINE r == asked[read + 1]
<1>1. /\ read + 1 \in 1..Len(asked) /\ read' = read + 1 /\ cancelling = {} /\ read + 1 \notin DOMAIN pending
      /\ Received = r /\ r.id = read + 1
  BY ReadNext DEF Register
<1>2. /\ Registrable(r) /\ pending' = With(r) /\ events' = Append(events, Ask(r))
      /\ UNCHANGED <<asked, cards, commands, lossPending, cancelling>>
  BY <1>1 DEF Register, uiVars
<1>3. r \in Requests
  BY <1>1, ReceivingTypes DEF Register
<1>4. Ask(r) \in AnyEvent /\ Ask(r).kind = "ask" /\ Ask(r).request = r /\ Ask(r).id = r.id
  BY <1>3, EventsAre
<1>5. DOMAIN pending' = DOMAIN pending \cup {read + 1}
  BY <1>1, <1>2, PutIn
<1>6. read \in Nat /\ events \in Seq(AnyEvent) /\ EventTypes
  BY TableFacts DEF Types, EventTypes
<1>7. read + 1 \notin 1..read
  BY <1>6
<1>8. ~CardOf(read + 1) /\ ~OnItsWay(read + 1) /\ ~Decided(read + 1) /\ ~Resolving(read + 1)
  BY <1>6, <1>7, PlacesKnown
<1> DEFINE e == Ask(r)
<1>9. /\ AsksOnce' /\ ResolvedLast'
      /\ \A id : OnItsWay(id)' <=> OnItsWay(id) \/ (e.kind = "ask" /\ e.id = id)
      /\ \A id : Resolving(id)' <=> Resolving(id) \/ (e.kind = "resolve" /\ e.id = id)
  <2>1. e \in AnyEvent /\ events' = Append(events, e) /\ (e.kind = "ask" => ~OnItsWay(e.id) /\ ~Resolving(e.id))
    BY <1>1, <1>2, <1>4, <1>8
  <2> HIDE DEF e
  <2> QED
    BY <1>6, <2>1, EventsGrow DEF CardsOk
<1>10. \A id : (OnItsWay(id)' <=> OnItsWay(id) \/ id = read + 1) /\ (Resolving(id)' <=> Resolving(id))
  BY <1>1, <1>4, <1>9
<1>11. \A id : (CardOf(id)' <=> CardOf(id)) /\ (Decided(id)' <=> Decided(id))
  BY <1>2 DEF CardOf, CardIn, Decided
<1>12. CardsKnown' /\ StopsKnown' /\ CardsOnce' /\ DecidedOnce'
  BY <1>1, <1>2, <1>6 DEF CardsOk, CardsKnown, StopsKnown, Known, CardsOnce, DecidedOnce
<1>13. EventsKnown'
  <2> SUFFICES ASSUME NEW k \in DOMAIN events'
               PROVE  /\ events'[k].kind # "lost"
                      /\ events'[k].kind = "ask" => Known(events[k].request)'
                      /\ events'[k].kind = "resolve" => /\ events'[k].id \in (1..read') \ DOMAIN pending'
                                                        /\ asked'[events'[k].id].kind = "tool"
    BY DEF EventsKnown
  <2>1. /\ Len(events) \in Nat /\ DOMAIN events' = 1..(Len(events) + 1) /\ DOMAIN events = 1..Len(events)
        /\ events'[Len(events) + 1] = e /\ \A i \in 1..Len(events) : events'[i] = events[i]
    BY <1>2, <1>4, <1>6, PuttingLast
  <2>2. CASE k \in DOMAIN events
    BY <1>1, <1>2, <1>5, <1>6, <1>7, <2>1, <2>2 DEF CardsOk, EventsKnown, Known
  <2>3. CASE k = Len(events) + 1
    <3>1. read + 1 \in 1..read'
      BY <1>1, <1>6
    <3>2. events'[k].kind = "ask" /\ events'[k].request = r
      BY <1>4, <2>1, <2>3
    <3>3. Known(events[k].request)'
      BY <1>1, <1>2, <3>1, <3>2 DEF Known
    <3> QED
      BY <3>2, <3>3
  <2> QED
    BY <2>1, <2>2, <2>3
<1>14. Apart' /\ HasPlace' /\ EndedIsResolved'
  BY <1>5, <1>8, <1>10, <1>11 DEF CardsOk, Apart, HasPlace, EndedIsResolved
<1>15. RoomAhead'
  <2>1. DOMAIN pending \in SUBSET Ids /\ Cardinality(DOMAIN pending) < MaxPending
    BY <1>2 DEF Registrable, Types, BackendTypes
  <2>2. \A id \in Ids : (CardOf(id) \/ OnItsWay(id)) /\ ~Resolving(id) => id \in DOMAIN pending
    BY DEF CardsOk, EndedIsResolved
  <2>3. EventTypes'
    BY RegisteringKeepsTypes DEF Types
  <2>5. RoomAhead /\ UNCHANGED cards
    BY <1>2 DEF CardsOk
  <2> QED
    BY <1>2, <1>4, <1>6, <2>1, <2>2, <2>3, <2>5, RoomAppended
<1> QED
  BY <1>9, <1>12, <1>13, <1>14, <1>15 DEF CardsOk

(* A decision is taken whose request leaves the table, or had left it.       *)
LEMMA DecisionLeaves ==
    ASSUME IInv, Types, CardsOk, Arrives(Head(commands)),
           UNCHANGED <<asked, read, cards, events, lossPending, cancelling>>,
           DOMAIN pending' = DOMAIN pending \ {Head(commands).card.id}
    PROVE  CardsOk'
<1> DEFINE d == Head(commands)
<1>1. commands \in Seq(Decisions) /\ commands # <<>> /\ commands' = Tail(commands) /\ cancelling = {}
  BY DEF Arrives, Types, CardTypes, BackendFree
<1>2. /\ DecidedOnce' /\ d = commands[1] /\ 1 \in DOMAIN commands
      /\ \A id : Decided(id) <=> Decided(id)' \/ d.card.id = id
      /\ \A id : d.card.id = id => ~Decided(id)'
      /\ \A j \in DOMAIN commands' : \E i \in DOMAIN commands : commands'[j] = commands[i]
  BY <1>1, CommandsShrink DEF CardsOk
<1>3. Decided(d.card.id)
  BY <1>2
<1> HIDE DEF d
<1>4. DOMAIN pending' = DOMAIN pending \ {d.card.id}
  BY DEF d
<1>5. CardsKnown' /\ EventsKnown' /\ StopsKnown'
  BY <1>1, <1>2, <1>4 DEF CardsOk, CardsKnown, EventsKnown, StopsKnown, Known
<1>6. CardsOnce' /\ AsksOnce' /\ ResolvedLast'
  BY DEF CardsOk, CardsOnce, AsksOnce, ResolvedLast
<1>7. \A id : (CardOf(id)' <=> CardOf(id)) /\ (OnItsWay(id)' <=> OnItsWay(id)) /\ (Resolving(id)' <=> Resolving(id))
  BY DEF CardOf, CardIn, OnItsWay, Resolving, Is
<1>8. Apart' /\ HasPlace' /\ EndedIsResolved'
  BY <1>2, <1>3, <1>4, <1>7 DEF CardsOk, Apart, HasPlace, EndedIsResolved
<1>9. RoomAhead'
  <2>1. \A q \in Queues : \A id : CardIn(q, id)' => CardIn(q, id)
    BY DEF CardIn
  <2> QED
    BY <2>1, RoomKept, EventFacts DEF CardsOk, Types
<1> QED
  BY <1>2, <1>5, <1>6, <1>8, <1>9 DEF CardsOk

LEMMA FirstDecisionKnown ==
    ASSUME IInv, Types, CardsOk, commands # <<>>
    PROVE  /\ Head(commands).card \in Requests /\ Known(Head(commands).card)
           /\ Decided(Head(commands).card.id)
<1>1. commands \in Seq(Decisions)
  BY DEF Types, CardTypes
<1>2. Head(commands) = commands[1] /\ 1 \in DOMAIN commands /\ Head(commands) \in Decisions
  BY <1>1, TakingFirst
<1> QED
  BY <1>2 DEF Decisions, CardsOk, CardsKnown, Decided

LEMMA IgnoringKeepsCards == ASSUME IInv, Types, CardsOk, RespondIgnored PROVE CardsOk'
<1> DEFINE card == Head(commands).card
<1>1. /\ Arrives(Head(commands)) /\ UNCHANGED <<asked, read, cards, events, lossPending, cancelling, pending>>
      /\ ~Answerable(card) /\ commands # <<>>
  BY DEF RespondIgnored, Arrives, notRespond, serverVars, uiVars
<1>2. Known(card)
  BY <1>1, FirstDecisionKnown
<1>3. card.id \notin DOMAIN pending
  <2> SUFFICES ASSUME card.id \in DOMAIN pending PROVE FALSE
    OBVIOUS
  <2>1. pending[card.id] = card
    BY <1>2, TableFacts DEF Known
  <2> QED
    BY <1>1, <2>1 DEF Answerable, Fits
<1>4. DOMAIN pending' = DOMAIN pending \ {card.id}
  BY <1>1, <1>3
<1> QED
  BY <1>1, <1>4, DecisionLeaves

LEMMA RespondingKeepsCards == ASSUME IInv, Types, CardsOk, Respond PROVE CardsOk'
<1> DEFINE card == Head(commands).card
<1>1. /\ Arrives(Head(commands)) /\ UNCHANGED <<asked, read, cards, events, lossPending, cancelling>>
      /\ pending' = Without(card.id)
  BY DEF Respond, notRespond, serverVars, uiVars
<1>2. DOMAIN pending' = DOMAIN pending \ {card.id}
  BY <1>1, TakenOut
<1> QED
  BY <1>1, <1>2, DecisionLeaves

(* The answer failed: the card of the entry is on its way again.             *)
LEMMA FailingKeepsCards == ASSUME IInv, Types, CardsOk, RespondFails, forgotten' = {} PROVE CardsOk'
<1> DEFINE d == Head(commands)
           card == d.card
           c == card.id
<1>1. /\ Arrives(d) /\ UNCHANGED <<asked, read, cards, lossPending, cancelling>>
      /\ Restored(card) /\ commands # <<>> /\ c \in DOMAIN pending /\ cancelling = {}
      /\ commands' = Tail(commands)
  BY DEF RespondFails, Arrives, notRespond, serverVars, uiVars, Answerable, BackendFree
<1>2. Known(card) /\ card \in Requests /\ Decided(c)
  BY <1>1, FirstDecisionKnown
<1>3. pending[c] = card
  BY <1>1, <1>2, TableFacts DEF Known
<1>4. EventTypes /\ EventTypes' /\ commands \in Seq(Decisions)
  BY FailingKeepsTypes DEF Types, CardTypes
<1>5. /\ DecidedOnce'
      /\ \A id : Decided(id) <=> Decided(id)' \/ c = id
      /\ \A id : c = id => ~Decided(id)'
      /\ \A j \in DOMAIN commands' : \E i \in DOMAIN commands : commands'[j] = commands[i]
  BY <1>1, <1>4, CommandsShrink DEF CardsOk
<1> HIDE DEF d
<1>6. UNCHANGED pending /\ EventRoom /\ events' = Append(events, Ask(card))
  BY <1>1, <1>3 DEF Restored, GivenUp, EmitAbout
<1>7. Ask(card) \in AnyEvent /\ Ask(card).kind = "ask" /\ Ask(card).request = card /\ Ask(card).id = c
  BY <1>2, EventsAre DEF Ask
<1> DEFINE e == Ask(card)
<1>8. ~OnItsWay(c) /\ ~CardOf(c) /\ ~Resolving(c)
  <2>1. ~OnItsWay(c) /\ ~CardOf(c)
    BY <1>2 DEF CardsOk, Apart
  <2>2. ~Resolving(c)
    BY <1>1 DEF CardsOk, EventsKnown, Resolving, Is
  <2> QED
    BY <2>1, <2>2
<1> HIDE DEF c
<1>9. /\ AsksOnce' /\ ResolvedLast'
      /\ \A id : OnItsWay(id)' <=> OnItsWay(id) \/ (e.kind = "ask" /\ e.id = id)
      /\ \A id : Resolving(id)' <=> Resolving(id) \/ (e.kind = "resolve" /\ e.id = id)
  <2>1. e \in AnyEvent /\ events' = Append(events, e) /\ (e.kind = "ask" => ~OnItsWay(e.id) /\ ~Resolving(e.id))
    BY <1>6, <1>7, <1>8
  <2> HIDE DEF e
  <2> QED
    BY <1>4, <2>1, EventsGrow, EventFacts DEF CardsOk
<1>10. \A id : (OnItsWay(id)' <=> OnItsWay(id) \/ id = c) /\ (Resolving(id)' <=> Resolving(id))
  BY <1>7, <1>9
<1>11. \A id : CardOf(id)' <=> CardOf(id)
  BY <1>1 DEF CardOf, CardIn
<1>12. CardsKnown' /\ StopsKnown' /\ CardsOnce'
  BY <1>1, <1>5 DEF CardsOk, CardsKnown, StopsKnown, Known, CardsOnce
<1>13. EventsKnown'
  <2>1. /\ Len(events) \in Nat /\ DOMAIN events' = 1..(Len(events) + 1) /\ DOMAIN events = 1..Len(events)
        /\ events'[Len(events) + 1] = e /\ \A i \in 1..Len(events) : events'[i] = events[i]
    <3>1. events \in Seq(AnyEvent)
      BY <1>4 DEF EventTypes
    <3> QED
      BY <1>6, <1>7, <3>1, PuttingLast
  <2> SUFFICES ASSUME NEW k \in DOMAIN events'
               PROVE  /\ events'[k].kind # "lost"
                      /\ events'[k].kind = "ask" => Known(events[k].request)'
                      /\ events'[k].kind = "resolve" => /\ events'[k].id \in (1..read') \ DOMAIN pending'
                                                        /\ asked'[events'[k].id].kind = "tool"
    BY DEF EventsKnown
  <2>2. CASE k \in DOMAIN events
    BY <1>1, <1>6, <2>1, <2>2 DEF CardsOk, EventsKnown, Known
  <2>3. CASE k = Len(events) + 1
    <3>1. events'[k].kind = "ask" /\ events'[k].request = card
      BY <1>7, <2>1, <2>3
    <3>2. Known(events[k].request)'
      BY <1>1, <1>2, <3>1 DEF Known
    <3> QED
      BY <3>1, <3>2
  <2> QED
    BY <2>1, <2>2, <2>3
<1>14. Apart' /\ HasPlace' /\ EndedIsResolved'
  BY <1>1, <1>5, <1>6, <1>8, <1>10, <1>11 DEF CardsOk, Apart, HasPlace, EndedIsResolved
<1>15. RoomAhead'
  <2> DEFINE T == DOMAIN pending \ {c}
  <2>1. DOMAIN pending \in SUBSET Ids /\ Cardinality(DOMAIN pending) <= MaxPending /\ c \in Ids
    BY <1>1 DEF Types, BackendTypes
  <2>2. Cardinality(T) < MaxPending
    <3>1. IsFiniteSet(DOMAIN pending) /\ Cardinality(DOMAIN pending) \in Nat
      BY <2>1, TableKeepsLimit
    <3>2. Cardinality(T) = Cardinality(DOMAIN pending) - 1
      BY <1>1, <3>1, FS_RemoveElement
    <3> QED
      BY <2>1, <3>1, <3>2, Limits
  <2>3. \A id \in Ids : (CardOf(id) \/ OnItsWay(id)) /\ ~Resolving(id) => id \in T
    BY <1>8 DEF CardsOk, EndedIsResolved
  <2>4. RoomAhead /\ UNCHANGED cards /\ T \in SUBSET Ids /\ events \in Seq(AnyEvent)
    BY <1>1, <1>4, <2>1 DEF CardsOk, EventTypes
  <2> HIDE DEF T
  <2> QED
    BY <1>4, <1>6, <1>7, <2>2, <2>3, <2>4, RoomAppended
<1> QED
  BY <1>5, <1>9, <1>12, <1>13, <1>14, <1>15 DEF CardsOk

(* A tool is cancelled: its card is taken down after it has been put up.     *)
LEMMA CancellingKeepsCards == ASSUME IInv, Types, CardsOk, CancelTool, forgotten' = {} PROVE CardsOk'
<1>1. PICK c \in cancelling :
        /\ cancelling' = cancelling \ {c} /\ pending' = Without(c)
        /\ EventRoom /\ events' = Append(events, Resolve(c))
  BY DEF CancelTool, EmitAbout
<1>2. UNCHANGED <<asked, read, cards, commands, lossPending>>
  BY DEF CancelTool, serverVars, uiVars
<1>3. c \in DOMAIN pending /\ c \in 1..read /\ c \in Ids /\ asked[c].kind = "tool"
  BY TableFacts DEF CardsOk, StopsKnown
<1>4. DOMAIN pending' = DOMAIN pending \ {c}
  BY <1>1, TakenOut
<1>5. EventTypes /\ EventTypes' /\ events \in Seq(AnyEvent)
  BY CancellingKeepsTypes DEF Types, EventTypes
<1> DEFINE e == Resolve(c)
<1>6. e \in AnyEvent /\ e.kind = "resolve" /\ e.id = c
  BY <1>3, EventsAre
<1> HIDE DEF e
<1>7. events' = Append(events, e)
  BY <1>1 DEF e
<1>8. /\ AsksOnce' /\ ResolvedLast'
      /\ \A id : OnItsWay(id)' <=> OnItsWay(id) \/ (e.kind = "ask" /\ e.id = id)
      /\ \A id : Resolving(id)' <=> Resolving(id) \/ (e.kind = "resolve" /\ e.id = id)
  BY <1>5, <1>6, <1>7, EventsGrow DEF CardsOk
<1>9. \A id : (OnItsWay(id)' <=> OnItsWay(id)) /\ (Resolving(id)' <=> Resolving(id) \/ id = c)
  BY <1>6, <1>8
<1>10. \A id : (CardOf(id)' <=> CardOf(id)) /\ (Decided(id)' <=> Decided(id))
  BY <1>2 DEF CardOf, CardIn, Decided
<1>11. CardsKnown' /\ StopsKnown' /\ CardsOnce' /\ DecidedOnce'
  BY <1>1, <1>2 DEF CardsOk, CardsKnown, StopsKnown, Known, CardsOnce, DecidedOnce
<1>12. EventsKnown'
  <2>1. /\ Len(events) \in Nat /\ DOMAIN events' = 1..(Len(events) + 1) /\ DOMAIN events = 1..Len(events)
        /\ events'[Len(events) + 1] = e /\ \A i \in 1..Len(events) : events'[i] = events[i]
    BY <1>5, <1>6, <1>7, PuttingLast
  <2> SUFFICES ASSUME NEW k \in DOMAIN events'
               PROVE  /\ events'[k].kind # "lost"
                      /\ events'[k].kind = "ask" => Known(events[k].request)'
                      /\ events'[k].kind = "resolve" => /\ events'[k].id \in (1..read') \ DOMAIN pending'
                                                        /\ asked'[events'[k].id].kind = "tool"
    BY DEF EventsKnown
  <2>2. CASE k \in DOMAIN events
    BY <1>2, <1>4, <2>1, <2>2 DEF CardsOk, EventsKnown, Known
  <2>3. CASE k = Len(events) + 1
    BY <1>2, <1>3, <1>4, <1>6, <2>1, <2>3
  <2> QED
    BY <2>1, <2>2, <2>3
<1>13. Apart' /\ HasPlace' /\ EndedIsResolved'
  BY <1>4, <1>9, <1>10 DEF CardsOk, Apart, HasPlace, EndedIsResolved
<1>14. RoomAhead'
  <2>1. DOMAIN pending \in SUBSET Ids /\ e.kind # "ask" /\ UNCHANGED cards
    BY <1>2, <1>6 DEF Types, BackendTypes
  <2>2. \A id \in Ids : (CardOf(id) \/ OnItsWay(id)) /\ ~Resolving(id) => id \in DOMAIN pending
    BY DEF CardsOk, EndedIsResolved
  <2> QED
    BY <1>5, <1>6, <1>7, <2>1, <2>2, RoomAppended DEF CardsOk
<1> QED
  BY <1>8, <1>11, <1>12, <1>13, <1>14 DEF CardsOk

(* The UI takes an event: what was on its way before it is not any more.     *)
LEMMA FirstEventGoes ==
    ASSUME IInv, Types, CardsOk, NEW kind, NextEvent(kind), UNCHANGED <<asked, read, pending, cancelling>>
    PROVE  LET e == Head(events)
           IN  /\ EventsKnown' /\ StopsKnown' /\ AsksOnce' /\ ResolvedLast'
               /\ e = events[1] /\ 1 \in DOMAIN events /\ e.kind = kind
               /\ events \in Seq(AnyEvent) /\ events # <<>> /\ events' = Tail(events)
               /\ \A id : OnItsWay(id) <=> OnItsWay(id)' \/ (e.kind = "ask" /\ e.id = id)
               /\ \A id : Resolving(id) <=> Resolving(id)' \/ (e.kind = "resolve" /\ e.id = id)
               /\ \A id : e.kind \in {"ask", "resolve"} /\ e.id = id => ~OnItsWay(id)'
<1> DEFINE e == Head(events)
<1>1. events \in Seq(AnyEvent) /\ events # <<>> /\ events' = Tail(events) /\ e.kind = kind /\ UNCHANGED lossPending
  BY DEF NextEvent, Types, EventTypes
<1>2. /\ AsksOnce' /\ ResolvedLast' /\ e = events[1] /\ 1 \in DOMAIN events
      /\ \A id : OnItsWay(id) <=> OnItsWay(id)' \/ (e.kind = "ask" /\ e.id = id)
      /\ \A id : Resolving(id) <=> Resolving(id)' \/ (e.kind = "resolve" /\ e.id = id)
      /\ \A id : e.kind \in {"ask", "resolve"} /\ e.id = id => ~OnItsWay(id)'
  BY <1>1, EventsShrink DEF CardsOk
<1>3. /\ Len(events) \in Nat \ {0} /\ DOMAIN events' = 1..(Len(events) - 1) /\ DOMAIN events = 1..Len(events)
      /\ \A i \in 1..(Len(events) - 1) : events'[i] = events[i + 1]
  BY <1>1, TakingFirst
<1>4. \A k \in DOMAIN events' : k + 1 \in DOMAIN events /\ events'[k] = events[k + 1]
  BY <1>3
<1>5. EventsKnown'
  BY <1>4 DEF CardsOk, EventsKnown, Known
<1>6. StopsKnown'
  BY <1>1 DEF CardsOk, StopsKnown
<1> QED
  BY <1>1, <1>2, <1>5, <1>6

LEMMA ConnectingKeepsCards == ASSUME IInv, Types, CardsOk, ReduceConnected PROVE CardsOk'
<1> DEFINE e == Head(events)
<1>1. NextEvent("connected") /\ UNCHANGED <<asked, read, pending, cancelling, cards, commands>>
  BY DEF ReduceConnected, notUi, serverVars
<1>2. /\ EventsKnown' /\ StopsKnown' /\ AsksOnce' /\ ResolvedLast'
      /\ e = events[1] /\ 1 \in DOMAIN events /\ e.kind = "connected"
      /\ events \in Seq(AnyEvent) /\ events # <<>> /\ events' = Tail(events)
      /\ \A id : OnItsWay(id) <=> OnItsWay(id)' \/ (e.kind = "ask" /\ e.id = id)
      /\ \A id : Resolving(id) <=> Resolving(id)' \/ (e.kind = "resolve" /\ e.id = id)
  BY <1>1, FirstEventGoes
<1>3. \A id : (OnItsWay(id)' <=> OnItsWay(id)) /\ (Resolving(id)' <=> Resolving(id))
  BY <1>2
<1>4. \A id : (CardOf(id)' <=> CardOf(id)) /\ (Decided(id)' <=> Decided(id))
  BY <1>1 DEF CardOf, CardIn, Decided
<1>5. CardsKnown' /\ CardsOnce' /\ DecidedOnce'
  BY <1>1 DEF CardsOk, CardsKnown, Known, CardsOnce, DecidedOnce
<1>6. Apart' /\ HasPlace' /\ EndedIsResolved'
  BY <1>1, <1>3, <1>4 DEF CardsOk, Apart, HasPlace, EndedIsResolved
<1>7. RoomAhead'
  <2>1. \A q \in Queues : \A id : CardIn(q, id)' => CardIn(q, id)
    BY <1>1 DEF CardIn
  <2>2. \A id : ~Is(1, "resolve", id)
    BY <1>2 DEF Is
  <2>3. \A k \in DOMAIN events : events[k].kind = "ask" => QueueOf(events[k].request) \in Queues
    BY EventFacts DEF Types
  <2> QED
    BY <1>2, <2>1, <2>2, <2>3, RoomShifted DEF CardsOk
<1> QED
  BY <1>2, <1>5, <1>6, <1>7 DEF CardsOk

(* A card comes, and there is room for it. *)
LEMMA ShowingKeepsCards == ASSUME IInv, Types, CardsOk, ReduceAsk PROVE CardsOk'
<1> DEFINE e == Head(events)
           r == e.request
           q == QueueOf(r)
<1>1. /\ NextEvent("ask") /\ UNCHANGED <<asked, read, pending, cancelling, commands>>
      /\ cards' = IF IsDuplicate(q, r) THEN cards ELSE [cards EXCEPT ![q] = Pushed(@, r)]
  BY DEF ReduceAsk, notUi, serverVars
<1>2. /\ EventsKnown' /\ StopsKnown' /\ AsksOnce' /\ ResolvedLast'
      /\ e = events[1] /\ 1 \in DOMAIN events /\ e.kind = "ask"
      /\ events \in Seq(AnyEvent) /\ events # <<>> /\ events' = Tail(events)
      /\ \A id : OnItsWay(id) <=> OnItsWay(id)' \/ (e.kind = "ask" /\ e.id = id)
      /\ \A id : Resolving(id) <=> Resolving(id)' \/ (e.kind = "resolve" /\ e.id = id)
      /\ \A id : e.kind \in {"ask", "resolve"} /\ e.id = id => ~OnItsWay(id)'
  BY <1>1, FirstEventGoes
<1> HIDE DEF e
<1>3. r \in Requests /\ e.id = r.id /\ q \in Queues /\ Known(r)
  BY <1>2, EventFacts DEF Types, CardsOk, EventsKnown
<1> HIDE DEF r
<1>4. OnItsWay(r.id) /\ ~CardOf(r.id) /\ ~Decided(r.id)
  <2>1. OnItsWay(r.id)
    BY <1>2, <1>3
  <2> QED
    BY <2>1 DEF CardsOk, Apart
<1>5. CardsTyped /\ cards[q] \in Seq(Requests)
  BY <1>3 DEF Types, CardTypes, CardsTyped
<1>6. ~IsDuplicate(q, r)
  BY <1>3, <1>4 DEF IsDuplicate, CardOf, CardIn
<1>7. Len(cards[q]) < MaxPending
  BY <1>2, <1>3, <1>5, FirstHasRoom DEF CardsOk, r
<1>8. cards' = [cards EXCEPT ![q] = Append(@, r)]
  <2>1. Pushed(cards[q], r) = Append(cards[q], r)
    BY <1>5, <1>7, Limits DEF Pushed
  <2> QED
    BY <1>1, <1>6, <2>1
<1> HIDE DEF q
<1>9. /\ CardsOnce'
      /\ \A p \in Queues : \A id : CardIn(p, id)' <=> CardIn(p, id) \/ (p = q /\ r.id = id)
      /\ \A p \in Queues : \A j \in DOMAIN cards'[p] :
            cards'[p][j] = r \/ \E k \in DOMAIN cards[p] : cards'[p][j] = cards[p][k]
  <2>1. q \in Queues /\ r \in Requests /\ ~CardOf(r.id) /\ CardsTyped
    BY <1>3, <1>4, <1>5
  <2>2. CardsOnce
    BY DEF CardsOk
  <2> QED
    <3>1. PutsLast(q, r)
      BY <1>8 DEF PutsLast
    <3> QED
      BY <2>1, <2>2, <3>1, CardsGrow
<1>10. \A id : CardOf(id)' <=> CardOf(id) \/ id = r.id
  BY <1>3, <1>9 DEF CardOf
<1>11. \A id : /\ OnItsWay(id) <=> (OnItsWay(id)' \/ id = r.id)
               /\ id = r.id => ~OnItsWay(id)'
               /\ Resolving(id) <=> Resolving(id)'
  BY <1>2, <1>3
<1>12. \A id : Decided(id)' <=> Decided(id)
  BY <1>1 DEF Decided
<1>13. CardsKnown'
  <2>1. ASSUME NEW p \in Queues, NEW j \in DOMAIN cards'[p]
        PROVE  cards'[p][j].id \in 1..read' /\ cards'[p][j] = asked'[cards'[p][j].id]
    <3>1. CASE cards'[p][j] = r
      BY <1>1, <1>3, <3>1 DEF Known
    <3>2. CASE \E k \in DOMAIN cards[p] : cards'[p][j] = cards[p][k]
      BY <1>1, <3>2 DEF CardsOk, CardsKnown, Known
    <3> QED
      BY <1>9, <3>1, <3>2
  <2> QED
    BY <1>1, <2>1 DEF CardsOk, CardsKnown, Known
<1>14. DecidedOnce'
  BY <1>1 DEF CardsOk, DecidedOnce
<1>15. Apart' /\ HasPlace' /\ EndedIsResolved'
  <2>1. Apart'
    BY <1>4, <1>10, <1>11, <1>12 DEF CardsOk, Apart
  <2>2. HasPlace'
    BY <1>1, <1>10, <1>11, <1>12 DEF CardsOk, HasPlace
  <2>3. EndedIsResolved'
    BY <1>1, <1>10, <1>11 DEF CardsOk, EndedIsResolved
  <2> QED
    BY <2>1, <2>2, <2>3
<1>16. RoomAhead'
  <2>1. \A p \in Queues : \A id : CardIn(p, id)' =>
            CardIn(p, id) \/ (Is(1, "ask", id) /\ QueueOf(events[1].request) = p)
    BY <1>2, <1>3, <1>9 DEF Is, q, r
  <2>2. \A id : ~Is(1, "resolve", id)
    BY <1>2 DEF Is
  <2>3. \A k \in DOMAIN events : events[k].kind = "ask" => QueueOf(events[k].request) \in Queues
    BY EventFacts DEF Types
  <2> QED
    BY <1>2, <2>1, <2>2, <2>3, RoomShifted DEF CardsOk
<1> QED
  BY <1>2, <1>9, <1>13, <1>14, <1>15, <1>16 DEF CardsOk

(* A card is decided on, by the user or because it is taken down. *)
LEMMA DecidingMoves ==
    ASSUME IInv, Types, CardsOk, NEW q \in Queues, NEW n \in DOMAIN cards[q], NEW seen \in Requests,
           NEW c, c = cards[q][n].id, Decide(q, c, seen), forgotten' = {}, UNCHANGED <<asked, read>>
    PROVE  /\ CardsKnown' /\ CardsOnce' /\ DecidedOnce'
           /\ \A p \in Queues : \A id : CardIn(p, id)' => CardIn(p, id)
           /\ \A id : CardOf(id) <=> CardOf(id)' \/ id = c
           /\ ~CardOf(c)'
           /\ \A id : Decided(id)' <=> Decided(id) \/ id = c
<1> DEFINE i == Position(cards[q], c)
           card == cards[q][i]
           d == [card |-> card, seen |-> seen]
<1>1. CardsTyped /\ cards[q] \in Seq(Requests) /\ commands \in Seq(Decisions)
  BY DEF Types, CardTypes, CardsTyped
<1>2. i \in DOMAIN cards[q] /\ card.id = c
  BY <1>1, PositionIsFirst
<1>3. card \in Requests /\ Known(card)
  BY <1>1, <1>2 DEF CardsOk, CardsKnown
<1>4. d \in Decisions /\ d.card = card
  BY <1>3 DEF Decisions
<1>5. cards' = [cards EXCEPT ![q] = Remove(@, i)] /\ commands' = Append(commands, d)
  BY DEF Decide
<1> HIDE DEF i, d
<1>6. /\ CardsOnce'
      /\ \A p \in Queues : \A id : CardIn(p, id) <=> CardIn(p, id)' \/ (p = q /\ card.id = id)
      /\ \A p \in Queues : \A id : card.id = id => ~CardIn(p, id)'
      /\ \A p \in Queues : \A j \in DOMAIN cards'[p] : \E k \in DOMAIN cards[p] : cards'[p][j] = cards[p][k]
  BY <1>1, <1>2, <1>5, CardsShrink DEF CardsOk
<1> HIDE DEF card
<1>7. CardOf(c)
  BY DEF CardOf, CardIn
<1>8. ~Decided(c)
  BY <1>7 DEF CardsOk, Apart
<1>9. /\ DecidedOnce' /\ \A id : Decided(id)' <=> Decided(id) \/ d.card.id = id
      /\ \A j \in DOMAIN commands' : commands'[j] = d \/ \E k \in DOMAIN commands : commands'[j] = commands[k]
  BY <1>1, <1>2, <1>4, <1>5, <1>8, CommandsGrow DEF CardsOk
<1>10. CardsKnown'
  BY <1>3, <1>4, <1>6, <1>9 DEF CardsOk, CardsKnown, Known
<1>11. \A id : CardOf(id) <=> CardOf(id)' \/ id = c
  BY <1>2, <1>6 DEF CardOf
<1>12. ~CardOf(c)'
  BY <1>2, <1>6 DEF CardOf
<1>13. \A id : Decided(id)' <=> Decided(id) \/ id = c
  BY <1>2, <1>4, <1>9
<1>14. \A p \in Queues : \A id : CardIn(p, id)' => CardIn(p, id)
  BY <1>6
<1> QED
  BY <1>6, <1>9, <1>10, <1>11, <1>12, <1>13, <1>14

LEMMA DecidingKeepsCards == ASSUME IInv, Types, CardsOk, DecideOnCard, forgotten' = {} PROVE CardsOk'
<1>1. PICK q \in Queues : \E i \in DOMAIN cards[q] : Decide(q, cards[q][i].id, cards[q][i])
  BY DEF DecideOnCard
<1>2. PICK n \in DOMAIN cards[q] : Decide(q, cards[q][n].id, cards[q][n])
  BY <1>1
<1>3. UNCHANGED <<asked, read, pending, cancelling, events, lossPending>>
  BY DEF DecideOnCard, notUi, serverVars
<1>4. cards[q][n] \in Requests
  BY DEF Types, CardTypes
<1>5. PICK c : c = cards[q][n].id
  OBVIOUS
<1>6. /\ CardsKnown' /\ CardsOnce' /\ DecidedOnce'
      /\ \A p \in Queues : \A id : CardIn(p, id)' => CardIn(p, id)
      /\ \A id : CardOf(id) <=> CardOf(id)' \/ id = c
      /\ ~CardOf(c)'
      /\ \A id : Decided(id)' <=> Decided(id) \/ id = c
  BY <1>2, <1>3, <1>4, <1>5, DecidingMoves
<1>7. EventsKnown' /\ StopsKnown' /\ AsksOnce' /\ ResolvedLast'
  BY <1>3 DEF CardsOk, EventsKnown, StopsKnown, AsksOnce, ResolvedLast, Known
<1>8. \A id : (OnItsWay(id)' <=> OnItsWay(id)) /\ (Resolving(id)' <=> Resolving(id))
  BY <1>3 DEF OnItsWay, Resolving, Is
<1>9. Apart' /\ HasPlace' /\ EndedIsResolved'
  <2>1. Apart'
    BY <1>6, <1>8 DEF CardsOk, Apart
  <2>2. HasPlace'
    BY <1>3, <1>6, <1>8 DEF CardsOk, HasPlace
  <2>3. EndedIsResolved'
    BY <1>3, <1>6, <1>8 DEF CardsOk, EndedIsResolved
  <2> QED
    BY <2>1, <2>2, <2>3
<1>10. RoomAhead'
  BY <1>3, <1>6, RoomKept, EventFacts DEF CardsOk, Types
<1> QED
  BY <1>6, <1>7, <1>9, <1>10 DEF CardsOk

LEMMA ResolvingKeepsCards == ASSUME IInv, Types, CardsOk, ReduceResolve, forgotten' = {} PROVE CardsOk'
<1> DEFINE e == Head(events)
           q == "approvals"
           shown == {i \in DOMAIN cards[q] : cards[q][i].id = e.id}
<1>1. /\ NextEvent("resolve") /\ UNCHANGED <<asked, read, pending, cancelling>>
      /\ IF shown = {} THEN UNCHANGED <<cards, commands, forgotten>>
         ELSE Decide(q, e.id, cards[q][Position(cards[q], e.id)])
  BY DEF ReduceResolve, notUi, serverVars
<1>2. /\ EventsKnown' /\ StopsKnown' /\ AsksOnce' /\ ResolvedLast'
      /\ e = events[1] /\ 1 \in DOMAIN events /\ e.kind = "resolve"
      /\ events \in Seq(AnyEvent) /\ events # <<>> /\ events' = Tail(events)
      /\ \A id : OnItsWay(id) <=> OnItsWay(id)' \/ (e.kind = "ask" /\ e.id = id)
      /\ \A id : Resolving(id) <=> Resolving(id)' \/ (e.kind = "resolve" /\ e.id = id)
      /\ \A id : e.kind \in {"ask", "resolve"} /\ e.id = id => ~OnItsWay(id)'
  BY <1>1, FirstEventGoes
<1>3. PICK c : c = e.id
  OBVIOUS
<1>4. c \in (1..read) \ DOMAIN pending /\ asked[c].kind = "tool"
  BY <1>2, <1>3 DEF CardsOk, EventsKnown
<1>5. q \in Queues /\ cards[q] \in Seq(Requests)
  BY DEF Queues, Types, CardTypes
<1> HIDE DEF e
<1>6. \A p \in Queues : \A i \in DOMAIN cards[p] : cards[p][i].id = c => p = q
  <2> SUFFICES ASSUME NEW p \in Queues, NEW i \in DOMAIN cards[p], cards[p][i].id = c PROVE p = q
    OBVIOUS
  <2>1. cards[p][i] = asked[c]
    BY DEF CardsOk, CardsKnown, Known
  <2>2. QueueOf(cards[p][i]) = q
    BY <1>4, <2>1 DEF QueueOf
  <2> QED
    BY <2>2 DEF Types, FitsInv
<1>7. /\ CardsKnown' /\ CardsOnce' /\ DecidedOnce'
      /\ \A p \in Queues : \A id : CardIn(p, id)' => CardIn(p, id)
      /\ \A id : id # c => (CardOf(id)' <=> CardOf(id))
      /\ ~CardOf(c)'
      /\ \A id : Decided(id)' => Decided(id) \/ (id = c /\ CardOf(id))
      /\ \A id : Decided(id) => Decided(id)'
  <2>1. CASE shown = {}
    <3>1. UNCHANGED <<cards, commands>>
      BY <1>1, <2>1
    <3>2. ~CardOf(c)
      BY <1>3, <1>6, <2>1 DEF CardOf, CardIn
    <3>3. CardsKnown' /\ CardsOnce' /\ DecidedOnce'
      BY <1>1, <3>1 DEF CardsOk, CardsKnown, Known, CardsOnce, DecidedOnce
    <3>4. \A id : (CardOf(id)' <=> CardOf(id)) /\ (Decided(id)' <=> Decided(id))
      BY <3>1 DEF CardOf, CardIn, Decided
    <3>5. \A p \in Queues : \A id : CardIn(p, id)' => CardIn(p, id)
      BY <3>1 DEF CardIn
    <3> QED
      BY <3>2, <3>3, <3>4, <3>5
  <2>2. CASE shown # {}
    <3>1. PICK n \in DOMAIN cards[q] : cards[q][n].id = c
      BY <1>3, <2>2
    <3> DEFINE seen == cards[q][Position(cards[q], c)]
    <3>2. Decide(q, c, seen)
      BY <1>1, <1>3, <2>2
    <3>3. seen \in Requests
      BY <1>5, <3>1, PositionIsFirst
    <3> HIDE DEF seen, q
    <3>4. /\ CardsKnown' /\ CardsOnce' /\ DecidedOnce'
          /\ \A p \in Queues : \A id : CardIn(p, id)' => CardIn(p, id)
          /\ \A id : CardOf(id) <=> CardOf(id)' \/ id = c
          /\ ~CardOf(c)'
          /\ \A id : Decided(id)' <=> Decided(id) \/ id = c
      BY <1>1, <1>5, <3>1, <3>2, <3>3, DecidingMoves
    <3> QED
      BY <3>4
  <2> QED
    BY <2>1, <2>2
<1>8. \A id : /\ OnItsWay(id) <=> OnItsWay(id)'
              /\ Resolving(id) => Resolving(id)' \/ id = c
  BY <1>2, <1>3
<1>9. ~OnItsWay(c)'
  BY <1>2, <1>3
<1>10. Apart' /\ HasPlace' /\ EndedIsResolved'
  <2>1. Apart'
    BY <1>7, <1>8, <1>9 DEF CardsOk, Apart
  <2>2. HasPlace'
    BY <1>1, <1>4, <1>7, <1>8 DEF CardsOk, HasPlace
  <2>3. EndedIsResolved'
    BY <1>1, <1>7, <1>8, <1>9 DEF CardsOk, EndedIsResolved
  <2> QED
    BY <2>1, <2>2, <2>3
<1>11. RoomAhead'
  <2>1. \A id : Is(1, "resolve", id) => ~OnItsWay(id)' /\ \A p \in Queues : ~CardIn(p, id)'
    BY <1>2, <1>3, <1>7, <1>9 DEF Is, CardOf
  <2>2. \A k \in DOMAIN events : events[k].kind = "ask" => QueueOf(events[k].request) \in Queues
    BY EventFacts DEF Types
  <2> QED
    BY <1>2, <1>7, <2>1, <2>2, RoomShifted DEF CardsOk
<1> QED
  BY <1>2, <1>7, <1>10, <1>11 DEF CardsOk

-----------------------------------------------------------------------------
(* The invariant of the places. *)

LEMMA InitCards == Init => CardsInv
<1> SUFFICES ASSUME Init PROVE CardsInv
  OBVIOUS
<1>1. /\ DOMAIN pending = {} /\ DOMAIN events = {} /\ DOMAIN commands = {}
      /\ cancelling = {} /\ lossPending = FALSE /\ up = TRUE
  BY EmptySequence DEF Init, Empty
<1>2. \A q \in Queues : DOMAIN cards[q] = {}
  BY EmptySequence DEF Init
<1>3. CardsKnown /\ CardsOnce
  BY <1>1, <1>2 DEF CardsKnown, CardsOnce
<1>4. EventsKnown /\ StopsKnown /\ AsksOnce /\ DecidedOnce /\ HasPlace /\ ResolvedLast /\ RoomAhead
  BY <1>1 DEF EventsKnown, StopsKnown, AsksOnce, DecidedOnce, HasPlace, ResolvedLast, RoomAhead
<1>5. \A id : ~CardOf(id) /\ ~OnItsWay(id) /\ ~Decided(id)
  BY <1>1, <1>2 DEF CardOf, CardIn, OnItsWay, Decided
<1>6. Apart /\ EndedIsResolved
  BY <1>5 DEF Apart, EndedIsResolved
<1> QED
  BY <1>1, <1>3, <1>4, <1>6 DEF CardsInv, CardsOk

(* Nothing waits when no app-server is connected. *)
LEMMA DisconnectedIsEmpty ==
    ASSUME IInv, Types, ~up => DOMAIN pending = {}, [Next]_vars
    PROVE  ~up' => DOMAIN pending' = {}
<1>1. CASE Overload \/ ServerEnds \/ StartBedrockLogin
  BY <1>1 DEF Overload, ServerEnds, StartBedrockLogin, DropServer, Empty
<1>2. CASE Reconnect
  BY <1>2 DEF Reconnect
<1>3. CASE ServerAsks \/ AnswerAtOnce \/ Register
  BY <1>3 DEF ServerAsks, AnswerAtOnce, Register, Receive
<1>4. CASE RespondOffline \/ RespondIgnored \/ Escape
  BY <1>4 DEF RespondOffline, RespondIgnored, Escape, notRespond, serverVars
<1>5. CASE Respond \/ RespondFails
  BY <1>5 DEF Respond, RespondFails, notRespond, serverVars
<1>6. CASE CancelTool
  <2>1. UNCHANGED up /\ cancelling # {}
    BY <1>6 DEF CancelTool, serverVars
  <2>2. cancelling \subseteq DOMAIN pending
    BY TableFacts
  <2> QED
    BY <2>1, <2>2
<1>7. CASE UI \/ DecideOnCard \/ ArchiveTask \/ AllIsSaid \/ UNCHANGED vars
  BY <1>7 DEF UI, ReduceLossFlag, ReduceConnectionLost, ReduceConnected, ReduceAsk, ReduceResolve,
              DecideOnCard, ArchiveTask, AllIsSaid, notUi, serverVars, vars
<1> QED
  BY <1>1, <1>2, <1>3, <1>4, <1>5, <1>6, <1>7 DEF Next, Backend

(* Once a connection is lost it is not the first app-server that comes back, *)
(* and what is given up stays so.                                            *)
LEMMA LiveBefore == ASSUME Types, [Next]_vars, Live' PROVE Live
<1>1. server \in Nat /\ server >= 1
  BY Limits DEF Types, BackendTypes
<1>2. forgotten \subseteq forgotten'
  <2>1. CASE ServerAsks \/ Backend
    BY <2>1 DEF ServerAsks, Backend, AnswerAtOnce, Register, Overload, ServerEnds, StartBedrockLogin,
                Reconnect, RespondOffline, RespondIgnored, Respond, RespondFails, Escape, CancelTool,
                Restored, GivenUp, EmitAbout
  <2>2. CASE UI \/ DecideOnCard \/ ArchiveTask \/ AllIsSaid \/ UNCHANGED vars
    BY <2>2 DEF UI, ReduceLossFlag, ReduceConnectionLost, ReduceConnected, ReduceAsk, ReduceResolve,
                DecideOnCard, ArchiveTask, AllIsSaid, Decide, vars
  <2> QED
    BY <2>1, <2>2 DEF Next
<1>3. CASE Reconnect
  BY <1>1, <1>3 DEF Reconnect, Live
<1>4. CASE Overload \/ ServerEnds \/ StartBedrockLogin
  BY <1>4 DEF Overload, ServerEnds, StartBedrockLogin, DropServer, Gone, Live
<1>5. CASE UNCHANGED <<server, up>>
  BY <1>2, <1>5 DEF Live
<1>6. ServerAsks \/ AnswerAtOnce \/ Register \/ RespondOffline \/ RespondIgnored \/ Respond
      \/ RespondFails \/ Escape \/ CancelTool => UNCHANGED <<server, up>>
  BY DEF ServerAsks, AnswerAtOnce, Register, RespondOffline, RespondIgnored, Respond, RespondFails,
         Escape, CancelTool, notRespond, serverVars
<1>7. UI \/ DecideOnCard \/ ArchiveTask \/ AllIsSaid \/ UNCHANGED vars => UNCHANGED <<server, up>>
  BY DEF UI, ReduceLossFlag, ReduceConnectionLost, ReduceConnected, ReduceAsk, ReduceResolve,
         DecideOnCard, ArchiveTask, AllIsSaid, notUi, serverVars, vars
<1> QED
  BY <1>3, <1>4, <1>5, <1>6, <1>7 DEF Next, Backend

LEMMA CardsStep == IInv /\ Types /\ CardsInv /\ [Next]_vars => CardsInv'
<1> SUFFICES ASSUME IInv, Types, CardsInv, [Next]_vars PROVE CardsInv'
  OBVIOUS
<1>1. ~up' => DOMAIN pending' = {}
  BY DisconnectedIsEmpty DEF CardsInv
<1> SUFFICES ASSUME Live' PROVE CardsOk'
  BY <1>1 DEF CardsInv
<1>2. Live /\ CardsOk /\ up /\ up' /\ forgotten = {} /\ forgotten' = {}
  BY LiveBefore DEF Live, CardsInv
<1>3. EventTypes /\ read \in Nat /\ Len(asked) \in Nat /\ ~lossPending
  BY <1>2, TableFacts DEF Types, BackendTypes, CardsOk, StopsKnown
<1>4. CASE ServerAsks \/ AnswerAtOnce \/ AllIsSaid \/ UNCHANGED vars
  <2>1. UNCHANGED <<events, cards, commands, lossPending, pending, cancelling>>
    BY <1>4 DEF ServerAsks, AnswerAtOnce, AllIsSaid, vars, uiVars
  <2>2. \A i \in 1..read : i \in 1..read' /\ asked'[i] = asked[i]
    <3>1. CASE ServerAsks
      <4>1. PICK r : asked' = Append(asked, r) /\ read' = read
        BY <3>1 DEF ServerAsks
      <4>2. IsSeq(asked) /\ read \in 0..Len(asked)
        BY DEF IInv, TableInv
      <4>3. \A i \in 1..Len(asked) : asked'[i] = asked[i]
        BY <4>1, <4>2, Appending
      <4> QED
        BY <1>3, <4>1, <4>2, <4>3
    <3>2. CASE AnswerAtOnce
      <4>1. read' = read + 1 /\ asked' = asked
        BY <3>2 DEF AnswerAtOnce, Receive
      <4> QED
        BY <1>3, <4>1
    <3>3. CASE AllIsSaid \/ UNCHANGED vars
      BY <3>3 DEF AllIsSaid, vars, serverVars
    <3> QED
      BY <1>4, <3>1, <3>2, <3>3
  <2>3. \A id \in cancelling' : asked'[id].kind = "tool"
    <3>1. \A id \in cancelling : id \in 1..read /\ asked[id].kind = "tool"
      BY <1>2, TableFacts DEF CardsOk, StopsKnown
    <3> QED
      BY <2>1, <2>2, <3>1
  <2> QED
    BY <1>2, <1>3, <2>1, <2>2, <2>3, NothingMoves
<1>5. CASE Escape
  <2>1. UNCHANGED <<events, cards, commands, lossPending, pending, asked, read>> /\ cancelling' = ToolsWaiting
    BY <1>5 DEF Escape, serverVars, uiVars
  <2>2. \A id \in cancelling' : asked'[id].kind = "tool"
    BY <2>1, TableFacts DEF ToolsWaiting
  <2> QED
    BY <1>2, <1>3, <2>1, <2>2, NothingMoves
<1>6. CASE Register
  BY <1>2, <1>6, RegisteringKeepsCards
<1>7. CASE Overload \/ ServerEnds \/ StartBedrockLogin \/ Reconnect \/ RespondOffline
  <2>1. ~up' \/ ~up
    BY <1>7 DEF Overload, ServerEnds, StartBedrockLogin, DropServer, Gone, Reconnect, RespondOffline
  <2> QED
    BY <1>2, <2>1
<1>8. CASE RespondIgnored
  BY <1>2, <1>8, IgnoringKeepsCards
<1>9. CASE Respond
  BY <1>2, <1>9, RespondingKeepsCards
<1>10. CASE RespondFails
  BY <1>2, <1>10, FailingKeepsCards
<1>11. CASE CancelTool
  BY <1>2, <1>11, CancellingKeepsCards
<1>12. CASE ReduceLossFlag
  BY <1>3, <1>12 DEF ReduceLossFlag
<1>13. CASE ReduceConnectionLost
  <2>1. events[1].kind = "lost" /\ 1 \in DOMAIN events
    BY <1>3, <1>13, TakingFirst DEF ReduceConnectionLost, NextEvent, EventTypes
  <2> QED
    BY <1>2, <2>1 DEF CardsOk, EventsKnown
<1>14. CASE ReduceConnected
  BY <1>2, <1>14, ConnectingKeepsCards
<1>15. CASE ReduceAsk
  BY <1>2, <1>15, ShowingKeepsCards
<1>16. CASE ReduceResolve
  BY <1>2, <1>16, ResolvingKeepsCards
<1>17. CASE DecideOnCard
  BY <1>2, <1>17, DecidingKeepsCards
<1>18. CASE ArchiveTask
  <2>1. forgotten' # {}
    BY <1>18 DEF ArchiveTask
  <2> QED
    BY <1>2, <2>1
<1> QED
  BY <1>4, <1>5, <1>6, <1>7, <1>8, <1>9, <1>10, <1>11, <1>12, <1>13, <1>14, <1>15, <1>16, <1>17, <1>18
     DEF Next, Backend, UI

(* Cards and requests match: until something is given up, a request of the   *)
(* first app-server that waits has a card, or one on its way, or a decision  *)
(* on its way back, so a full queue of cards never gives up one that is      *)
(* needed; and no decision answers a request of another kind.                *)
THEOREM CardsMatch == Spec => []CardsMatchRequests
<1>1. IInv /\ Types /\ CardsInv => CardsMatchRequests
  <2> SUFFICES ASSUME IInv, Types, CardsInv PROVE WaitingHasCard
    BY DEF CardsMatchRequests, Types
  <2> SUFFICES ASSUME server = 1, forgotten = {}, NEW id \in DOMAIN pending PROVE CardWaits(pending[id])
    BY DEF WaitingHasCard
  <2>1. CardsOk
    BY DEF CardsInv, Live
  <2>2. id \in 1..read /\ pending[id] = asked[id] /\ asked[id].id = id
    BY TableFacts
  <2>3. CASE CardOf(id)
    <3>1. PICK q \in Queues : \E i \in DOMAIN cards[q] : cards[q][i].id = id
      BY <2>3 DEF CardOf, CardIn
    <3>2. PICK i \in DOMAIN cards[q] : cards[q][i].id = id
      BY <3>1
    <3>3. cards[q][i] = pending[id] /\ QueueOf(cards[q][i]) = q
      BY <2>1, <2>2, <3>2 DEF CardsOk, CardsKnown, Known, Types, FitsInv
    <3> QED
      BY <2>2, <3>2, <3>3 DEF CardWaits
  <2>4. CASE OnItsWay(id)
    <3>1. PICK k \in DOMAIN events : events[k].kind = "ask" /\ events[k].id = id
      BY <2>4 DEF OnItsWay, Is
    <3>2. events[k].request = pending[id]
      BY <2>1, <2>2, <3>1, EventFacts DEF CardsOk, EventsKnown, Known, Types
    <3> QED
      BY <2>2, <3>1, <3>2 DEF CardWaits, Fits
  <2>5. CASE Decided(id)
    <3>1. PICK j \in DOMAIN commands : commands[j].card.id = id
      BY <2>5 DEF Decided
    <3>2. commands[j].card = pending[id]
      BY <2>1, <2>2, <3>1 DEF CardsOk, CardsKnown, Known
    <3> QED
      BY <2>2, <3>1, <3>2 DEF CardWaits, Fits
  <2> QED
    BY <2>1, <2>3, <2>4, <2>5 DEF CardsOk, HasPlace
<1> QED
  BY InitHolds, StepHolds, InitTypes, TypesStep, InitCards, CardsStep, <1>1, PTL DEF Spec
=============================================================================
